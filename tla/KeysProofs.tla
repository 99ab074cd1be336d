----------------------------- MODULE KeysProofs -----------------------------
(***************************************************************************)
(* Proofs about Keys, for every set of buttons, every time constant that   *)
(* KeysAssumption allows and every order of presses, launches, crashes and *)
(* settings.  Two inductive invariants, one on top of the other:           *)
(*                                                                         *)
(*   Base    a press that gave a new key is followed by the reader that    *)
(*           read it (Steady): its next frame or repeat code arrives       *)
(*           within IR_HOLD_MS, also when one frame is lost;               *)
(*   Wake    a press that woke a screen is followed as well, the saver     *)
(*           swallows what follows, and the layer tells the saver's state. *)
(***************************************************************************)
EXTENDS Keys, TLAPS

IrRec == [init : BOOLEAN, last : Buttons \union {None}, age : 0..Hold, rep : BOOLEAN]
SavRec == [on : BOOLEAN, eat : BOOLEAN, age : -1..SaverTime]
Events == [btn : Buttons \union {None}, repeat : BOOLEAN]

\* TypeOK in parts: the provers take records, flags and counts one at a time.
RemoteTypes ==
  /\ held \in Buttons \union {None} /\ nframe \in 0..2 /\ lost \in 0..1
  /\ stat \in Buttons \union {None, "bad"} /\ rep \in BOOLEAN
FlagTypes ==
  /\ saver_min \in BOOLEAN /\ layer \in BOOLEAN /\ sys \in BOOLEAN
  /\ auto \in BOOLEAN /\ polled \in BOOLEAN
PlaceTypes ==
  /\ place \in PollPlaces \union BusyPlaces \union {"crashOver", "end"}
  /\ busy \in 0..(Blink + Settle + MaxLoad)
  /\ fresh \in 0..2 /\ woke \in Images \union {None, "leaked"}
  /\ idle \in 0..SaverTime
IrTypes == ir \in [Images -> IrRec]
PressTypes == press \in [Images -> 0..Delay]
SavTypes == sav \in [Images -> SavRec]

Types == RemoteTypes /\ FlagTypes /\ PlaceTypes /\ IrTypes /\ PressTypes /\ SavTypes

LEMMA TypeParts == TypeOK <=> Types
  BY DEF TypeOK, Types, RemoteTypes, FlagTypes, PlaceTypes, IrTypes, PressTypes, SavTypes, IrRec, SavRec

\* Buttons are strings other than the markers.
LEMMA ButtonNames == None \notin Buttons /\ "bad" \notin Buttons
  BY KeysAssumption DEF None

LEMMA ImageNames == Image \in Images /\ (FlagTypes => Reader \in Images)
  BY DEF Image, Reader, Images, FlagTypes

----------------------------------------------------------------------------
(* What ir_poll can return.                                                *)

\* The three outcomes of ir_poll: nothing, a frame, a repeat code.
LEMMA EventCases ==
  ASSUME Types, NEW r \in Images
  PROVE  \/ IrEvent(r) = NoEvent
         \/ /\ ir[r].init /\ stat \in Buttons
            /\ IrEvent(r) = [btn |-> stat, repeat |-> Recent(r) /\ stat = ir[r].last]
         \/ /\ ir[r].init /\ stat = None /\ rep /\ ~ir[r].rep /\ Recent(r)
            /\ IrEvent(r) = [btn |-> ir[r].last, repeat |-> TRUE]
  BY ButtonNames DEF Types, RemoteTypes, IrEvent, None

LEMMA SilentWhen ==
  ASSUME Types, NEW r \in Images, IrEvent(r) = NoEvent
  PROVE  /\ ir[r].init => stat \notin Buttons
         /\ ir[r].init /\ stat = None => ~(rep /\ ~ir[r].rep /\ Recent(r))
<1>0. ir[r] \in IrRec
  BY DEF Types, IrTypes
<1>1. ASSUME ir[r].init, stat \in Buttons PROVE FALSE
  <2>1. IrEvent(r).btn = stat
    BY <1>1, ButtonNames DEF IrEvent, None
  <2> QED
    BY <2>1, <1>1, ButtonNames DEF NoEvent
<1>2. ASSUME ir[r].init, stat = None, rep, ~ir[r].rep, Recent(r) PROVE FALSE
  <2>1. IrEvent(r).repeat
    BY <1>2, ButtonNames DEF IrEvent, None
  <2> QED
    BY <2>1 DEF NoEvent
<1> QED
  BY <1>1, <1>2

LEMMA EventNames ==
  ASSUME Types, NEW r \in Images
  PROVE  /\ IrEvent(r) \in Events
         /\ IrEvent(r).btn = None <=> IrEvent(r) = NoEvent
         /\ IrEvent(r) = NoEvent => ~IrEvent(r).repeat
<1>0. ir[r] \in IrRec
  BY DEF Types, IrTypes
<1>1. CASE IrEvent(r) = NoEvent
  BY <1>1 DEF NoEvent, Events
<1>2. ASSUME NEW b \in Buttons, NEW q \in BOOLEAN, IrEvent(r) = [btn |-> b, repeat |-> q]
      PROVE  /\ IrEvent(r) \in Events
             /\ IrEvent(r).btn = None <=> IrEvent(r) = NoEvent
             /\ IrEvent(r) = NoEvent => ~IrEvent(r).repeat
  BY <1>2, ButtonNames DEF NoEvent, Events
<1>3. (Recent(r) /\ stat = ir[r].last) \in BOOLEAN
  BY DEF Recent
<1>4. Recent(r) => ir[r].last \in Buttons
  BY <1>0 DEF Recent, IrRec
<1> HIDE DEF IrEvent, Recent
<1> QED
  BY <1>1, <1>2, <1>3, <1>4, EventCases

\* ir_poll's record: the event becomes the last key, its age starts again.
LEMMA PolledRecord ==
  ASSUME Types, NEW r \in Images
  PROVE  /\ IrPolled(r) \in IrRec
         /\ IrPolled(r).init /\ IrPolled(r).rep = rep
         /\ ~ir[r].init => IrPolled(r).last = None
         /\ ir[r].init /\ IrEvent(r) = NoEvent =>
              IrPolled(r).last = ir[r].last /\ IrPolled(r).age = ir[r].age
         /\ IrEvent(r) # NoEvent =>
              IrPolled(r).last = IrEvent(r).btn /\ IrPolled(r).age = 0
<1>0. ir[r] \in IrRec /\ rep \in BOOLEAN
  BY DEF Types, IrTypes, RemoteTypes
<1>1. CASE ~ir[r].init
  <2>1. IrEvent(r) = NoEvent
    BY <1>1 DEF IrEvent
  <2>2. IrPolled(r) = [init |-> TRUE, last |-> None, age |-> Hold, rep |-> rep]
    BY <1>1 DEF IrPolled, IrZero
  <2> QED
    BY <1>0, <1>1, <2>1, <2>2, KeysAssumption DEF IrRec
<1>2. CASE ir[r].init /\ IrEvent(r) = NoEvent
  <2>1. IrPolled(r) = [ir[r] EXCEPT !.rep = rep, !.last = ir[r].last, !.age = ir[r].age]
    BY <1>2 DEF IrPolled
  <2> QED
    BY <1>0, <1>2, <2>1 DEF IrRec
<1>3. CASE ir[r].init /\ IrEvent(r) # NoEvent
  <2> DEFINE b == IrEvent(r).btn
  <2>1. IrPolled(r) = [ir[r] EXCEPT !.rep = rep, !.last = b, !.age = 0]
    BY <1>3 DEF IrPolled
  <2>2. b \in Buttons \union {None}
    BY EventNames DEF Events
  <2>3. IrEvent(r) # NoEvent /\ ir[r].init
    BY <1>3
  <2> HIDE DEF b
  <2>4. IrPolled(r) = [init |-> ir[r].init, last |-> b, age |-> 0, rep |-> rep]
    BY <1>0, <2>1 DEF IrRec
  <2>5. ir[r].init \in BOOLEAN /\ 0 \in 0..Hold
    BY <1>0, KeysAssumption DEF IrRec
  <2>6. IrPolled(r) \in IrRec
    BY <1>0, <2>2, <2>4, <2>5 DEF IrRec
  <2>7. /\ IrPolled(r).init /\ IrPolled(r).rep = rep
        /\ IrPolled(r).last = b /\ IrPolled(r).age = 0
    BY <2>3, <2>4
  <2> QED
    BY <2>3, <2>6, <2>7 DEF b
<1> QED
  BY <1>1, <1>2, <1>3

----------------------------------------------------------------------------
(* sdk_key_read, the saver and sdk_key_poll.                               *)

LEMMA ReadIsEvent ==
  ASSUME Types, NEW r \in Images
  PROVE  /\ Read(r) = NoEvent \/ Read(r) = IrEvent(r)
         /\ IrEvent(r) # NoEvent /\ ~IrEvent(r).repeat => Read(r) = IrEvent(r)
         /\ IrEvent(r) = NoEvent => Read(r) = NoEvent
         /\ Read(r) # NoEvent => IrEvent(r) # NoEvent
         /\ Read(r) \in Events
         /\ Read(r).btn = None <=> Read(r) = NoEvent
<1>1. Read(r) = NoEvent \/ Read(r) = IrEvent(r)
  BY DEF Read
<1>2. IrEvent(r) # NoEvent /\ ~IrEvent(r).repeat => Read(r) = IrEvent(r)
  BY DEF Read
<1>3. NoEvent.repeat = FALSE /\ NoEvent.btn = None
  BY DEF NoEvent
<1>4. IrEvent(r) \in Events
  BY EventNames
<1>5. NoEvent \in Events
  BY DEF NoEvent, Events
<1> QED
  BY <1>1, <1>2, <1>3, <1>4, <1>5, EventNames

LEMMA CheckedRecord ==
  ASSUME Types, NEW i \in Images
  PROVE  /\ Checked(i) \in SavRec
         /\ Checked(i).eat = sav[i].eat
         /\ Checked(i).on <=> sav[i].on \/ SaverDue(i)
         /\ Checked(i).age = IF saver_min /\ ~sav[i].on /\ sav[i].age = -1 THEN 0 ELSE sav[i].age
<1> DEFINE n == (sav[i].on \/ SaverDue(i))
           a == IF saver_min /\ ~sav[i].on /\ sav[i].age = -1 THEN 0 ELSE sav[i].age
<1>1. sav[i] \in SavRec
  BY DEF Types, SavTypes
<1>2. Checked(i) = [sav[i] EXCEPT !.on = n, !.age = a]
  BY DEF Checked
<1>3. n \in BOOLEAN /\ a \in -1..SaverTime
  BY <1>1, KeysAssumption DEF SavRec
<1> HIDE DEF n, a
<1>4. Checked(i) = [on |-> n, eat |-> sav[i].eat, age |-> a]
  BY <1>1, <1>2 DEF SavRec
<1>5. sav[i].eat \in BOOLEAN
  BY <1>1 DEF SavRec
<1>6. Checked(i) \in SavRec
  BY <1>3, <1>4, <1>5 DEF SavRec
<1>7. Checked(i).eat = sav[i].eat /\ Checked(i).on = n /\ Checked(i).age = a
  BY <1>4
<1> QED
  BY <1>6, <1>7 DEF n, a

LEMMA SaverKeyRecord ==
  ASSUME Types, NEW i \in Images, NEW k \in Events
  PROVE  /\ SaverKey(i, k) \in SavRec
         /\ SaverKey(i, k).on = FALSE /\ SaverKey(i, k).age = 0
         /\ SaverKey(i, k).eat <=> Checked(i).on \/ (sav[i].eat /\ k.repeat)
<1>1. Checked(i) \in SavRec /\ Checked(i).eat = sav[i].eat
  BY CheckedRecord
<1>2. 0 \in -1..SaverTime
  BY KeysAssumption
<1>3. CASE Checked(i).on
  BY <1>2, <1>3 DEF SaverKey, SavRec
<1>4. CASE ~Checked(i).on
  <2>1. SaverKey(i, k) = [on |-> Checked(i).on, eat |-> Checked(i).eat /\ k.repeat, age |-> 0]
    BY <1>1, <1>4 DEF SaverKey, SavRec
  <2>2. Checked(i).on = FALSE /\ (Checked(i).eat /\ k.repeat) \in BOOLEAN
    BY <1>1, <1>4 DEF SavRec, Events
  <2> QED
    BY <1>1, <1>2, <1>4, <2>1, <2>2 DEF SavRec
<1> QED
  BY <1>3, <1>4

\* What a poll of the running image does to the keys and to the saver.
LEMMA PollFacts ==
  ASSUME Types, KeyPoll
  PROVE  /\ polled' = TRUE /\ stat' = None
         /\ UNCHANGED <<held, nframe, lost, rep, sys, auto>>
         /\ ir' = [ir EXCEPT ![Reader] = IrPolled(Reader)]
         /\ \A i \in Images : i # Image => sav'[i] = sav[i]
         /\ Read(Reader) = NoEvent => sav'[Image] = Checked(Image) /\ idle' = idle
         /\ Read(Reader) # NoEvent => sav'[Image] = SaverKey(Image, Read(Reader)) /\ idle' = 0
         /\ sav' \in [Images -> SavRec]
<1>1. Image \in Images /\ Reader \in Images
  BY ImageNames DEF Types
<1>2. SaverKey(Image, Read(Reader)) \in SavRec /\ Checked(Image) \in SavRec
  <2>1. Read(Reader) \in Events
    BY <1>1, ReadIsEvent
  <2>2. SaverKey(Image, Read(Reader)) \in SavRec
    BY <1>1, <2>1, SaverKeyRecord
  <2> QED
    BY <1>1, <2>2, CheckedRecord
<1>3. sav \in [Images -> SavRec]
  BY DEF Types, SavTypes
<1>4. /\ sav' = [sav EXCEPT ![Image] = IF Read(Reader) # NoEvent THEN SaverKey(Image, Read(Reader))
                                     ELSE Checked(Image)]
      /\ idle' = IF Read(Reader) # NoEvent THEN 0 ELSE idle
  BY DEF KeyPoll
<1>5. /\ polled' = TRUE /\ stat' = None
      /\ UNCHANGED <<held, nframe, lost, rep, sys, auto>>
      /\ ir' = [ir EXCEPT ![Reader] = IrPolled(Reader)]
  BY DEF KeyPoll
<1> HIDE DEF Image, Reader, SaverKey, Checked, Read
<1> QED
  BY <1>1, <1>2, <1>3, <1>4, <1>5

\* Which presses count as new, and what becomes of the waking press.
LEMMA PollCounts ==
  ASSUME Types, KeyPoll
  PROVE  /\ fresh' = IF IrEvent(Reader) # NoEvent /\ ~IrEvent(Reader).repeat /\ fresh < 2
                    THEN fresh + 1 ELSE fresh
         /\ woke' = IF Read(Reader) # NoEvent /\ Checked(Image).on THEN Image
                   ELSE IF Key # NoEvent /\ woke = Image THEN "leaked" ELSE woke
         /\ press' = IF IrEvent(Reader) # NoEvent /\ ~IrEvent(Reader).repeat
                    THEN [press EXCEPT ![Reader] = 0] ELSE press
         /\ layer' = IF sav'[Image].on = sav[Image].on THEN layer ELSE ~sav'[Image].on
  BY DEF KeyPoll

LEMMA PollTypes ==
  ASSUME Types, KeyPoll
  PROVE  /\ RemoteTypes' /\ IrTypes' /\ PressTypes' /\ SavTypes'
         /\ layer' \in BOOLEAN /\ sys' \in BOOLEAN /\ auto' \in BOOLEAN /\ polled' \in BOOLEAN
         /\ fresh' \in 0..2 /\ woke' \in Images \union {None, "leaked"} /\ idle' \in 0..SaverTime
<1>1. Image \in Images /\ Reader \in Images
  BY ImageNames DEF Types
<1>2. RemoteTypes'
  BY PollFacts DEF Types, RemoteTypes
<1>3. IrTypes'
  <2>1. IrPolled(Reader) \in IrRec
    BY <1>1, PolledRecord
  <2> QED
    BY <1>1, <2>1, PollFacts DEF Types, IrTypes
<1>4. PressTypes'
  <2>1. 0 \in 0..Delay /\ press \in [Images -> 0..Delay]
    BY KeysAssumption DEF Types, PressTypes
  <2> QED
    BY <1>1, <2>1, PollCounts DEF PressTypes
<1>5. SavTypes'
  BY PollFacts DEF SavTypes
<1>6. layer' \in BOOLEAN
  <2>1. sav'[Image] \in SavRec /\ layer \in BOOLEAN
    BY <1>1, PollFacts DEF Types, FlagTypes
  <2>2. sav'[Image].on \in BOOLEAN
    BY <2>1 DEF SavRec
  <2> QED
    BY <2>1, <2>2, PollCounts
<1>7. sys' \in BOOLEAN /\ auto' \in BOOLEAN /\ polled' \in BOOLEAN
  BY PollFacts DEF Types, FlagTypes
<1>8. fresh' \in 0..2
  BY PollCounts DEF Types, PlaceTypes
<1>9. woke' \in Images \union {None, "leaked"}
  BY <1>1, PollCounts DEF Types, PlaceTypes
<1>10. idle' \in 0..SaverTime
  <2>1. idle \in 0..SaverTime /\ 0 \in 0..SaverTime
    BY KeysAssumption DEF Types, PlaceTypes
  <2> QED
    BY <2>1, PollFacts
<1> QED
  BY <1>2, <1>3, <1>4, <1>5, <1>6, <1>7, <1>8, <1>9, <1>10

----------------------------------------------------------------------------
(* A press is followed by its reader.                                      *)

\* The frames under way are those of the button held.
RemoteInv ==
  /\ held = None <=> nframe = 0
  /\ held # None /\ stat \in Buttons => stat = held
  /\ nframe = 1 => ~rep /\ stat # "bad"

\* A last key that ir_poll would not take for the same press is forgotten.
IrSound == \A i \in Images : ir[i].last # None => ir[i].age < Hold

\* What reader r gets next is a repeat: it has seen the press, and a frame or a
\* repeat code arrives before IR_HOLD_MS are over, also when one is lost.
Steady(r) ==
  /\ ir[r].init
  /\ stat \in Buttons => ir[r].last = stat /\ ir[r].age < Hold
  /\ polled => stat = None /\ ir[r].rep = rep
  /\ held # None =>
       /\ ir[r].last = held
       /\ polled => ir[r].age <= lost
       /\ ~polled /\ lost = 1 => ir[r].age <= 1
       /\ ~polled /\ lost = 0 =>
            ir[r].age <= 2 /\ (stat = held \/ (stat = None /\ rep /\ ~ir[r].rep))

InPoll == place \in PollPlaces

FreshInv == fresh <= 1 /\ (InPoll /\ fresh = 1 => Steady(Reader))

\* The record of the running reader after a poll.
LEMMA PolledReader ==
  ASSUME Types, KeyPoll, NEW r \in Images, r = Reader
  PROVE  /\ ir'[r] = IrPolled(r) /\ ir'[r] \in IrRec
         /\ ir'[r].init /\ ir'[r].rep = rep
         /\ ~ir[r].init => ir'[r].last = None
         /\ ir[r].init /\ IrEvent(r) = NoEvent => ir'[r].last = ir[r].last /\ ir'[r].age = ir[r].age
         /\ IrEvent(r) # NoEvent => ir'[r].last = IrEvent(r).btn /\ ir'[r].age = 0
         /\ \A i \in Images : i # r => ir'[i] = ir[i]
<1>1. ir'[r] = IrPolled(r) /\ \A i \in Images : i # r => ir'[i] = ir[i]
  BY PollFacts DEF Types, IrTypes
<1> QED
  BY <1>1, PolledRecord

\* After an event of the button held, or of one that was let go, it is followed.
LEMMA EventSteady ==
  ASSUME Types, RemoteInv, KeyPoll, NEW r \in Images, r = Reader,
         IrEvent(r) # NoEvent, held # None => IrEvent(r).btn = held
  PROVE  Steady(r)'
<1>1. /\ ir'[r].init /\ ir'[r].rep = rep /\ ir'[r].age = 0
      /\ ir'[r].last = IrEvent(r).btn
  BY PolledReader
<1>2. polled' /\ stat' = None /\ held' = held /\ lost' = lost /\ rep' = rep
  BY PollFacts
<1>3. None \notin Buttons /\ lost >= 0
  BY ButtonNames DEF Types, RemoteTypes
<1> QED
  BY <1>1, <1>2, <1>3 DEF Steady

\* A press that is followed stays so and gives nothing new.
LEMMA SteadyPoll ==
  ASSUME Types, RemoteInv, KeyPoll, NEW r \in Images, r = Reader, Steady(r)
  PROVE  Steady(r)' /\ (IrEvent(r) # NoEvent => IrEvent(r).repeat)
<1>0. ir[r] \in IrRec
  BY DEF Types, IrTypes
<1>1. CASE IrEvent(r) = NoEvent
  <2>1. ir'[r].init /\ ir'[r].rep = rep /\ ir'[r].age = ir[r].age /\ ir'[r].last = ir[r].last
    BY <1>1, PolledReader DEF Steady
  <2>2. polled' /\ stat' = None /\ held' = held /\ lost' = lost /\ rep' = rep
    BY PollFacts
  <2>3. stat \notin Buttons /\ ~(stat = None /\ rep /\ ~ir[r].rep /\ Recent(r))
    BY <1>1, SilentWhen DEF Steady
  <2>4. held # None => ir[r].last = held /\ ir[r].age <= lost
    <3>1. SUFFICES ASSUME held # None PROVE ir[r].last = held /\ ir[r].age <= lost
      OBVIOUS
    <3>2. ir[r].last = held /\ held \in Buttons
      BY <3>1 DEF Steady, Types, RemoteTypes
    <3>3. ir[r].age \in Nat /\ lost \in {0, 1}
      BY <1>0, KeysAssumption DEF IrRec, Types, RemoteTypes
    <3>5. polled \in BOOLEAN /\ rep \in BOOLEAN /\ ir[r].rep \in BOOLEAN
      BY <1>0 DEF IrRec, Types, RemoteTypes, FlagTypes
    <3>4. ASSUME ~polled, lost = 0 PROVE FALSE
      <4>1. ir[r].age <= 2 /\ (stat = held \/ (stat = None /\ rep /\ ~ir[r].rep))
        BY <3>1, <3>3, <3>4, <3>5 DEF Steady
      <4>2. Recent(r)
        BY <3>1, <3>2, <3>3, <4>1, KeysAssumption DEF Recent
      <4> QED
        BY <2>3, <3>2, <4>1, <4>2
    <3> QED
      BY <3>1, <3>2, <3>3, <3>4 DEF Steady
  <2> QED
    BY <1>1, <2>1, <2>2, <2>4, ButtonNames DEF Steady
<1>2. CASE IrEvent(r) # NoEvent /\ stat \in Buttons
  <2>1. IrEvent(r) = [btn |-> stat, repeat |-> Recent(r) /\ stat = ir[r].last]
    BY <1>2, EventCases, ButtonNames
  <2>2. Recent(r) /\ stat = ir[r].last
    BY <1>2, ButtonNames DEF Steady, Recent
  <2>3. IrEvent(r) = [btn |-> stat, repeat |-> TRUE]
    BY <2>1, <2>2
  <2>4. IrEvent(r).btn = stat /\ IrEvent(r).repeat
    BY <2>3
  <2> QED
    BY <1>2, <2>4, EventSteady DEF RemoteInv
<1>3. CASE IrEvent(r) # NoEvent /\ stat \notin Buttons
  <2>1. IrEvent(r) = [btn |-> ir[r].last, repeat |-> TRUE]
    BY <1>3, EventCases
  <2>2. IrEvent(r).btn = ir[r].last /\ IrEvent(r).repeat
    BY <2>1
  <2>3. held # None => IrEvent(r).btn = held
    BY <2>2 DEF Steady
  <2> QED
    BY <1>3, <2>2, <2>3, EventSteady
<1> QED
  BY <1>1, <1>2, <1>3

\* A new key is a frame of the press, seen for the first time.
LEMMA NewKey ==
  ASSUME Types, RemoteInv, KeyPoll, NEW r \in Images, r = Reader,
         IrEvent(r) # NoEvent, ~IrEvent(r).repeat
  PROVE  Steady(r)' /\ stat \in Buttons /\ IrEvent(r).btn = stat
<1>1. stat \in Buttons /\ IrEvent(r) = [btn |-> stat, repeat |-> Recent(r) /\ stat = ir[r].last]
  BY EventCases
<1>2. IrEvent(r).btn = stat
  BY <1>1
<1> QED
  BY <1>1, <1>2, EventSteady DEF RemoteInv

LEMMA PollIrSound ==
  ASSUME Types, IrSound, KeyPoll
  PROVE  IrSound'
<1>1. PICK r \in Images : r = Reader
  BY ImageNames DEF Types
<1>2. ASSUME NEW i \in Images PROVE ir'[i].last # None => ir'[i].age < Hold
  <2>1. CASE i # r
    BY <1>1, <2>1, PolledReader DEF IrSound
  <2>2. CASE i = r
    BY <1>1, <2>2, PolledReader, KeysAssumption DEF IrSound
  <2> QED
    BY <2>1, <2>2
<1> QED
  BY <1>2 DEF IrSound

----------------------------------------------------------------------------
(* The loops that wait for keys.                                           *)

PollAction == MenuKey \/ AboutKey \/ CountdownKey \/ AppKey \/ CrashKey \/ DropKeys \/ StandbyKey

\* Each of them polls once; it stays in its image or goes where nobody polls.
LEMMA PollPlace ==
  ASSUME Types, PollAction
  PROVE  /\ KeyPoll /\ InPoll
         /\ saver_min' \in BOOLEAN
         /\ place' \in PollPlaces \union BusyPlaces \union {"crashOver", "end"}
         /\ busy' \in 0..(Blink + Settle + MaxLoad)
         /\ Image' = Image /\ Reader' = Reader
<1>0. busy \in 0..(Blink + Settle + MaxLoad) /\ saver_min \in BOOLEAN
  BY DEF Types, PlaceTypes, FlagTypes
<1>1. /\ 0 \in 0..(Blink + Settle + MaxLoad) /\ Blink \in 0..(Blink + Settle + MaxLoad)
      /\ Settle \in 0..(Blink + Settle + MaxLoad)
      /\ 1..MaxLoad \subseteq 0..(Blink + Settle + MaxLoad)
  BY KeysAssumption
<1>2. KeyPoll
  BY DEF PollAction, MenuKey, AboutKey, CountdownKey, AppKey, CrashKey, DropKeys, StandbyKey
<1>3. sys' = sys
  BY <1>2, PollFacts
<1>4. CASE MenuKey
  BY <1>0, <1>1, <1>2, <1>3, <1>4
     DEF MenuKey, Launch, Enter, Stay, InPoll, PollPlaces, BusyPlaces, Image, Reader
<1>5. CASE AboutKey
  BY <1>0, <1>1, <1>2, <1>3, <1>5
     DEF AboutKey, Enter, Stay, InPoll, PollPlaces, Image, Reader
<1>6. CASE CountdownKey
  BY <1>0, <1>1, <1>2, <1>3, <1>6
     DEF CountdownKey, Enter, Stay, InPoll, PollPlaces, Image, Reader
<1>7. CASE AppKey
  BY <1>0, <1>1, <1>2, <1>3, <1>7
     DEF AppKey, Enter, Stay, InPoll, PollPlaces, Image, Reader
<1>8. CASE CrashKey
  BY <1>0, <1>1, <1>2, <1>3, <1>8
     DEF CrashKey, Enter, Stay, InPoll, PollPlaces, Image, Reader
<1>9. CASE DropKeys
  <2>1. (place' = place /\ busy' = busy) \/ (place' = After(place) /\ busy' \in {0, Settle})
    BY <1>9 DEF DropKeys, Stay
  <2>2. place \in DropPlaces /\ UNCHANGED saver_min
    BY <1>9 DEF DropKeys
  <2>3. After(place) \in {"menu", "crash", "settle"}
    BY <2>2 DEF After, DropPlaces
  <2> QED
    BY <1>0, <1>1, <1>2, <1>3, <2>1, <2>2, <2>3
       DEF InPoll, PollPlaces, DropPlaces, BusyPlaces, Image, Reader
<1>10. CASE StandbyKey
  BY <1>0, <1>1, <1>2, <1>3, <1>10
     DEF StandbyKey, Enter, Stay, InPoll, PollPlaces, Image, Reader
<1> QED
  BY <1>4, <1>5, <1>6, <1>7, <1>8, <1>9, <1>10 DEF PollAction

Base == Types /\ RemoteInv /\ IrSound /\ FreshInv

LEMMA PollBase ==
  ASSUME Base, PollAction
  PROVE  Base'
<1>1. Types /\ RemoteInv /\ IrSound /\ FreshInv /\ KeyPoll /\ InPoll
  BY PollPlace DEF Base
<1>2. Types'
  <2>1. PlaceTypes' /\ FlagTypes'
    BY <1>1, PollPlace, PollTypes DEF PlaceTypes, FlagTypes
  <2> QED
    BY <1>1, <2>1, PollTypes DEF Types
<1>3. RemoteInv'
  BY <1>1, PollFacts, ButtonNames DEF RemoteInv, None
<1>4. IrSound'
  BY <1>1, PollIrSound
<1>5. FreshInv'
  <2>1. PICK r \in Images : r = Reader
    BY <1>1, ImageNames DEF Types
  <2>2. Reader' = r
    BY <1>1, <2>1, PollPlace
  <2>3. fresh' <= 1 /\ (fresh' = 1 => Steady(r)')
    <3>1. fresh \in {0, 1}
      BY <1>1 DEF FreshInv, Types, PlaceTypes
    <3>2. CASE fresh = 1
      <4>1. Steady(r)' /\ (IrEvent(r) # NoEvent => IrEvent(r).repeat)
        BY <1>1, <2>1, <3>2, SteadyPoll DEF FreshInv
      <4>2. fresh' = fresh
        BY <1>1, <2>1, <4>1, PollCounts
      <4> QED
        BY <3>2, <4>1, <4>2
    <3>3. CASE fresh = 0 /\ IrEvent(r) # NoEvent /\ ~IrEvent(r).repeat
      <4>1. Steady(r)'
        BY <1>1, <2>1, <3>3, NewKey
      <4>2. fresh' = 1
        BY <1>1, <2>1, <3>3, PollCounts
      <4> QED
        BY <4>1, <4>2
    <3>4. CASE fresh = 0 /\ ~(IrEvent(r) # NoEvent /\ ~IrEvent(r).repeat)
      <4>1. fresh' = fresh
        BY <1>1, <2>1, <3>4, PollCounts
      <4> QED
        BY <3>4, <4>1
    <3> QED
      BY <3>1, <3>2, <3>3, <3>4
  <2> QED
    BY <2>2, <2>3 DEF FreshInv, Steady
<1> QED
  BY <1>2, <1>3, <1>4, <1>5 DEF Base

----------------------------------------------------------------------------
(* The remote and time.                                                    *)

LEMMA PressBase ==
  ASSUME Base, NEW b \in Buttons, Press(b)
  PROVE  Base'
<1>1. Types'
  <2>1. RemoteTypes'
    <3>1. held' \in Buttons /\ nframe' = 1 /\ lost' = 0 /\ stat' \in Buttons /\ rep' = FALSE
      BY DEF Press
    <3>2. held' \in Buttons \union {None} /\ stat' \in Buttons \union {None, "bad"}
      BY <3>1
    <3>3. nframe' \in 0..2 /\ lost' \in 0..1
      BY <3>1
    <3>4. rep' \in BOOLEAN
      BY <3>1
    <3> QED
      BY <3>2, <3>3, <3>4 DEF RemoteTypes
  <2>2. FlagTypes' /\ PlaceTypes'
    BY DEF Press, Base, Types, FlagTypes, PlaceTypes, runtimeVars, None
  <2>3. IrTypes' /\ PressTypes' /\ SavTypes'
    BY DEF Press, Base, Types, IrTypes, PressTypes, SavTypes, runtimeVars
  <2> QED
    BY <2>1, <2>2, <2>3 DEF Types
<1>2. RemoteInv'
  BY ButtonNames DEF Press, RemoteInv, None
<1>3. IrSound'
  BY DEF Press, Base, IrSound, runtimeVars
<1>4. FreshInv'
  BY DEF Press, FreshInv
<1> QED
  BY <1>1, <1>2, <1>3, <1>4 DEF Base

LEMMA ReleaseBase ==
  ASSUME Base, Release
  PROVE  Base'
<1> USE DEF runtimeVars, pressVars
<1>1. Types'
  <2>1. RemoteTypes'
    BY DEF Release, Base, Types, RemoteTypes
  <2>2. FlagTypes' /\ PlaceTypes'
    BY DEF Release, Base, Types, FlagTypes, PlaceTypes
  <2>3. IrTypes' /\ PressTypes' /\ SavTypes'
    BY DEF Release, Base, Types, IrTypes, PressTypes, SavTypes
  <2> QED
    BY <2>1, <2>2, <2>3 DEF Types
<1>2. RemoteInv'
  BY DEF Release, RemoteInv
<1>3. IrSound'
  BY DEF Release, Base, IrSound
<1>4. FreshInv'
  BY DEF Release, Base, FreshInv, InPoll, Steady, Reader, Image
<1> QED
  BY <1>1, <1>2, <1>3, <1>4 DEF Base

\* The frames of a period.
LEMMA RemoteTickCases ==
  ASSUME RemoteTypes, RemoteInv, RemoteTick
  PROVE  /\ RemoteTypes' /\ RemoteInv' /\ held' = held
         /\ \/ held = None /\ UNCHANGED <<stat, rep, lost>>
            \/ /\ held # None /\ nframe = 1 /\ nframe' = 2 /\ stat' = stat /\ lost' = 0 /\ rep' = TRUE
            \/ /\ held # None /\ nframe' = 2 /\ stat' = held /\ lost' = 0
            \/ /\ held # None /\ nframe' = 2 /\ stat' \in {stat, "bad"} /\ lost = 0 /\ lost' = 1 /\ rep' = rep
<1> USE DEF RemoteTypes, RemoteInv
<1>1. CASE held = None /\ UNCHANGED remoteVars
  BY <1>1 DEF remoteVars
<1>2. CASE /\ held # None /\ nframe = 1 /\ nframe' = 2
           /\ \/ rep' = TRUE /\ lost' = 0
              \/ rep' = rep /\ lost = 0 /\ lost' = 1
           /\ UNCHANGED <<held, stat>>
  <2>1. RemoteTypes'
    <3>1. held' \in Buttons \union {None} /\ stat' \in Buttons \union {None, "bad"}
      BY <1>2
    <3>2. nframe' \in 0..2 /\ lost' \in 0..1
      BY <1>2
    <3>3. rep' \in BOOLEAN
      BY <1>2
    <3> QED
      BY <3>1, <3>2, <3>3 DEF RemoteTypes
  <2>2. RemoteInv'
    BY <1>2
  <2>3. (rep' = TRUE /\ lost' = 0) \/ (rep' = rep /\ lost = 0 /\ lost' = 1)
    BY <1>2
  <2> QED
    BY <1>2, <2>1, <2>2, <2>3
<1>3. CASE held # None /\ nframe = 2 /\ Received(held) /\ UNCHANGED <<held, nframe>>
  <2>1. /\ held' = held /\ nframe' = 2
        /\ \/ stat' = held /\ rep' = FALSE /\ lost' = 0
           \/ lost = 0 /\ lost' = 1 /\ rep' = rep /\ stat' \in {stat, "bad"}
    BY <1>3 DEF Received
  <2>2. held \in Buttons
    BY <1>3
  <2>3. RemoteTypes'
    <3>1. held' \in Buttons \union {None} /\ stat' \in Buttons \union {None, "bad"}
      BY <2>1, <2>2
    <3>2. nframe' \in 0..2 /\ lost' \in 0..1
      BY <2>1, <2>2
    <3>3. rep' \in BOOLEAN
      BY <2>1, <2>2
    <3> QED
      BY <3>1, <3>2, <3>3 DEF RemoteTypes
  <2>4. RemoteInv'
    BY <2>1, <2>2, ButtonNames
  <2> QED
    BY <1>3, <2>1, <2>3, <2>4
<1> QED
  BY <1>1, <1>2, <1>3 DEF RemoteTick

\* A reader's record after a period without a poll.
LEMMA AgedRecord ==
  ASSUME Types, IrSound, Tick, NEW i \in Images
  PROVE  /\ ir'[i] \in IrRec /\ ir'[i].init = ir[i].init /\ ir'[i].rep = ir[i].rep
         /\ ir'[i].last # None =>
              ir'[i].last = ir[i].last /\ ir'[i].age = ir[i].age + 1 /\ ir'[i].age < Hold
         /\ ir[i].age + 1 < Hold => ir'[i].last = ir[i].last /\ ir'[i].age = ir[i].age + 1
<1>0. ir[i] \in IrRec
  BY DEF Types, IrTypes
<1>1. ir'[i] = IrAged(ir[i])
  BY DEF Tick
<1>2. Hold \in Nat /\ ir[i].age \in Nat
  BY <1>0, KeysAssumption DEF IrRec
<1>3. CASE ir[i].age + 1 < Hold
  <2>1. ir'[i] = [ir[i] EXCEPT !.age = ir[i].age + 1]
    BY <1>1, <1>3 DEF IrAged
  <2>2. ir[i].age + 1 \in 0..Hold
    BY <1>2, <1>3
  <2> QED
    BY <1>0, <1>2, <1>3, <2>1, <2>2 DEF IrRec
<1>4. CASE ~(ir[i].age + 1 < Hold)
  <2>1. ir'[i] = [ir[i] EXCEPT !.age = Hold, !.last = None]
    BY <1>1, <1>4 DEF IrAged
  <2>2. ir'[i] = [init |-> ir[i].init, last |-> None, age |-> Hold, rep |-> ir[i].rep]
    BY <1>0, <2>1 DEF IrRec
  <2>3. Hold \in 0..Hold /\ ir[i].init \in BOOLEAN /\ ir[i].rep \in BOOLEAN
    BY <1>0, <1>2 DEF IrRec
  <2>4. ir'[i] \in IrRec
    BY <2>2, <2>3 DEF IrRec
  <2> QED
    BY <1>4, <2>2, <2>4
<1> QED
  BY <1>3, <1>4

LEMMA AgedSaver ==
  ASSUME Types, Tick, NEW i \in Images
  PROVE  /\ sav'[i] \in SavRec /\ sav'[i].on = sav[i].on /\ sav'[i].eat = sav[i].eat
         /\ sav'[i].age = IF sav[i].age = -1 THEN -1 ELSE Aged(sav[i].age, SaverTime)
<1> DEFINE a == IF sav[i].age = -1 THEN -1 ELSE Aged(sav[i].age, SaverTime)
<1>1. sav[i] \in SavRec
  BY DEF Types, SavTypes
<1>2. sav'[i] = [sav[i] EXCEPT !.age = a]
  BY DEF Tick
<1>3. a \in -1..SaverTime
  BY <1>1, KeysAssumption DEF SavRec, Aged
<1> HIDE DEF a
<1>4. sav'[i] \in SavRec /\ sav'[i].on = sav[i].on /\ sav'[i].eat = sav[i].eat /\ sav'[i].age = a
  BY <1>1, <1>2, <1>3 DEF SavRec
<1> QED
  BY <1>4 DEF a

LEMMA TickTypes ==
  ASSUME Base, Tick
  PROVE  Types'
<1>1. RemoteTypes'
  BY RemoteTickCases DEF Tick, Base, Types
<1>2. FlagTypes' /\ PlaceTypes'
  <2>1. FlagTypes'
    BY DEF Tick, Base, Types, FlagTypes
  <2>2. PlaceTypes'
    BY KeysAssumption DEF Tick, Base, Types, PlaceTypes, Aged
  <2> QED
    BY <2>1, <2>2
<1>3. IrTypes'
  <2>1. ir' = [i \in Images |-> IrAged(ir[i])]
    BY DEF Tick
  <2>2. \A i \in Images : ir'[i] \in IrRec
    BY AgedRecord DEF Base
  <2> QED
    BY <2>1, <2>2 DEF IrTypes
<1>4. PressTypes'
  <2>1. \A i \in Images : Aged(press[i], Delay) \in 0..Delay
    BY KeysAssumption DEF Base, Types, PressTypes, Aged
  <2> QED
    BY <2>1 DEF Tick, PressTypes
<1>5. SavTypes'
  <2>1. \A i \in Images : sav'[i] \in SavRec
    BY AgedSaver DEF Base
  <2>2. sav' = [i \in Images |-> sav'[i]]
    BY DEF Tick
  <2> QED
    BY <2>1, <2>2 DEF SavTypes
<1> QED
  BY <1>1, <1>2, <1>3, <1>4, <1>5 DEF Types

\* A press that is followed and polled stays followed over a period.
LEMMA SteadyTick ==
  ASSUME Types, RemoteInv, IrSound, Tick, polled, NEW r \in Images, Steady(r)
  PROVE  Steady(r)'
<1>1. ir[r] \in IrRec /\ RemoteTypes /\ RemoteInv /\ RemoteTick /\ ~polled'
  BY DEF Types, IrTypes, Tick
<1>2. ir[r].init /\ stat = None /\ ir[r].rep = rep
  BY DEF Steady
<1>3. /\ ir'[r].init = ir[r].init /\ ir'[r].rep = ir[r].rep
      /\ ir[r].age + 1 < Hold => ir'[r].last = ir[r].last /\ ir'[r].age = ir[r].age + 1
  BY AgedRecord
<1>4. CASE held = None
  BY <1>1, <1>2, <1>3, <1>4, RemoteTickCases, ButtonNames DEF Steady
<1>5. CASE held # None
  <2>1. ir[r].last = held /\ ir[r].age <= lost /\ ir[r].age \in Nat /\ lost \in {0, 1}
    BY <1>1, <1>5, KeysAssumption DEF Steady, IrRec, RemoteTypes
  <2>2. ir'[r].last = held /\ ir'[r].age = ir[r].age + 1 /\ ir'[r].age < Hold
    BY <1>3, <2>1, KeysAssumption
  <2>3. held' = held
    BY <1>1, RemoteTickCases
  <2>4. CASE nframe = 1 /\ nframe' = 2 /\ stat' = stat /\ lost' = 0 /\ rep' = TRUE
    <3>1. ~ir'[r].rep /\ stat' = None /\ ir'[r].age <= 2
      BY <1>1, <1>2, <1>3, <2>1, <2>2, <2>4 DEF RemoteInv
    <3> QED
      BY <1>1, <1>2, <1>3, <2>2, <2>3, <2>4, <3>1, ButtonNames DEF Steady
  <2>5. CASE stat' = held /\ lost' = 0
    <3>1. ir'[r].age <= 2
      BY <2>1, <2>2
    <3> QED
      BY <1>1, <1>2, <1>3, <2>2, <2>3, <2>5, <3>1 DEF Steady
  <2>6. CASE stat' \in {stat, "bad"} /\ lost = 0 /\ lost' = 1
    <3>1. ir'[r].age <= 1 /\ stat' \notin Buttons
      BY <1>2, <2>1, <2>2, <2>6, ButtonNames
    <3> QED
      BY <1>1, <1>2, <1>3, <2>2, <2>3, <2>6, <3>1 DEF Steady
  <2> QED
    BY <1>1, <1>5, <2>4, <2>5, <2>6, RemoteTickCases
<1> QED
  BY <1>4, <1>5

LEMMA TickBase ==
  ASSUME Base, Tick
  PROVE  Base'
<1>1. Types'
  BY TickTypes
<1>2. RemoteInv'
  BY RemoteTickCases DEF Base, Types, Tick
<1>3. IrSound'
  BY AgedRecord DEF Base, IrSound
<1>4. FreshInv'
  <2>1. PICK r \in Images : r = Reader
    BY ImageNames DEF Base, Types
  <2>2. Reader' = r /\ InPoll' = InPoll /\ fresh' = fresh
    BY <2>1 DEF Tick, Reader, Image, InPoll
  <2>3. InPoll /\ fresh = 1 => Steady(r)'
    <3>1. InPoll => polled
      BY DEF Tick, InPoll
    <3> QED
      BY <2>1, <3>1, SteadyTick DEF Base, FreshInv
  <2> QED
    BY <2>2, <2>3 DEF FreshInv, Steady, Base
<1> QED
  BY <1>1, <1>2, <1>3, <1>4 DEF Base

----------------------------------------------------------------------------
(* Launch, return and crash.                                               *)

\* The app's copy of the runtime starts with zeroed memory.
LEMMA Zeroed == IrZero \in IrRec /\ IrZero.last = None /\ SavZero \in SavRec /\ SavZero.on = FALSE /\ SavZero.age = -1
  BY KeysAssumption DEF IrZero, IrRec, SavZero, SavRec

LEMMA ForgetTypes ==
  ASSUME Types, IrSound, ForgetApp
  PROVE  /\ IrTypes' /\ PressTypes' /\ IrSound'
         /\ woke' \in Images \union {None, "leaked"}
         /\ ir'["launcher"] = ir["launcher"] /\ ir'["app"] = IrZero
<1>1. ir' = [ir EXCEPT !["app"] = IrZero] /\ ir \in [Images -> IrRec]
  BY DEF ForgetApp, Types, IrTypes
<1>2. IrTypes'
  BY <1>1, Zeroed DEF IrTypes
<1>3. ir'["launcher"] = ir["launcher"] /\ ir'["app"] = IrZero
  BY <1>1 DEF Images
<1>4. PressTypes'
  <2>1. Delay \in 0..Delay /\ press \in [Images -> 0..Delay]
    BY KeysAssumption DEF Types, PressTypes
  <2> QED
    BY <2>1 DEF ForgetApp, PressTypes
<1>5. IrSound'
  BY <1>3, Zeroed DEF IrSound, Images
<1>6. woke' \in Images \union {None, "leaked"}
  BY DEF ForgetApp, Types, PlaceTypes
<1> QED
  BY <1>2, <1>3, <1>4, <1>5, <1>6

LEMMA AppStartBase ==
  ASSUME Base, AppStart
  PROVE  Base'
<1> USE DEF AppStart, remoteVars
<1>1. Types /\ IrSound /\ ForgetApp
  BY DEF Base
<1>2. Types'
  <2>1. RemoteTypes' /\ FlagTypes'
    BY <1>1 DEF Types, RemoteTypes, FlagTypes
  <2>2. PlaceTypes'
    BY <1>1, ForgetTypes DEF Types, PlaceTypes, PollPlaces
  <2>3. SavTypes'
    BY <1>1, Zeroed DEF Types, SavTypes
  <2> QED
    BY <1>1, <2>1, <2>2, <2>3, ForgetTypes DEF Types
<1>3. RemoteInv'
  BY DEF Base, RemoteInv
<1>4. FreshInv'
  BY DEF FreshInv
<1> QED
  BY <1>1, <1>2, <1>3, <1>4, ForgetTypes DEF Base

LEMMA KickedRecord ==
  ASSUME Types
  PROVE  /\ Kicked \in SavRec /\ Kicked.on = FALSE /\ Kicked.age = 0
         /\ Kicked.eat = sav["launcher"].eat
<1>1. sav["launcher"] \in SavRec /\ 0 \in -1..SaverTime
  BY KeysAssumption DEF Types, SavTypes, Images
<1> QED
  BY <1>1 DEF Kicked, SavRec

LEMMA BackBase ==
  ASSUME Base, Back, place \in {"load", "app", "crashOver"}
  PROVE  Base'
<1>1. Types /\ IrSound /\ ForgetApp
  BY DEF Back, Base
<1>2. Types'
  <2>1. RemoteTypes' /\ FlagTypes'
    BY <1>1 DEF Back, remoteVars, Types, RemoteTypes, FlagTypes
  <2>2. place' \in {"menu", "menuDrop"} /\ busy' = 0 /\ fresh' \in {fresh, 0} /\ idle' = idle
    BY DEF Back
  <2>3. PlaceTypes'
    <3>1. 0 \in 0..(Blink + Settle + MaxLoad) /\ 0 \in 0..2
      BY KeysAssumption
    <3> QED
      BY <1>1, <2>2, <3>1, ForgetTypes DEF Types, PlaceTypes, PollPlaces, DropPlaces
  <2>4. SavTypes'
    BY <1>1, Zeroed, KickedRecord DEF Back, SavTypes, Images
  <2> QED
    BY <1>1, <2>1, <2>3, <2>4, ForgetTypes DEF Types
<1>3. RemoteInv'
  BY DEF Back, remoteVars, Base, RemoteInv
<1>4. FreshInv'
  <2>1. fresh <= 1
    BY DEF Base, FreshInv
  <2>2. CASE ~(sys /\ place = "app")
    BY <2>2 DEF Back, FreshInv
  <2>3. CASE sys /\ place = "app"
    <3>1. Reader = "launcher" /\ Reader' = "launcher" /\ InPoll
      BY <2>3 DEF Back, Reader, InPoll, PollPlaces
    <3>2. fresh' = fresh /\ ir'["launcher"] = ir["launcher"]
      BY <1>1, <2>3, ForgetTypes DEF Back
    <3>3. fresh = 1 => Steady("launcher")
      BY <3>1 DEF Base, FreshInv
    <3>4. fresh = 1 => Steady("launcher")'
      BY <3>2, <3>3 DEF Steady, Back, remoteVars
    <3> QED
      BY <2>1, <3>1, <3>2, <3>4 DEF FreshInv, Steady
  <2> QED
    BY <2>2, <2>3
<1> QED
  BY <1>1, <1>2, <1>3, <1>4, ForgetTypes DEF Base

LEMMA CrashBase ==
  ASSUME Base, AppCrash
  PROVE  Base'
<1>1. Types /\ IrSound /\ ForgetApp
  BY DEF AppCrash, Base
<1>2. Types'
  <2>1. RemoteTypes' /\ FlagTypes'
    BY <1>1 DEF AppCrash, remoteVars, Types, RemoteTypes, FlagTypes
  <2>2. place' = "crashDrop" /\ busy' = 0 /\ fresh' \in {fresh, 0} /\ idle' = idle
    BY DEF AppCrash
  <2>3. PlaceTypes'
    <3>1. 0 \in 0..(Blink + Settle + MaxLoad) /\ 0 \in 0..2
      BY KeysAssumption
    <3> QED
      BY <1>1, <2>2, <3>1, ForgetTypes DEF Types, PlaceTypes, PollPlaces, DropPlaces
  <2>4. SavTypes'
    BY <1>1, Zeroed DEF AppCrash, Types, SavTypes
  <2> QED
    BY <1>1, <2>1, <2>3, <2>4, ForgetTypes DEF Types
<1>3. RemoteInv'
  BY DEF AppCrash, remoteVars, Base, RemoteInv
<1>4. FreshInv'
  <2>1. fresh <= 1
    BY DEF Base, FreshInv
  <2>2. CASE ~sys
    BY <2>2 DEF AppCrash, FreshInv
  <2>3. CASE sys
    <3>1. Reader = "launcher" /\ Reader' = "launcher" /\ InPoll
      BY <2>3 DEF AppCrash, Reader, InPoll, PollPlaces
    <3>2. fresh' = fresh /\ ir'["launcher"] = ir["launcher"]
      BY <1>1, <2>3, ForgetTypes DEF AppCrash
    <3>3. fresh = 1 => Steady("launcher")
      BY <3>1 DEF Base, FreshInv
    <3>4. fresh = 1 => Steady("launcher")'
      BY <3>2, <3>3 DEF Steady, AppCrash, remoteVars
    <3> QED
      BY <2>1, <3>1, <3>2, <3>4 DEF FreshInv, Steady
  <2> QED
    BY <2>2, <2>3
<1> QED
  BY <1>1, <1>2, <1>3, <1>4, ForgetTypes DEF Base

LEMMA NotOurLayerBase ==
  ASSUME Base, NotOurLayer
  PROVE  Base'
<1> USE DEF NotOurLayer, remoteVars, pressVars
<1>1. sav' = [sav EXCEPT !["app"] = [sav["app"] EXCEPT !.age = 0]]
  OBVIOUS
<1>2. SavTypes'
  <2>1. sav \in [Images -> SavRec] /\ sav["app"] \in SavRec /\ 0 \in -1..SaverTime
    BY KeysAssumption DEF Base, Types, SavTypes, Images
  <2>2. [sav["app"] EXCEPT !.age = 0] \in SavRec
    BY <2>1 DEF SavRec
  <2> QED
    BY <1>1, <2>1, <2>2 DEF SavTypes
<1>3. Types'
  BY <1>2 DEF Base, Types, RemoteTypes, FlagTypes, PlaceTypes, IrTypes, PressTypes
<1>4. RemoteInv' /\ IrSound'
  BY DEF Base, RemoteInv, IrSound
<1>5. FreshInv'
  BY DEF Base, FreshInv, InPoll, Steady, Reader, Image
<1> QED
  BY <1>3, <1>4, <1>5 DEF Base

\* The launcher's steps that only move on: a countdown over, standby, the end.
Moves == CountdownOver \/ StandbyGoesOn \/ StandbyButton

LEMMA MovesFacts ==
  ASSUME Types, Moves
  PROVE  /\ UNCHANGED <<remoteVars, runtimeVars, saver_min, sys, polled, woke, idle>>
         /\ \/ fresh' = fresh /\ place' \in {"load", "end"}
            \/ fresh' = 0 /\ place' \in {"standbyDrop", "standby"}
         /\ auto' \in BOOLEAN /\ busy' \in 0..(Blink + Settle + MaxLoad)
<1>1. CASE CountdownOver
  <2>1. 1..MaxLoad \subseteq 0..(Blink + Settle + MaxLoad)
    BY KeysAssumption
  <2> QED
    BY <1>1, <2>1 DEF CountdownOver, Launch, pressVars
<1>2. CASE StandbyGoesOn
  BY <1>2 DEF StandbyGoesOn, Types, FlagTypes, PlaceTypes
<1>3. CASE StandbyButton
  BY <1>3, KeysAssumption DEF StandbyButton, Enter, Types, FlagTypes
<1> QED
  BY <1>1, <1>2, <1>3 DEF Moves

LEMMA MovesBase ==
  ASSUME Base, Moves
  PROVE  Base'
<1>1. Types
  BY DEF Base
<1> USE DEF remoteVars, runtimeVars
<1>2. RemoteTypes' /\ IrTypes' /\ PressTypes' /\ SavTypes'
  BY <1>1, MovesFacts DEF Types, RemoteTypes, IrTypes, PressTypes, SavTypes
<1>3. FlagTypes'
  BY <1>1, MovesFacts DEF Types, FlagTypes
<1>4. PlaceTypes'
  BY <1>1, MovesFacts DEF Types, PlaceTypes, PollPlaces, DropPlaces, BusyPlaces
<1>5. RemoteInv' /\ IrSound'
  BY <1>1, MovesFacts DEF Base, RemoteInv, IrSound
<1>6. FreshInv'
  BY <1>1, MovesFacts DEF Base, FreshInv, InPoll, PollPlaces, DropPlaces
<1> QED
  BY <1>2, <1>3, <1>4, <1>5, <1>6 DEF Base, Types

LEMMA IdleBase ==
  ASSUME Base, UNCHANGED vars
  PROVE  Base'
<1> USE DEF vars, remoteVars, runtimeVars, pressVars
<1>1. Types'
  BY DEF Base, Types, RemoteTypes, FlagTypes, PlaceTypes, IrTypes, PressTypes, SavTypes
<1>2. RemoteInv' /\ IrSound' /\ FreshInv'
  BY DEF Base, RemoteInv, IrSound, FreshInv, InPoll, Steady, Reader, Image
<1> QED
  BY <1>1, <1>2 DEF Base

\* The steps, grouped as they are treated.
LEMMA NextCases ==
  ASSUME [Next]_vars
  PROVE  \/ PollAction \/ Moves \/ Release \/ Tick \/ AppStart \/ AppCrash \/ NotOurLayer
         \/ (Back /\ place \in {"load", "app", "crashOver"})
         \/ (\E b \in Buttons : Press(b)) \/ UNCHANGED vars
  BY DEF Next, Launcher, PollAction, Moves, LoadFails, AppEnds, CrashOver

LEMMA BaseInit == Init => Base
<1> SUFFICES ASSUME Init PROVE Base
  OBVIOUS
<1>1. RemoteTypes /\ FlagTypes
  <2>1. held = None /\ nframe = 0 /\ lost = 0 /\ stat = None /\ rep = FALSE
    BY DEF Init
  <2>2. FlagTypes
    BY DEF Init, FlagTypes
  <2>3. held \in Buttons \union {None} /\ stat \in Buttons \union {None, "bad"}
    BY <2>1
  <2>4. nframe \in 0..2 /\ lost \in 0..1
    BY <2>1
  <2>5. rep \in BOOLEAN
    BY <2>1
  <2> QED
    BY <2>2, <2>3, <2>4, <2>5 DEF RemoteTypes
<1>2. PlaceTypes
  BY KeysAssumption DEF Init, PlaceTypes, PollPlaces
<1>3. IrTypes /\ PressTypes /\ SavTypes
  BY Zeroed, KeysAssumption DEF Init, IrTypes, PressTypes, SavTypes
<1>4. RemoteInv /\ FreshInv
  BY DEF Init, RemoteInv, FreshInv
<1>5. IrSound
  BY Zeroed DEF Init, IrSound
<1> QED
  BY <1>1, <1>2, <1>3, <1>4, <1>5 DEF Base, Types

LEMMA BaseNext ==
  ASSUME Base, [Next]_vars
  PROVE  Base'
  BY NextCases, PollBase, MovesBase, ReleaseBase, TickBase, AppStartBase, CrashBase,
     NotOurLayerBase, BackBase, PressBase, IdleBase

LEMMA BaseAlways == Spec => []Base
  BY BaseInit, BaseNext, PTL DEF Spec

\* Every variable keeps its type through ir_poll, the saver and the loops of
\* the launcher; ages and counts stay within their bounds.
THEOREM TypeCorrect == Spec => []TypeOK
<1>1. Base => TypeOK
  BY TypeParts DEF Base
<1> QED
  BY <1>1, BaseAlways, PTL

\* A press gives one new key however long the button is held and whichever
\* frames are lost: all that ir_poll makes of it later is a repeat, also when
\* the app that read it ends or crashes and the launcher reads on.
THEOREM OnePressOneKey == Spec => []ActsOnce
<1>1. Base => ActsOnce
  BY DEF Base, FreshInv, ActsOnce
<1> QED
  BY <1>1, BaseAlways, PTL

----------------------------------------------------------------------------
(* The key that wakes a screen, and the screen that goes black.            *)

\* The countdown of the autostart is shorter than the saver's minutes.
ShortCountdown == MaxLoad <= SaverTime

StandbyPlaces == {"blink", "standbyDrop", "settle", "standby"}

\* The press that woke a screen is swallowed for as long as it lasts.
WakeInv ==
  /\ woke # "leaked"
  /\ woke = "app" => place = "app"
  /\ woke = "launcher" => place \in {"menu", "about", "menuDrop", "crash", "crashDrop", "end"}
  /\ woke = Image => sav[Image].eat
  /\ InPoll /\ woke = Image => Steady(Reader)

\* Reader r may take a repeat code of the press for one of an earlier press.
Unsure(r) == held # None /\ stat = None /\ (nframe = 1 \/ (rep /\ ~ir[r].rep))

\* The screen of image i is on and stays on while r remembers its last key.
Awake(r, i) == ~sav[i].on /\ sav[i].age <= ir[r].age

\* Such a repeat code wakes no screen.
SureInv ==
  /\ InPoll /\ place \notin StandbyPlaces /\ Unsure(Reader) =>
       ir[Reader].last \in {None, held} \/ Awake(Reader, Image)
  /\ sys /\ Unsure("launcher") => ir["launcher"].last \in {None, held}
  /\ place \in {"load", "app"} /\ ~sys => ir["launcher"].last = None \/ Awake("launcher", "launcher")

\* In the countdown the saver has just begun to count.
CountInv ==
  place = "countdown" =>
    /\ ir["launcher"].last = None /\ ~sav["launcher"].on
    /\ busy <= MaxLoad /\ sav["launcher"].age + busy <= MaxLoad

\* The layer is off when the saver of the running image is on, and that after
\* SaverTime without a key; the launcher's saver is off while it does not poll.
LayerInv ==
  /\ layer = ~sav[Image].on
  /\ place \in {"load", "app"} \union StandbyPlaces => ~sav["launcher"].on
  /\ place \in StandbyPlaces => ~saver_min
  /\ place \notin {"crashDrop", "crash", "crashOver", "end"} =>
       sav[Image].age <= idle /\ (sav[Image].on => idle = SaverTime)

Wake == WakeInv /\ SureInv /\ CountInv /\ LayerInv

\* What sdk_key_poll returns.
LEMMA KeyCases ==
  ASSUME Types
  PROVE  /\ Key \in Events
         /\ Key.btn = None <=> Key = NoEvent
         /\ Key # NoEvent => Key = Read(Reader) /\ Read(Reader) # NoEvent /\ ~Swallowed(Image, Read(Reader))
         /\ Swallowed(Image, Read(Reader)) => Key = NoEvent
<1>1. Reader \in Images /\ Image \in Images
  BY ImageNames DEF Types
<1>2. NoEvent \in Events /\ NoEvent.btn = None
  BY DEF NoEvent, Events
<1>3. Key = IF Swallowed(Image, Read(Reader)) THEN NoEvent ELSE Read(Reader)
  BY DEF Key
<1>4. Read(Reader) \in Events /\ (Read(Reader).btn = None <=> Read(Reader) = NoEvent)
  BY <1>1, ReadIsEvent
<1> QED
  BY <1>2, <1>3, <1>4

\* Where the loops go, and that they go nowhere without a key.
LEMMA PollMoves ==
  ASSUME Types, PollAction
  PROVE  /\ Key = NoEvent =>
              \/ place' = place
              \/ place = "menuDrop" /\ place' = "menu"
              \/ place = "crashDrop" /\ place' = "crash"
              \/ place = "standbyDrop" /\ place' = "settle"
         /\ Key # NoEvent =>
              \/ place' = place
              \/ place = "menu" /\ ~Key.repeat /\ place' \in {"load", "about", "end"}
              \/ place = "menu" /\ ~Key.repeat /\ place' = "blink" /\ ~saver_min'
              \/ place \in {"countdown", "about"} /\ place' = "menu"
              \/ place = "crash" /\ place' \in {"crashOver", "end"}
              \/ place = "standby" /\ place' = "end"
         /\ place' = "countdown" => Key = NoEvent /\ busy' = busy /\ busy > 0
         /\ place \in StandbyPlaces => saver_min' = saver_min
<1>1. Key \in Events /\ (Key.btn = None <=> Key = NoEvent)
  BY KeyCases
<1>2. None \notin {"OK", "BACK", "MENU", "POWER"}
  BY DEF None
<1>3. CASE MenuKey
  BY <1>1, <1>2, <1>3 DEF MenuKey, Launch, Enter, Stay, StandbyPlaces
<1>4. CASE AboutKey
  BY <1>1, <1>2, <1>4 DEF AboutKey, Enter, Stay, StandbyPlaces
<1>5. CASE CountdownKey
  BY <1>1, <1>2, <1>5 DEF CountdownKey, Enter, Stay, StandbyPlaces
<1>6. CASE AppKey
  BY <1>1, <1>2, <1>6 DEF AppKey, Enter, Stay, StandbyPlaces
<1>7. CASE CrashKey
  BY <1>1, <1>2, <1>7 DEF CrashKey, Enter, Stay, StandbyPlaces
<1>8. CASE DropKeys
  <2>1. place \in DropPlaces /\ UNCHANGED saver_min
    BY <1>8 DEF DropKeys
  <2>2. IF Key # NoEvent THEN place' = place ELSE place' = After(place)
    BY <1>8 DEF DropKeys, Stay
  <2> QED
    BY <2>1, <2>2 DEF After, DropPlaces, StandbyPlaces
<1>9. CASE StandbyKey
  BY <1>1, <1>2, <1>9 DEF StandbyKey, Enter, Stay, StandbyPlaces
<1> QED
  BY <1>3, <1>4, <1>5, <1>6, <1>7, <1>8, <1>9 DEF PollAction

\* The saver of the running image after a poll.
LEMMA PollSaver ==
  ASSUME Types, KeyPoll, NEW r \in Images, r = Reader, NEW i \in Images, i = Image
  PROVE  /\ sav'[i] \in SavRec
         /\ Read(r) = NoEvent =>
              /\ sav'[i].eat = sav[i].eat /\ idle' = idle
              /\ sav'[i].on <=> sav[i].on \/ SaverDue(i)
              /\ sav'[i].age = IF saver_min /\ ~sav[i].on /\ sav[i].age = -1 THEN 0 ELSE sav[i].age
         /\ Read(r) # NoEvent =>
              /\ sav'[i].on = FALSE /\ sav'[i].age = 0 /\ idle' = 0
              /\ sav'[i].eat <=> Checked(i).on \/ (sav[i].eat /\ Read(r).repeat)
         /\ \A j \in Images : j # i => sav'[j] = sav[j]
<1>1. Read(r) \in Events
  BY ReadIsEvent
<1>2. sav' \in [Images -> SavRec] /\ \A j \in Images : j # i => sav'[j] = sav[j]
  BY PollFacts
<1>3. CASE Read(r) = NoEvent
  <2>1. sav'[i] = Checked(i) /\ idle' = idle
    BY <1>3, PollFacts
  <2> QED
    BY <1>2, <1>3, <2>1, CheckedRecord
<1>4. CASE Read(r) # NoEvent
  <2>1. sav'[i] = SaverKey(i, Read(r)) /\ idle' = 0
    BY <1>4, PollFacts
  <2>2. /\ SaverKey(i, Read(r)).on = FALSE /\ SaverKey(i, Read(r)).age = 0
        /\ SaverKey(i, Read(r)).eat <=> Checked(i).on \/ (sav[i].eat /\ Read(r).repeat)
    BY <1>1, SaverKeyRecord
  <2> QED
    BY <1>2, <1>4, <2>1, <2>2
<1> QED
  BY <1>3, <1>4

\* A key that wakes the screen, or finds it black, belongs to the button held.
LEMMA WakingKey ==
  ASSUME Base, Wake, PollAction, NEW r \in Images, r = Reader,
         Checked(Image).on, IrEvent(r) # NoEvent
  PROVE  Steady(r)'
<1>1. Types /\ RemoteInv /\ IrSound /\ KeyPoll /\ InPoll
  BY PollPlace DEF Base
<1>2. PICK i \in Images : i = Image
  BY ImageNames
<1>3. sav[i] \in SavRec /\ ir[r] \in IrRec
  BY <1>1 DEF Types, SavTypes, IrTypes
<1>4. sav[i].on \/ SaverDue(i)
  BY <1>1, <1>2, CheckedRecord
<1>5. CASE stat \in Buttons
  <2>1. IrEvent(r) = [btn |-> stat, repeat |-> Recent(r) /\ stat = ir[r].last]
    BY <1>1, <1>5, EventCases, ButtonNames
  <2>2. IrEvent(r).btn = stat
    BY <2>1
  <2> QED
    BY <1>1, <1>5, <2>2, EventSteady DEF RemoteInv
<1>6. CASE stat \notin Buttons
  <2>1. /\ stat = None /\ rep /\ ~ir[r].rep /\ Recent(r)
        /\ IrEvent(r) = [btn |-> ir[r].last, repeat |-> TRUE]
    BY <1>1, <1>6, EventCases
  <2>2. IrEvent(r).btn = ir[r].last
    BY <2>1
  <2>3. held # None => ir[r].last = held
    <3>1. SUFFICES ASSUME held # None, ir[r].last # held PROVE FALSE
      OBVIOUS
    <3>2. ir[r].last # None /\ ir[r].age < Hold /\ Unsure(r)
      BY <2>1, <3>1 DEF Recent, Unsure
    <3>3. CASE place \in StandbyPlaces
      <4>1. Image = "launcher"
        BY <3>3 DEF Image, StandbyPlaces
      <4>2. ~saver_min /\ ~sav[i].on
        BY <1>2, <3>3, <4>1 DEF Wake, LayerInv
      <4> QED
        BY <1>4, <4>2 DEF SaverDue
    <3>4. CASE place \notin StandbyPlaces
      <4>1. ~sav[i].on /\ sav[i].age <= ir[r].age
        BY <1>1, <1>2, <3>1, <3>2, <3>4 DEF Wake, SureInv, Awake
      <4>2. sav[i].age = SaverTime
        BY <1>4, <4>1 DEF SaverDue
      <4>3. ir[r].age \in Nat
        BY <1>3, KeysAssumption DEF IrRec
      <4> QED
        BY <3>2, <4>1, <4>2, <4>3, KeysAssumption
    <3> QED
      BY <3>3, <3>4
  <2> QED
    BY <1>1, <2>2, <2>3, EventSteady
<1> QED
  BY <1>5, <1>6

\* While the press that woke the screen lasts, all it gives is swallowed.
LEMMA WokenSilent ==
  ASSUME Base, Wake, PollAction, woke = Image
  PROVE  Key = NoEvent
<1>1. Types /\ RemoteInv /\ KeyPoll /\ InPoll
  BY PollPlace DEF Base
<1>2. PICK r \in Images : r = Reader
  BY <1>1, ImageNames DEF Types
<1>3. PICK i \in Images : i = Image
  BY ImageNames
<1>4. Steady(r) /\ sav[i].eat
  BY <1>1, <1>2, <1>3 DEF Wake, WakeInv
<1>5. IrEvent(r) # NoEvent => IrEvent(r).repeat
  BY <1>1, <1>2, <1>4, SteadyPoll
<1>6. Read(r) # NoEvent => Read(r).repeat
  BY <1>1, <1>5, ReadIsEvent
<1>7. Checked(i).eat
  BY <1>1, <1>4, CheckedRecord
<1>8. SUFFICES ASSUME Key # NoEvent PROVE FALSE
  OBVIOUS
<1>9. Read(r) # NoEvent /\ ~Swallowed(i, Read(r))
  BY <1>1, <1>2, <1>3, <1>8, KeyCases
<1> QED
  BY <1>6, <1>7, <1>9 DEF Swallowed

LEMMA PollWakeInv ==
  ASSUME Base, Wake, PollAction, ShortCountdown
  PROVE  WakeInv'
<1>1. Types /\ RemoteInv /\ KeyPoll /\ InPoll /\ WakeInv /\ LayerInv /\ CountInv
  BY PollPlace DEF Base, Wake
<1>2. PICK r \in Images : r = Reader
  BY <1>1, ImageNames DEF Types
<1>3. PICK i \in Images : i = Image
  BY ImageNames
<1>4. Image' = i /\ Reader' = r
  BY <1>1, <1>2, <1>3, PollPlace
<1>5. sav[i] \in SavRec
  BY <1>1 DEF Types, SavTypes
<1>6. CASE Read(r) # NoEvent /\ Checked(i).on
  <2>1. woke' = i
    BY <1>1, <1>2, <1>3, <1>6, PollCounts
  <2>2. Key = NoEvent
    BY <1>1, <1>2, <1>3, <1>6, KeyCases DEF Swallowed
  <2>3. Steady(r)'
    BY <1>1, <1>2, <1>3, <1>6, ReadIsEvent, WakingKey
  <2>4. sav'[i].eat
    BY <1>1, <1>2, <1>3, <1>6, PollSaver
  <2>5. sav[i].on \/ SaverDue(i)
    BY <1>1, <1>6, CheckedRecord
  <2>6. place # "countdown"
    <3>1. SUFFICES ASSUME place = "countdown" PROVE FALSE
      OBVIOUS
    <3>2. i = "launcher" /\ ~sav[i].on /\ sav[i].age + busy <= MaxLoad /\ busy > 0
      <4>1. CountdownKey
        BY <3>1 DEF PollAction, MenuKey, AboutKey, AppKey, CrashKey, DropKeys, StandbyKey, DropPlaces
      <4> QED
        BY <1>1, <1>3, <3>1, <4>1 DEF CountInv, Image, CountdownKey
    <3>3. sav[i].age = SaverTime
      BY <2>5, <3>2 DEF SaverDue
    <3>4. busy \in Nat
      BY <1>1, KeysAssumption DEF Types, PlaceTypes
    <3> QED
      BY <3>2, <3>3, <3>4, KeysAssumption DEF ShortCountdown
  <2>7. place \notin StandbyPlaces
    BY <1>1, <1>3, <2>5 DEF LayerInv, Image, StandbyPlaces, SaverDue
  <2>8. i = "launcher" => place' \in {"menu", "about", "menuDrop", "crash", "crashDrop", "end"}
    <3>1. i = "launcher" => place # "app"
      BY <1>3 DEF Image
    <3> QED
      BY <1>1, <2>2, <2>6, <2>7, <3>1, PollMoves DEF InPoll, PollPlaces, DropPlaces, StandbyPlaces
  <2>9. i = "app" => place' = "app"
    BY <1>1, <1>3, <2>2, PollMoves DEF Image
  <2> QED
    BY <1>4, <2>1, <2>3, <2>4, <2>8, <2>9 DEF WakeInv, Steady, Images
<1>7. CASE ~(Read(r) # NoEvent /\ Checked(i).on) /\ woke = i
  <2>1. Key = NoEvent
    BY <1>3, <1>7, WokenSilent
  <2>2. woke' = i
    BY <1>1, <1>2, <1>3, <1>7, <2>1, PollCounts
  <2>3. Steady(r) /\ sav[i].eat
    BY <1>1, <1>2, <1>3, <1>7 DEF WakeInv
  <2>4. Steady(r)' /\ (IrEvent(r) # NoEvent => IrEvent(r).repeat)
    BY <1>1, <1>2, <2>3, SteadyPoll
  <2>5. Read(r) # NoEvent => Read(r).repeat
    BY <1>1, <2>4, ReadIsEvent
  <2>6. sav'[i].eat
    BY <1>1, <1>2, <1>3, <2>3, <2>5, PollSaver
  <2>7. i = "launcher" => place' \in {"menu", "about", "menuDrop", "crash", "crashDrop", "end"}
    BY <1>1, <1>7, <2>1, PollMoves DEF WakeInv
  <2>8. i = "app" => place' = "app"
    BY <1>1, <1>3, <2>1, PollMoves DEF Image
  <2> QED
    BY <1>4, <2>2, <2>4, <2>6, <2>7, <2>8 DEF WakeInv, Steady, Images
<1>8. CASE ~(Read(r) # NoEvent /\ Checked(i).on) /\ woke # i
  <2>1. woke' = woke
    BY <1>1, <1>2, <1>3, <1>8, PollCounts
  <2>2. woke # "app" /\ (woke = "launcher" => place = "app")
    BY <1>1, <1>3, <1>8 DEF WakeInv, Image, Images
  <2>3. woke # "launcher"
    BY <1>1, <2>2 DEF WakeInv
  <2> QED
    BY <1>1, <1>4, <1>8, <2>1, <2>2, <2>3 DEF WakeInv
<1> QED
  BY <1>6, <1>7, <1>8

\* A poll learns the press, unless there was nothing to read.
LEMMA UnsurePoll ==
  ASSUME Base, KeyPoll, NEW r \in Images, r = Reader, Unsure(r)', ir'[r].last \notin {None, held}
  PROVE  Unsure(r) /\ IrEvent(r) = NoEvent /\ ir'[r].last = ir[r].last /\ ir'[r].age = ir[r].age
<1>1. Types /\ RemoteInv
  BY DEF Base
<1>2. /\ held # None /\ held' = held /\ nframe' = nframe /\ rep' = rep /\ ir'[r].rep = rep
      /\ nframe' = 1 \/ (rep' /\ ~ir'[r].rep)
  BY <1>1, PollFacts, PolledReader DEF Unsure
<1>3. nframe = 1 /\ ~rep /\ stat # "bad"
  BY <1>1, <1>2 DEF RemoteInv
<1>4. IrEvent(r) = NoEvent
  <2>1. SUFFICES ASSUME IrEvent(r) # NoEvent PROVE FALSE
    OBVIOUS
  <2>2. stat \in Buttons /\ IrEvent(r) = [btn |-> stat, repeat |-> Recent(r) /\ stat = ir[r].last]
    BY <1>1, <1>3, <2>1, EventCases
  <2>3. IrEvent(r).btn = stat /\ stat = held
    BY <1>1, <1>2, <2>2 DEF RemoteInv
  <2> QED
    BY <1>1, <2>1, <2>3, PolledReader
<1>5. ir[r].init /\ ir'[r].last = ir[r].last /\ ir'[r].age = ir[r].age
  BY <1>1, <1>4, PolledReader
<1>6. stat = None
  BY <1>1, <1>3, <1>4, <1>5, SilentWhen DEF Types, RemoteTypes
<1> QED
  BY <1>2, <1>3, <1>4, <1>5, <1>6 DEF Unsure

\* After a key that is passed on both clocks start again.
LEMMA PassedKey ==
  ASSUME Types, KeyPoll, NEW r \in Images, r = Reader, NEW i \in Images, i = Image, Key # NoEvent
  PROVE  Awake(r, i)' /\ sav'[i].age = 0 /\ idle' = 0 /\ ~sav'[i].on /\ ir'[r].age = 0
<1>1. Read(r) # NoEvent /\ IrEvent(r) # NoEvent
  BY KeyCases, ReadIsEvent
<1>2. sav'[i].age = 0 /\ idle' = 0 /\ ~sav'[i].on
  BY <1>1, PollSaver
<1>3. ir'[r].age = 0
  BY <1>1, PolledReader
<1> QED
  BY <1>2, <1>3 DEF Awake

LEMMA PollSureInv ==
  ASSUME Base, Wake, PollAction
  PROVE  SureInv'
<1>1. Types /\ RemoteInv /\ IrSound /\ KeyPoll /\ InPoll /\ SureInv
  BY PollPlace DEF Base, Wake
<1>2. PICK r \in Images : r = Reader
  BY <1>1, ImageNames DEF Types
<1>3. PICK i \in Images : i = Image
  BY ImageNames
<1>4. Image' = i /\ Reader' = r /\ sys' = sys
  BY <1>1, <1>2, <1>3, PollPlace, PollFacts
<1>5. sav[i] \in SavRec /\ ir[r] \in IrRec
  BY <1>1 DEF Types, SavTypes, IrTypes
<1>6. place' \notin StandbyPlaces /\ InPoll' => place \notin StandbyPlaces
  BY <1>1, PollMoves DEF StandbyPlaces, InPoll, PollPlaces, DropPlaces
<1>7. ASSUME InPoll', place' \notin StandbyPlaces, Unsure(r)', ir'[r].last \notin {None, held}
      PROVE  Awake(r, i)'
  <2>1. Unsure(r) /\ IrEvent(r) = NoEvent /\ ir'[r].last = ir[r].last /\ ir'[r].age = ir[r].age
    BY <1>1, <1>2, <1>7, UnsurePoll
  <2>2. ~sav[i].on /\ sav[i].age <= ir[r].age
    BY <1>1, <1>2, <1>3, <1>6, <1>7, <2>1 DEF SureInv, Awake
  <2>3. ir[r].age \in Nat /\ ir[r].age < Hold
    BY <1>1, <1>5, <1>7, <2>1, KeysAssumption DEF IrRec, IrSound
  <2>4. Read(r) = NoEvent
    BY <1>1, <2>1, ReadIsEvent
  <2>5. ~SaverDue(i)
    BY <2>2, <2>3, KeysAssumption DEF SaverDue
  <2>6. ~sav'[i].on /\ (sav'[i].age = sav[i].age \/ sav'[i].age = 0)
    BY <1>1, <1>2, <1>3, <2>2, <2>4, <2>5, PollSaver
  <2> QED
    BY <2>1, <2>2, <2>3, <2>6 DEF Awake
<1>8. ASSUME sys, Unsure("launcher")'
      PROVE  ir'["launcher"].last \in {None, held}
  <2>1. r = "launcher"
    BY <1>2, <1>8 DEF Reader
  <2>2. SUFFICES ASSUME ir'[r].last \notin {None, held} PROVE FALSE
    BY <2>1
  <2>3. Unsure(r) /\ ir'[r].last = ir[r].last
    BY <1>1, <1>2, <1>8, <2>1, <2>2, UnsurePoll
  <2> QED
    BY <1>1, <1>8, <2>1, <2>2, <2>3 DEF SureInv
<1>9. ASSUME place' \in {"load", "app"}, ~sys, ir'["launcher"].last # None
      PROVE  Awake("launcher", "launcher")'
  <2>1. CASE place' = "load"
    <3>1. Key # NoEvent /\ place = "menu"
      BY <1>1, <2>1, PollMoves DEF InPoll, PollPlaces, DropPlaces
    <3>2. i = "launcher" /\ r = "launcher"
      BY <1>2, <1>3, <3>1 DEF Image, Reader
    <3> QED
      BY <1>1, <1>2, <1>3, <3>1, <3>2, PassedKey
  <2>2. CASE place' = "app"
    <3>1. place = "app" /\ i = "app" /\ r = "app"
      BY <1>1, <1>2, <1>3, <1>9, <2>2, PollMoves DEF Image, Reader
    <3>2. ir'["launcher"] = ir["launcher"] /\ sav'["launcher"] = sav["launcher"]
      BY <1>1, <1>2, <1>3, <3>1, PolledReader, PollSaver DEF Images
    <3>3. ir["launcher"].last # None => Awake("launcher", "launcher")
      BY <1>1, <1>9, <3>1 DEF SureInv
    <3> QED
      BY <1>9, <3>2, <3>3 DEF Awake
  <2> QED
    BY <1>9, <2>1, <2>2
<1>10. held' = held
  BY <1>1, PollFacts
<1>11. InPoll' /\ place' \notin StandbyPlaces /\ Unsure(Reader)' =>
         (ir[Reader].last)' \in {None, held'} \/ Awake(Reader, Image)'
  BY <1>4, <1>7, <1>10 DEF Unsure, Awake
<1> QED
  BY <1>4, <1>8, <1>9, <1>10, <1>11 DEF SureInv

LEMMA PollCountInv ==
  ASSUME Base, Wake, PollAction, ShortCountdown
  PROVE  CountInv'
<1>1. SUFFICES ASSUME place' = "countdown"
               PROVE  /\ ir'["launcher"].last = None /\ ~sav'["launcher"].on
                      /\ busy' <= MaxLoad /\ sav'["launcher"].age + busy' <= MaxLoad
  BY DEF CountInv
<1>2. Types /\ KeyPoll /\ InPoll /\ CountInv
  BY PollPlace DEF Base, Wake
<1>3. Key = NoEvent /\ busy' = busy /\ busy > 0 /\ place = "countdown"
  BY <1>1, <1>2, PollMoves
<1>4. Image = "launcher" /\ Reader = "launcher" /\ "launcher" \in Images
  BY <1>3 DEF Image, Reader, Images
<1> DEFINE l == "launcher"
<1>5. /\ ir[l].last = None /\ ~sav[l].on /\ busy <= MaxLoad /\ sav[l].age + busy <= MaxLoad
      /\ busy \in Nat /\ sav[l].age \in Int
  BY <1>2, <1>3, <1>4, KeysAssumption DEF CountInv, Types, PlaceTypes, SavTypes, SavRec
<1>6. ~SaverDue(l)
  BY <1>3, <1>5, KeysAssumption DEF SaverDue, ShortCountdown
<1>7. ~Checked(l).on
  BY <1>2, <1>4, <1>5, <1>6, CheckedRecord
<1>8. IrEvent(l) = NoEvent
  <2>1. SUFFICES ASSUME IrEvent(l) # NoEvent PROVE FALSE
    OBVIOUS
  <2>2. ~Recent(l)
    BY <1>5 DEF Recent
  <2>3. IrEvent(l) = [btn |-> stat, repeat |-> FALSE]
    BY <1>2, <1>4, <2>1, <2>2, EventCases
  <2>4. ~IrEvent(l).repeat
    BY <2>3
  <2>5. Read(l) = IrEvent(l)
    BY <1>2, <1>4, <2>1, <2>4, ReadIsEvent
  <2>6. Key # NoEvent
    BY <1>4, <1>7, <2>1, <2>4, <2>5 DEF Key, Swallowed
  <2> QED
    BY <1>3, <2>6
<1>9. ir'[l].last = None
  BY <1>2, <1>4, <1>5, <1>8, PolledReader
<1>10. Read(l) = NoEvent
  BY <1>2, <1>4, <1>8, ReadIsEvent
<1>11. ~sav'[l].on /\ (sav'[l].age = sav[l].age \/ sav'[l].age = 0)
  BY <1>2, <1>4, <1>5, <1>6, <1>10, PollSaver
<1> QED
  BY <1>3, <1>5, <1>9, <1>11

LEMMA PollLayerInv ==
  ASSUME Base, Wake, PollAction, ShortCountdown
  PROVE  LayerInv'
<1>1. Types /\ KeyPoll /\ InPoll /\ LayerInv
  BY PollPlace DEF Base, Wake
<1>2. PICK r \in Images : r = Reader
  BY <1>1, ImageNames DEF Types
<1>3. PICK i \in Images : i = Image
  BY ImageNames
<1>4. Image' = i
  BY <1>1, <1>3, PollPlace
<1>5. sav[i] \in SavRec /\ sav'[i] \in SavRec /\ idle \in 0..SaverTime
  BY <1>1, <1>2, <1>3, PollSaver DEF Types, SavTypes, PlaceTypes
<1>6. layer' = ~sav'[i].on
  <2>1. layer = ~sav[i].on
    BY <1>1, <1>3 DEF LayerInv
  <2>2. layer' = IF sav'[i].on = sav[i].on THEN layer ELSE ~sav'[i].on
    BY <1>1, <1>3, PollCounts
  <2> QED
    BY <2>1, <2>2
<1>7. place' \in StandbyPlaces => ~saver_min' /\ (place \in StandbyPlaces \/ Key # NoEvent)
  BY <1>1, PollMoves DEF LayerInv, StandbyPlaces
<1>8. place' \in {"load", "app"} \union StandbyPlaces => ~sav'["launcher"].on
  <2>1. CASE place' = "app"
    <3>1. place = "app" /\ i = "app"
      BY <1>1, <1>3, <2>1, PollMoves DEF Image
    <3>2. sav'["launcher"] = sav["launcher"]
      BY <1>1, <1>2, <1>3, <3>1, PollSaver DEF Images
    <3> QED
      BY <1>1, <3>1, <3>2 DEF LayerInv
  <2>2. CASE place' \in {"load"} \union StandbyPlaces
    <3>1. i = "launcher"
      BY <1>3, <1>4, <2>2 DEF Image, StandbyPlaces
    <3>2. CASE Key # NoEvent
      BY <1>1, <1>2, <1>3, <3>1, <3>2, PassedKey
    <3>3. CASE Key = NoEvent
      <4>1. place \in StandbyPlaces
        BY <1>1, <2>2, <3>3, PollMoves DEF StandbyPlaces, InPoll, PollPlaces, DropPlaces
      <4>2. ~sav[i].on /\ ~SaverDue(i)
        BY <1>1, <3>1, <4>1 DEF LayerInv, SaverDue
      <4> QED
        BY <1>1, <1>2, <1>3, <3>1, <4>2, PollSaver
    <3> QED
      BY <3>2, <3>3
  <2> QED
    BY <2>1, <2>2
<1>9. ASSUME place' \notin {"crashDrop", "crash", "crashOver", "end"}
      PROVE  sav'[i].age <= idle' /\ (sav'[i].on => idle' = SaverTime)
  <2>1. place \notin {"crashDrop", "crash", "crashOver", "end"}
    BY <1>1, <1>9, PollMoves
  <2>2. sav[i].age <= idle /\ (sav[i].on => idle = SaverTime)
    BY <1>1, <1>3, <2>1 DEF LayerInv
  <2>3. CASE Read(r) # NoEvent
    <3>1. sav'[i].age = 0 /\ idle' = 0 /\ ~sav'[i].on
      BY <1>1, <1>2, <1>3, <2>3, PollSaver
    <3> QED
      BY <3>1
  <2>4. CASE Read(r) = NoEvent
    <3>1. /\ idle' = idle /\ (sav'[i].on => sav[i].on \/ sav[i].age = SaverTime)
          /\ sav'[i].age = sav[i].age \/ sav'[i].age = 0
      BY <1>1, <1>2, <1>3, <2>4, PollSaver DEF SaverDue
    <3> QED
      BY <1>5, <2>2, <3>1, KeysAssumption
  <2> QED
    BY <2>3, <2>4
<1> QED
  BY <1>4, <1>6, <1>7, <1>8, <1>9 DEF LayerInv

LEMMA PollWake ==
  ASSUME Base, Wake, PollAction, ShortCountdown
  PROVE  Wake'
  BY PollWakeInv, PollSureInv, PollCountInv, PollLayerInv DEF Wake

LEMMA PressWake ==
  ASSUME Base, Wake, NEW b \in Buttons, Press(b)
  PROVE  Wake'
<1> USE DEF Press, runtimeVars
<1>1. Image' = Image /\ Reader' = Reader /\ stat' # None
  BY ButtonNames DEF Image, Reader
<1>2. WakeInv'
  BY <1>1, ImageNames DEF Wake, WakeInv, None, Images
<1>3. SureInv'
  BY <1>1 DEF Wake, SureInv, Unsure, Awake
<1>4. CountInv' /\ LayerInv'
  BY <1>1 DEF Wake, CountInv, LayerInv
<1> QED
  BY <1>2, <1>3, <1>4 DEF Wake

LEMMA ReleaseWake ==
  ASSUME Base, Wake, Release
  PROVE  Wake'
<1> USE DEF Release, runtimeVars, pressVars
<1>1. Image' = Image /\ Reader' = Reader /\ held' = None
  BY DEF Image, Reader
<1>2. WakeInv'
  BY <1>1 DEF Wake, WakeInv, InPoll, Steady
<1>3. SureInv'
  BY <1>1 DEF Wake, SureInv, Unsure, Awake
<1>4. CountInv' /\ LayerInv'
  BY <1>1 DEF Wake, CountInv, LayerInv
<1> QED
  BY <1>2, <1>3, <1>4 DEF Wake

LEMMA IdleWake ==
  ASSUME Base, Wake, UNCHANGED vars
  PROVE  Wake'
<1> USE DEF vars, remoteVars, runtimeVars, pressVars
<1>1. Image' = Image /\ Reader' = Reader
  BY DEF Image, Reader
<1>2. WakeInv'
  BY <1>1 DEF Wake, WakeInv, InPoll, Steady
<1>3. SureInv'
  BY <1>1 DEF Wake, SureInv, Unsure, Awake, InPoll
<1>4. CountInv' /\ LayerInv'
  BY <1>1 DEF Wake, CountInv, LayerInv
<1> QED
  BY <1>2, <1>3, <1>4 DEF Wake

\* Both clocks go on together.
LEMMA AwakeTick ==
  ASSUME Types, IrSound, Tick, NEW r \in Images, NEW i \in Images,
         Awake(r, i), ir'[r].last # None
  PROVE  Awake(r, i)'
<1>1. sav'[i].on = sav[i].on /\ sav'[i].age = IF sav[i].age = -1 THEN -1 ELSE Aged(sav[i].age, SaverTime)
  BY AgedSaver
<1>2. ir'[r].age = ir[r].age + 1
  BY AgedRecord
<1>3. sav[i].age \in Int /\ ir[r].age \in Nat
  BY KeysAssumption DEF Types, SavTypes, SavRec, IrTypes, IrRec
<1> QED
  BY <1>1, <1>2, <1>3, KeysAssumption DEF Awake, Aged

LEMMA UnsureTick ==
  ASSUME Types, RemoteInv, IrSound, Tick, NEW r \in Images, Unsure(r)'
  PROVE  Unsure(r) /\ held' = held
<1>1. RemoteTypes /\ RemoteTick /\ ir'[r].rep = ir[r].rep
  BY AgedRecord DEF Types, Tick
<1>2. held' # None /\ stat' = None /\ (nframe' = 1 \/ (rep' /\ ~ir'[r].rep))
  BY DEF Unsure
<1>3. /\ held' = held
      /\ \/ held = None
         \/ nframe = 1 /\ stat' = stat
         \/ stat' = held /\ nframe' = 2
         \/ stat' \in {stat, "bad"} /\ rep' = rep /\ nframe' = 2
  BY <1>1, RemoteTickCases
<1>4. None # "bad"
  BY DEF None
<1>5. stat = None /\ (nframe = 1 \/ (rep /\ ~ir[r].rep))
  BY <1>1, <1>2, <1>3, <1>4
<1> QED
  BY <1>2, <1>3, <1>5 DEF Unsure

LEMMA TickWake ==
  ASSUME Base, Wake, Tick
  PROVE  Wake'
<1>1. Types /\ RemoteInv /\ IrSound
  BY DEF Base
<1>2. PICK r \in Images : r = Reader
  BY <1>1, ImageNames DEF Types
<1>3. PICK i \in Images : i = Image
  BY ImageNames
<1>4. Image' = i /\ Reader' = r /\ UNCHANGED <<place, sys, woke, saver_min, layer>>
  BY <1>2, <1>3 DEF Tick, Image, Reader
<1>5. \A j \in Images : sav'[j].on = sav[j].on /\ sav'[j].eat = sav[j].eat
  BY <1>1, AgedSaver
<1>6. "launcher" \in Images
  BY DEF Images
<1>7. WakeInv'
  <2>1. InPoll /\ woke = i => Steady(r)'
    <3>1. InPoll => polled
      BY DEF Tick, InPoll
    <3> QED
      BY <1>1, <1>2, <1>3, <3>1, SteadyTick DEF Wake, WakeInv
  <2> QED
    BY <1>3, <1>4, <1>5, <2>1 DEF Wake, WakeInv, Steady, InPoll
<1>8. SureInv'
  <2>1. ASSUME InPoll, place \notin StandbyPlaces, Unsure(r)', ir'[r].last \notin {None, held}
        PROVE  Awake(r, i)'
    <3>1. Unsure(r) /\ ir'[r].last = ir[r].last
      BY <1>1, <2>1, UnsureTick, AgedRecord
    <3>2. Awake(r, i)
      BY <1>2, <1>3, <2>1, <3>1 DEF Wake, SureInv
    <3> QED
      BY <1>1, <2>1, <3>2, AwakeTick
  <2>2. ASSUME sys, Unsure("launcher")', ir'["launcher"].last # None
        PROVE  ir'["launcher"].last = held
    BY <1>1, <1>6, <2>2, UnsureTick, AgedRecord DEF Wake, SureInv
  <2>3. ASSUME place \in {"load", "app"}, ~sys, ir'["launcher"].last # None
        PROVE  Awake("launcher", "launcher")'
    BY <1>1, <1>6, <2>3, AwakeTick, AgedRecord DEF Wake, SureInv
  <2>4. held' = held
    BY <1>1, RemoteTickCases DEF Types, Tick
  <2>5. InPoll' /\ place' \notin StandbyPlaces /\ Unsure(Reader)' =>
           (ir[Reader].last)' \in {None, held'} \/ Awake(Reader, Image)'
    BY <1>4, <2>1, <2>4 DEF Unsure, Awake, InPoll
  <2> QED
    BY <1>4, <2>2, <2>3, <2>4, <2>5 DEF SureInv
<1>9. CountInv'
  <2>1. SUFFICES ASSUME place = "countdown"
                 PROVE  /\ ir'["launcher"].last = None /\ ~sav'["launcher"].on
                        /\ busy' <= MaxLoad /\ sav'["launcher"].age + busy' <= MaxLoad
    BY <1>4 DEF CountInv
  <2>2. /\ ir["launcher"].last = None /\ ~sav["launcher"].on
        /\ busy <= MaxLoad /\ sav["launcher"].age + busy <= MaxLoad
    BY <2>1 DEF Wake, CountInv
  <2>3. busy > 0 /\ busy' = busy - 1 /\ busy \in Nat /\ sav["launcher"].age \in Int
    BY <1>1, <1>6, <2>1, KeysAssumption DEF Tick, Types, PlaceTypes, SavTypes, SavRec
  <2>4. sav'["launcher"].age \in {sav["launcher"].age, sav["launcher"].age + 1}
    BY <1>1, <1>6, AgedSaver DEF Aged
  <2>5. ir'["launcher"].last = None
    BY <1>1, <1>6, <2>2, AgedRecord
  <2> QED
    BY <1>5, <1>6, <2>2, <2>3, <2>4, <2>5, KeysAssumption
<1>10. LayerInv'
  <2>1. ASSUME place \notin {"crashDrop", "crash", "crashOver", "end"}
        PROVE  sav'[i].age <= idle' /\ (sav'[i].on => idle' = SaverTime)
    <3>1. sav[i].age <= idle /\ (sav[i].on => idle = SaverTime)
      BY <1>3, <2>1 DEF Wake, LayerInv
    <3>2. idle' = Aged(idle, SaverTime) /\ idle \in 0..SaverTime /\ sav[i].age \in -1..SaverTime
      BY <1>1 DEF Tick, Types, PlaceTypes, SavTypes, SavRec
    <3>3. sav'[i].age = IF sav[i].age = -1 THEN -1 ELSE Aged(sav[i].age, SaverTime)
      BY <1>1, AgedSaver
    <3>4. sav'[i].age <= idle'
      BY <3>1, <3>2, <3>3, KeysAssumption DEF Aged
    <3>5. sav[i].on => idle' = SaverTime
      BY <3>1, <3>2, KeysAssumption DEF Aged
    <3> QED
      BY <1>5, <3>4, <3>5
  <2> QED
    BY <1>3, <1>4, <1>5, <1>6, <2>1 DEF Wake, LayerInv
<1> QED
  BY <1>7, <1>8, <1>9, <1>10 DEF Wake

LEMMA AppStartWake ==
  ASSUME Base, Wake, AppStart
  PROVE  Wake'
<1> USE DEF AppStart, remoteVars
<1>1. Types /\ IrSound /\ ForgetApp
  BY DEF Base
<1>2. /\ ir'["launcher"] = ir["launcher"] /\ ir'["app"].last = None
      /\ sav'["launcher"] = sav["launcher"] /\ ~sav'["app"].on /\ sav'["app"].age = -1
  BY <1>1, ForgetTypes, Zeroed DEF Types, SavTypes, Images
<1>3. place = "load" /\ Image = "launcher" /\ Image' = "app" /\ Reader = "launcher" /\ sys' = sys
  BY DEF Image, Reader
<1>4. Reader' = IF sys THEN "launcher" ELSE "app"
  BY DEF Image, Reader
<1>5. woke' \notin {"app", "launcher", "leaked"}
  BY <1>1, <1>3 DEF Wake, WakeInv, ForgetApp, None
<1>6. WakeInv'
  BY <1>3, <1>5 DEF WakeInv
<1>7. SureInv'
  <2>1. sys /\ Unsure("launcher") => ir["launcher"].last \in {None, held}
    BY DEF Wake, SureInv
  <2>2. ~sys => ir["launcher"].last = None \/ Awake("launcher", "launcher")
    BY <1>3 DEF Wake, SureInv
  <2>3. (sys /\ Unsure("launcher"))' => (ir["launcher"].last \in {None, held})'
    BY <1>2, <2>1 DEF Unsure
  <2>4. ~sys' => (ir["launcher"].last = None \/ Awake("launcher", "launcher"))'
    BY <1>2, <2>2 DEF Awake
  <2>5. (InPoll /\ place \notin StandbyPlaces /\ Unsure(Reader) =>
           ir[Reader].last \in {None, held} \/ Awake(Reader, Image))'
    BY <1>2, <1>3, <1>4, <2>3 DEF Unsure
  <2> QED
    BY <2>3, <2>4, <2>5 DEF SureInv
<1>8. CountInv'
  BY DEF CountInv
<1>9. LayerInv'
  <2>1. ~sav["launcher"].on /\ layer = TRUE
    BY <1>3 DEF Wake, LayerInv
  <2>2. idle' \in 0..SaverTime /\ idle' = idle
    BY <1>1 DEF Types, PlaceTypes
  <2>3. layer' = ~sav'["app"].on
    BY <1>2, <2>1
  <2>4. sav'["app"].age <= idle'
    BY <1>2, <2>2
  <2>5. ~sav'["launcher"].on /\ place' = "app"
    BY <1>2, <2>1
  <2> QED
    BY <1>2, <1>3, <2>3, <2>4, <2>5 DEF LayerInv, StandbyPlaces
<1> QED
  BY <1>6, <1>7, <1>8, <1>9 DEF Wake

LEMMA BackWake ==
  ASSUME Base, Wake, Back, place \in {"load", "app", "crashOver"}
  PROVE  Wake'
<1>1. Types /\ IrSound /\ ForgetApp
  BY DEF Base, Back
<1>2. ir'["launcher"] = ir["launcher"] /\ ~sav'["launcher"].on /\ sav'["launcher"].age = 0
  BY <1>1, ForgetTypes, KickedRecord DEF Back, Images
<1>3. /\ place' \in {"menu", "menuDrop"} /\ Image' = "launcher" /\ Reader' = "launcher"
      /\ layer' = TRUE /\ UNCHANGED <<sys, held, stat, nframe, rep, idle, saver_min>>
  BY DEF Back, remoteVars, Image, Reader
<1>4. woke' \notin {"app", "launcher", "leaked"}
  BY <1>1 DEF Wake, WakeInv, ForgetApp, None
<1>5. WakeInv'
  BY <1>3, <1>4 DEF WakeInv
<1>6. SureInv'
  <2>1. ir["launcher"] \in IrRec
    BY <1>1 DEF Types, IrTypes, Images
  <2>2. Awake("launcher", "launcher")'
    BY <1>2, <2>1, KeysAssumption DEF Awake, IrRec
  <2>3. (sys /\ Unsure("launcher"))' => (ir["launcher"].last \in {None, held})'
    BY <1>2, <1>3 DEF Wake, SureInv, Unsure
  <2> QED
    BY <1>3, <2>2, <2>3 DEF SureInv, Awake
<1>7. CountInv'
  BY <1>3 DEF CountInv
<1>8. LayerInv'
  <2>1. idle \in 0..SaverTime
    BY <1>1 DEF Types, PlaceTypes
  <2>2. layer' = ~sav'["launcher"].on
    BY <1>2, <1>3
  <2>3. sav'["launcher"].age <= idle'
    BY <1>2, <1>3, <2>1
  <2> QED
    BY <1>2, <1>3, <2>2, <2>3 DEF LayerInv, StandbyPlaces
<1> QED
  BY <1>5, <1>6, <1>7, <1>8 DEF Wake

LEMMA CrashWake ==
  ASSUME Base, Wake, AppCrash
  PROVE  Wake'
<1>1. Types /\ IrSound /\ ForgetApp
  BY DEF Base, AppCrash
<1>2. ir'["launcher"] = ir["launcher"] /\ sav'["launcher"] = sav["launcher"]
  BY <1>1, ForgetTypes DEF AppCrash, Types, SavTypes, Images
<1>3. /\ place = "app" /\ place' = "crashDrop" /\ Image' = "launcher" /\ Reader' = "launcher"
      /\ layer' = TRUE /\ UNCHANGED <<sys, held, stat, nframe, rep, idle, saver_min>>
  BY DEF AppCrash, remoteVars, Image, Reader
<1>4. woke' \notin {"app", "launcher", "leaked"}
  BY <1>1, <1>3 DEF Wake, WakeInv, ForgetApp, None
<1>5. WakeInv'
  BY <1>3, <1>4 DEF WakeInv
<1>6. SureInv'
  <2>1. (sys /\ Unsure("launcher"))' => (ir["launcher"].last \in {None, held})'
    BY <1>2, <1>3 DEF Wake, SureInv, Unsure
  <2>2. ~sys => ir["launcher"].last = None \/ Awake("launcher", "launcher")
    BY <1>3 DEF Wake, SureInv
  <2>3. ~sys' => (ir["launcher"].last = None \/ Awake("launcher", "launcher"))'
    BY <1>2, <1>3, <2>2 DEF Awake
  <2> QED
    BY <1>3, <2>1, <2>3 DEF SureInv, Unsure, Awake
<1>7. CountInv'
  BY <1>3 DEF CountInv
<1>8. LayerInv'
  BY <1>2, <1>3 DEF Wake, LayerInv, StandbyPlaces
<1> QED
  BY <1>5, <1>6, <1>7, <1>8 DEF Wake

LEMMA NotOurLayerWake ==
  ASSUME Base, Wake, NotOurLayer
  PROVE  Wake'
<1> USE DEF NotOurLayer, remoteVars, pressVars
<1>1. Types
  BY DEF Base
<1>2. /\ sav'["launcher"] = sav["launcher"]
      /\ sav'["app"].on = sav["app"].on /\ sav'["app"].eat = sav["app"].eat /\ sav'["app"].age = 0
  BY <1>1 DEF Types, SavTypes, SavRec, Images
<1>3. place = "app" /\ Image = "app" /\ Image' = "app" /\ Reader' = Reader /\ ~sav["app"].on /\ sav["app"].age = SaverTime
  BY DEF Image, Reader, SaverDue
<1>4. WakeInv'
  BY <1>2, <1>3 DEF Wake, WakeInv, InPoll, Steady
<1>5. SureInv'
  <2>1. Reader \in Images /\ \A j \in Images : ir[j].age \in Nat
    BY <1>1, ImageNames, KeysAssumption DEF Types, IrTypes, IrRec
  <2>2. Awake(Reader, "app")'
    BY <1>2, <1>3, <2>1 DEF Awake
  <2>3. (sys /\ Unsure("launcher"))' => (ir["launcher"].last \in {None, held})'
    BY DEF Wake, SureInv, Unsure
  <2>4. ~sys' => (ir["launcher"].last = None \/ Awake("launcher", "launcher"))'
    BY <1>2, <1>3 DEF Wake, SureInv, Awake
  <2> QED
    BY <1>3, <2>2, <2>3, <2>4 DEF SureInv
<1>6. CountInv'
  BY <1>3 DEF CountInv
<1>7. LayerInv'
  <2>1. idle \in 0..SaverTime
    BY <1>1 DEF Types, PlaceTypes
  <2> QED
    BY <1>2, <1>3, <2>1 DEF Wake, LayerInv, StandbyPlaces
<1> QED
  BY <1>4, <1>5, <1>6, <1>7 DEF Wake

LEMMA MovesWake ==
  ASSUME Base, Wake, Moves
  PROVE  Wake'
<1>1. Types
  BY DEF Base
<1>2. /\ UNCHANGED <<held, nframe, stat, rep, ir, sav, layer, saver_min, sys, woke, idle>>
      /\ \/ place = "countdown" /\ place' = "load"
         \/ place = "blink" /\ place' = "standbyDrop"
         \/ place = "settle" /\ place' = "standby"
         \/ place \in {"standby", "crash"} /\ place' = "end"
  <2>1. UNCHANGED <<held, nframe, stat, rep, ir, sav, layer, saver_min, sys, woke, idle>>
    BY <1>1, MovesFacts DEF remoteVars, runtimeVars
  <2> QED
    BY <2>1 DEF Moves, CountdownOver, Launch, StandbyGoesOn, StandbyButton, Enter
<1>3. Image = "launcher" /\ Image' = "launcher" /\ Reader = "launcher" /\ Reader' = "launcher"
  BY <1>2 DEF Image, Reader
<1>4. woke \in {"launcher", "app"} => place = "crash" /\ place' = "end"
  BY <1>2 DEF Wake, WakeInv
<1>5. WakeInv'
  BY <1>2, <1>3, <1>4 DEF Wake, WakeInv, InPoll, PollPlaces, DropPlaces
<1>6. SureInv'
  <2>1. place' = "load" => ir["launcher"].last = None
    BY <1>2 DEF Wake, CountInv
  <2>2. ~(InPoll /\ place \notin StandbyPlaces)' /\ place' # "app"
    BY <1>2 DEF InPoll, PollPlaces, DropPlaces, StandbyPlaces
  <2>3. (sys /\ Unsure("launcher"))' => (ir["launcher"].last \in {None, held})'
    BY <1>2 DEF Wake, SureInv, Unsure
  <2> QED
    BY <1>2, <2>1, <2>2, <2>3 DEF SureInv
<1>7. CountInv'
  BY <1>2 DEF CountInv
<1>8. LayerInv'
  <2>1. layer' = ~sav'["launcher"].on
    BY <1>2, <1>3 DEF Wake, LayerInv
  <2>2. place' # "end" => ~sav'["launcher"].on
    BY <1>2 DEF Wake, LayerInv, CountInv, StandbyPlaces
  <2>3. place' \in StandbyPlaces => ~saver_min'
    BY <1>2 DEF Wake, LayerInv, StandbyPlaces
  <2>4. place' # "end" => sav'["launcher"].age <= idle'
    BY <1>2, <1>3 DEF Wake, LayerInv
  <2> QED
    BY <1>3, <2>1, <2>2, <2>3, <2>4, <1>2 DEF LayerInv, StandbyPlaces
<1> QED
  BY <1>5, <1>6, <1>7, <1>8 DEF Wake

LEMMA WakeInit == ShortCountdown /\ Init => Wake
<1> SUFFICES ASSUME ShortCountdown, Init PROVE Wake
  OBVIOUS
<1>1. \A i \in Images : ir[i] = IrZero /\ sav[i] = SavZero
  BY DEF Init
<1>2. Image = "launcher" /\ "launcher" \in Images
  BY DEF Init, Image, Images
<1>3. held = None /\ woke = None
  BY DEF Init
<1>4. WakeInv
  BY <1>2, <1>3 DEF WakeInv, None
<1>5. SureInv
  BY <1>3 DEF Init, SureInv, Unsure
<1>6. CountInv
  BY <1>1, <1>2, Zeroed, KeysAssumption DEF Init, CountInv
<1>7. LayerInv
  <2>1. sav["launcher"].on = FALSE /\ sav["launcher"].age = -1 /\ layer = TRUE /\ idle = 0
    BY <1>1, <1>2, Zeroed DEF Init
  <2>2. layer = ~sav["launcher"].on
    BY <2>1
  <2>3. place \in {"countdown", "menu"}
    BY DEF Init
  <2> QED
    BY <1>2, <2>1, <2>2, <2>3 DEF LayerInv, StandbyPlaces
<1> QED
  BY <1>4, <1>5, <1>6, <1>7 DEF Wake

LEMMA WakeNext ==
  ASSUME ShortCountdown, Base, Wake, [Next]_vars
  PROVE  Wake'
  BY NextCases, PollWake, MovesWake, ReleaseWake, TickWake, AppStartWake, CrashWake,
     NotOurLayerWake, BackWake, PressWake, IdleWake

LEMMA WakeAlways ==
  ASSUME ShortCountdown
  PROVE  Spec => []Wake
<1>1. Base /\ Wake /\ [Next]_vars => Wake'
  BY WakeNext
<1>2. Init => Wake
  BY WakeInit
<1> QED
  BY <1>1, <1>2, BaseAlways, PTL DEF Spec

\* saver_key swallows the press that wakes a screen to its last repeat: it is
\* never passed to the program behind the black screen.
THEOREM WakingPressIsSwallowed ==
  ASSUME ShortCountdown
  PROVE  Spec => []WakingKeySwallowed
<1>1. Wake => WakingKeySwallowed
  BY DEF Wake, WakeInv, WakingKeySwallowed
<1> QED
  BY <1>1, WakeAlways, PTL

\* saver_check switches the layer off only after SaverTime without a key, also
\* after a launch and a return, when the other image's saver had been counting.
THEOREM BlackAfterIdle ==
  ASSUME ShortCountdown
  PROVE  Spec => []BlackOnlyWhenIdle
<1>1. Base /\ Wake => BlackOnlyWhenIdle
  <2> SUFFICES ASSUME Base, Wake, ~layer, place \notin {"crashDrop", "crash", "crashOver", "end"}
               PROVE  idle = SaverTime
    BY DEF BlackOnlyWhenIdle
  <2>1. Image \in Images /\ sav \in [Images -> SavRec]
    BY ImageNames DEF Base, Types, SavTypes
  <2>2. sav[Image].on \in BOOLEAN
    BY <2>1 DEF SavRec
  <2> QED
    BY <2>2 DEF Wake, LayerInv
<1> QED
  BY <1>1, BaseAlways, WakeAlways, PTL
=============================================================================
