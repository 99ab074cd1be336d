---------------------------- MODULE MusicProofs ----------------------------
(***************************************************************************)
(* Type correctness of Music and the proof that a claim that has returned  *)
(* owns the audio output, for every queue length, number of songs and      *)
(* number of storage changes, when no app faults inside the system's       *)
(* sector calls.                                                           *)
(***************************************************************************)
EXTENDS Music, TLAPS

\* The music task has no output and cannot start one in this turn.
Quiet == ~out_on /\ ~playing /\ mpc # "read"

InProgram == kind = "legacy" /\ ui \in {"run", "crash"}

\* The ui task holds usb_mutex only inside a sector call or a U-Boot program.
HeldInv ==
  /\ ui = "io" => kind = "sdk"
  /\ usb_held = IF ui = "io" \/ InProgram THEN 1 ELSE 0

\* The ui task sends only to a music task that waits on an empty queue, so the
\* queue never fills and no command is dropped.
QueueInv ==
  /\ music_q # <<>> => mpc = "wait" /\ Len(music_q) = 1
  /\ InProgram => mpc = "wait" /\ music_q = <<>>

\* While sys_audio_claim waits, its command is on the way or has been handled.
ClaimInv ==
  /\ ui \in {"claim", "claim_wait"} => app_audio
  /\ ui = "claim_wait" =>
       \/ music_q = <<"CLAIM">>
       \/ mpc = "cmd" /\ m_cmd = "CLAIM"
       \/ Quiet
  /\ Granted => Quiet
  /\ hw = "music" => out_on
  /\ ui = "end" => ~out_on

\* The list was read before the song was opened, both on a stick already seen;
\* a song that is not stopped is a song of the list.
SongOrder ==
  /\ m_gen <= gen /\ m_h <= gen
  /\ m_state # "STOPPED" =>
       m_h # 0 /\ m_gen <= m_h /\ nsongs > 0 /\ cur_song \in 0..(nsongs - 1)

\* The song, the stick it is on and the latched local of music_entry.
SongInv ==
  /\ playing => m_state = "PLAYING"
  /\ mpc = "read" => playing /\ present /\ m_gen = gen
  /\ SongOrder

IInv == TypeOK /\ HeldInv /\ QueueInv /\ ClaimInv /\ SongInv

----------------------------------------------------------------------------
(* Facts about the operators of Music.                                     *)

\* What an outcome of m_play_from over n songs can be.
LEMMA PlayFromOutcome ==
  ASSUME TypeOK, NEW n \in 0..MaxSongs, NEW idx \in Nat, NEW r \in PlayFrom(n, idx)
  PROVE  \/ r = [st |-> "STOPPED", cur |-> cur_song, h |-> 0]
         \/ \E j \in 0..(n - 1) : n > 0 /\ r = [st |-> "PLAYING", cur |-> j, h |-> gen]
<1>1. CASE r = NoneOpens
  BY <1>1 DEF NoneOpens
<1>2. ASSUME NEW i \in 0..(n - 1), r = Opened((idx + i) % n)
      PROVE  \E j \in 0..(n - 1) : n > 0 /\ r = [st |-> "PLAYING", cur |-> j, h |-> gen]
  <2>1. n \in Nat /\ n > 0 /\ idx + i \in Nat
    BY MusicAssumption
  <2>2. (idx + i) % n \in 0..(n - 1)
    BY <2>1
  <2> QED
    BY <1>2, <2>1, <2>2 DEF Opened
<1> QED
  BY <1>1, <1>2 DEF PlayFrom

\* What CMD_PLAY, CMD_NEXT, CMD_HANDOFF and the end of a song do to the song:
\* it is left alone, closed, or opened on the mounted stick.
SongStep ==
  \/ /\ m_state' = "STOPPED" /\ m_h' = 0 /\ cur_song' = cur_song
     /\ nsongs' \in 0..MaxSongs /\ m_gen' \in {m_gen, gen}
  \/ /\ m_state' = "PLAYING" /\ m_h' = gen
     /\ nsongs' \in 1..MaxSongs /\ cur_song' \in 0..(nsongs' - 1)
     /\ m_gen' \in {m_gen, gen}
  \/ /\ m_state = "STOPPED" /\ UNCHANGED <<m_state, m_h, m_gen, cur_song>>
     /\ nsongs' = 0
  \/ /\ UNCHANGED <<m_h, m_gen, nsongs, cur_song>>
     /\ m_state' = m_state \/ (m_state # "STOPPED" /\ m_state' \in {"PLAYING", "PAUSED"})

LEMMA SongIsStep ==
  ASSUME TypeOK, NEW n \in 0..MaxSongs, NEW idx \in Nat, NEW r \in PlayFrom(n, idx),
         NEW g \in {m_gen, gen}, SongIs(r, n, g)
  PROVE  SongStep
<1>1. CASE r = [st |-> "STOPPED", cur |-> cur_song, h |-> 0]
  BY <1>1 DEF SongIs, SongStep
<1>2. ASSUME NEW j \in 0..(n - 1), n > 0, r = [st |-> "PLAYING", cur |-> j, h |-> gen]
      PROVE  SongStep
  BY <1>2, MusicAssumption DEF SongIs, SongStep
<1> QED
  BY <1>1, <1>2, PlayFromOutcome

LEMMA CommandSongStep ==
  ASSUME TypeOK, MusicCommand
  PROVE  SongStep
<1>0. Scans \subseteq 0..MaxSongs
  BY MusicAssumption DEF Scans
<1>1. CASE m_cmd = "PLAY"
  <2>1. CmdPlay
    BY <1>1 DEF MusicCommand
  <2>2. CASE m_state # "STOPPED"
    BY <2>1, <2>2 DEF CmdPlay, SongStep, KeepSong
  <2>3. CASE m_state = "STOPPED"
    <3>1. PICK n \in Scans :
            IF n = 0 THEN nsongs' = 0 /\ UNCHANGED <<m_state, m_h, m_gen, cur_song>>
            ELSE \E r \in PlayFrom(n, IF cur_song \in 0..(n-1) THEN cur_song ELSE 0) :
                   SongIs(r, n, gen)
      BY <2>1, <2>3 DEF CmdPlay
    <3>2. CASE n = 0
      BY <3>1, <3>2, <2>3 DEF SongStep
    <3>3. CASE n # 0
      <4> DEFINE idx == IF cur_song \in 0..(n-1) THEN cur_song ELSE 0
      <4>1. idx \in Nat
        BY <1>0
      <4>2. PICK r \in PlayFrom(n, idx) : SongIs(r, n, gen)
        BY <3>1, <3>3
      <4> HIDE DEF idx
      <4> QED
        BY <1>0, <4>1, <4>2, SongIsStep
    <3> QED
      BY <3>2, <3>3
  <2> QED
    BY <2>2, <2>3
<1>2. CASE m_cmd = "NEXT"
  <2>1. CmdNext
    BY <1>2 DEF MusicCommand
  <2>2. CASE m_state # "STOPPED" /\ nsongs > 0
    <3>1. PICK r \in PlayFrom(nsongs, cur_song + 1) : SongIs(r, nsongs, m_gen)
      BY <2>1, <2>2 DEF CmdNext
    <3>2. cur_song + 1 \in Nat /\ nsongs \in 0..MaxSongs
      BY DEF TypeOK
    <3> QED
      BY <3>1, <3>2, SongIsStep
  <2>3. CASE ~(m_state # "STOPPED" /\ nsongs > 0)
    BY <2>1, <2>3 DEF CmdNext, SongStep, KeepSong
  <2> QED
    BY <2>2, <2>3
<1>3. CASE m_cmd = "HANDOFF"
  <2>1. PICK n \in Scans :
          IF n = 0
          THEN /\ m_state' = "STOPPED" /\ m_h' = 0
               /\ nsongs' \in {0, nsongs}
               /\ UNCHANGED <<m_gen, cur_song>>
          ELSE \E i \in 0..(n - 1) : \E r \in PlayFrom(n, i) : SongIs(r, n, gen)
    BY <1>3 DEF MusicCommand, CmdHandoff
  <2>2. CASE n = 0
    BY <2>1, <2>2, MusicAssumption DEF SongStep, TypeOK
  <2>3. CASE n # 0
    <3>1. PICK i \in 0..(n - 1) : \E r \in PlayFrom(n, i) : SongIs(r, n, gen)
      BY <2>1, <2>3
    <3> QED
      BY <1>0, <3>1, SongIsStep
  <2> QED
    BY <2>2, <2>3
<1>4. CASE m_cmd = "PAUSE"
  <2>1. CmdPause
    BY <1>4 DEF MusicCommand
  <2> QED
    BY <2>1 DEF CmdPause, KeepSong, SongStep, TypeOK
<1>5. CASE m_cmd = "STOP"
  <2>1. CmdStop
    BY <1>5 DEF MusicCommand
  <2> QED
    BY <2>1 DEF CmdStop, SongStep, TypeOK
<1>6. CASE m_cmd \in {"CLAIM", "WAKE"}
  BY <1>6 DEF MusicCommand, KeepSong, SongStep
<1> QED
  BY <1>1, <1>2, <1>3, <1>4, <1>5, <1>6 DEF TypeOK, Commands, Keys

LEMMA ReadEndSongStep ==
  ASSUME TypeOK, MusicReadEnd
  PROVE  SongStep
<1>1. PICK r \in PlayFrom(nsongs, cur_song + 1) : SongIs(r, nsongs, m_gen)
  BY DEF MusicReadEnd
<1>2. cur_song + 1 \in Nat /\ nsongs \in 0..MaxSongs
  BY DEF TypeOK
<1> QED
  BY <1>1, <1>2, SongIsStep

\* A song step keeps the types of the song's variables.
LEMMA SongStepType ==
  ASSUME TypeOK, SongStep
  PROVE  /\ m_state' \in {"STOPPED", "PLAYING", "PAUSED"}
         /\ m_h' \in Nat /\ m_gen' \in Nat
         /\ nsongs' \in 0..MaxSongs /\ cur_song' \in -1..(MaxSongs - 1)
  BY MusicAssumption DEF TypeOK, SongStep
\* A song step keeps that order.
LEMMA SongStepOrder ==
  ASSUME TypeOK, SongOrder, SongStep, gen' = gen
  PROVE  SongOrder'
  BY MusicAssumption DEF TypeOK, SongStep, SongOrder
----------------------------------------------------------------------------
(* Type correctness.                                                       *)

\* TypeOK needs the lock to be held where it is given back.
TInv ==
  /\ TypeOK
  /\ ui = "io" => kind = "sdk"
  /\ ui = "io" \/ InProgram => usb_held >= 1

\* The flags and the rest of TypeOK: the provers take them one at a time.
FlagType ==
  /\ out_on \in BOOLEAN /\ app_audio \in BOOLEAN /\ playing \in BOOLEAN
  /\ present \in BOOLEAN /\ claimed \in BOOLEAN

ValueType ==
  /\ m_state \in {"STOPPED", "PLAYING", "PAUSED"}
  /\ m_h \in Nat /\ m_gen \in Nat
  /\ nsongs \in 0..MaxSongs /\ cur_song \in -1..(MaxSongs - 1)
  /\ music_q \in Seq(Commands) /\ m_cmd \in Commands
  /\ mpc \in {"wait", "cmd", "read"}
  /\ hw \in {"off", "music", "app"}
  /\ gen \in Nat \ {0}
  /\ usb_held \in Nat
  /\ ui \in {"menu", "run", "claim", "claim_wait", "io", "crash", "end"}
  /\ kind \in {"none", "sdk", "legacy"}

LEMMA TypeParts == (TypeOK <=> FlagType /\ ValueType) /\ (TypeOK' <=> FlagType' /\ ValueType')
  BY DEF TypeOK, FlagType, ValueType

\* Every variable keeps its type whatever the tasks, the apps and the stick do;
\* in particular usb_mutex is never given back more often than it was taken.
THEOREM TypeCorrect == Spec => []TypeOK
<1>1. Init => TInv
  <2> SUFFICES ASSUME Init PROVE TInv
    OBVIOUS
  <2>1. FlagType
    BY DEF Init, FlagType
  <2>2. ValueType /\ ui = "menu"
    BY MusicAssumption DEF Init, ValueType, Commands, Keys
  <2> QED
    BY <2>1, <2>2, TypeParts DEF TInv, InProgram
<1>2. TInv /\ [Next]_vars => TInv'
  <2> SUFFICES ASSUME TInv, [Next]_vars PROVE TInv'
    OBVIOUS
  <2> USE DEF TInv, InProgram, vars, musicVars, taskVars, stickVars, uiVars
  <2>1. CASE MusicReceive
    BY <2>1 DEF MusicReceive, TypeOK
  <2>2. CASE MusicCommand
    <3>1. FlagType'
      BY <2>2, CommandSongStep, SongStepType DEF MusicCommand, OutputAfter, OutputOff, Turn, TypeOK, FlagType
    <3>2. ValueType' /\ (ui' = "io" => kind' = "sdk") /\ (ui' = "io" \/ InProgram' => usb_held' >= 1)
      BY <2>2, CommandSongStep, SongStepType DEF MusicCommand, OutputAfter, OutputOff, Turn, TypeOK, ValueType
    <3> QED
      BY <3>1, <3>2, TypeParts
  <2>3. CASE MusicStickGone
    BY <2>3 DEF MusicStickGone, OutputOff, Turn, TypeOK
  <2>4. CASE MusicPump
    BY <2>4 DEF MusicPump, KeepSong, Turn, TypeOK
  <2>5. CASE MusicReadData
    BY <2>5 DEF MusicReadData, Turn, TypeOK
  <2>6. CASE MusicReadEnd
    BY <2>6, ReadEndSongStep, SongStepType DEF MusicReadEnd, Turn, TypeOK
  <2>7. ASSUME NEW key \in Keys, MediaKey(key) PROVE TInv'
    BY <2>7 DEF MediaKey, KeepMusicTask, Send, TypeOK, Commands
  <2>8. CASE LaunchSdk
    BY <2>8 DEF LaunchSdk, KeepMusicTask, TypeOK
  <2>9. CASE AppHandoff
    BY <2>9 DEF AppHandoff, KeepMusicTask, TypeOK, Send, Commands
  <2>10. CASE ClaimBegin
    BY <2>10 DEF ClaimBegin, KeepMusicTask, TypeOK
  <2>11. CASE ClaimSend
    BY <2>11 DEF ClaimSend, KeepMusicTask, TypeOK, Send, Commands
  <2>12. CASE ClaimReturn
    BY <2>12 DEF ClaimReturn, KeepMusicTask, TypeOK
  <2>13. CASE AppAudio
    BY <2>13 DEF AppAudio, KeepMusicTask, TypeOK
  <2>14. CASE AppIoBegin
    BY <2>14 DEF AppIoBegin, KeepMusicTask, TypeOK
  <2>15. CASE AppIoEnd
    <3>1. FlagType'
      BY <2>15 DEF AppIoEnd, KeepMusicTask, TypeOK, FlagType
    <3>2. ValueType' /\ (ui' = "io" => kind' = "sdk") /\ (ui' = "io" \/ InProgram' => usb_held' >= 1)
      BY <2>15 DEF AppIoEnd, KeepMusicTask, TypeOK, ValueType
    <3> QED
      BY <3>1, <3>2, TypeParts
  <2>16. CASE AppExit
    <3>1. FlagType'
      BY <2>16 DEF AppExit, KeepMusicTask, Send, Commands, TypeOK, FlagType
    <3>2. ValueType' /\ (ui' = "io" => kind' = "sdk") /\ (ui' = "io" \/ InProgram' => usb_held' >= 1)
      BY <2>16 DEF AppExit, KeepMusicTask, Send, Commands, TypeOK, ValueType
    <3> QED
      BY <3>1, <3>2, TypeParts
  <2>17. CASE LegacyEnd
    <3>1. FlagType'
      BY <2>17 DEF LegacyEnd, KeepMusicTask, Send, Commands, TypeOK, FlagType
    <3>2. ValueType' /\ (ui' = "io" => kind' = "sdk") /\ (ui' = "io" \/ InProgram' => usb_held' >= 1)
      BY <2>17 DEF LegacyEnd, KeepMusicTask, Send, Commands, TypeOK, ValueType
    <3> QED
      BY <3>1, <3>2, TypeParts
  <2>18. CASE Crash
    BY <2>18 DEF Crash, KeepMusicTask, TypeOK
  <2>19. CASE CrashOk
    BY <2>19 DEF CrashOk, KeepMusicTask, TypeOK
  <2>20. CASE UiReturn
    BY <2>20 DEF UiReturn, OutputOff, TypeOK
  <2>21. CASE StorageChange
    BY <2>21 DEF StorageChange, TypeOK
  <2>22. CASE Ended
    BY <2>22 DEF Ended, TypeOK
  <2>23. CASE UNCHANGED vars
    BY <2>23 DEF TypeOK
  <2> QED
    BY <2>1, <2>2, <2>3, <2>4, <2>5, <2>6, <2>7, <2>8, <2>9, <2>10, <2>11, <2>12, <2>13, <2>14, <2>15, <2>16, <2>17, <2>18, <2>19, <2>20, <2>21, <2>22, <2>23 DEF Next, MusicTask, UiTask
<1>3. TInv => TypeOK
  BY DEF TInv
<1> QED
  BY <1>1, <1>2, <1>3, PTL DEF Spec

----------------------------------------------------------------------------
(* The claim of the audio output.                                          *)

LEMMA IInvInit == Init /\ TypeOK => IInv
<1> SUFFICES ASSUME Init, TypeOK PROVE IInv
  OBVIOUS
<1>1. HeldInv /\ QueueInv
  BY DEF Init, HeldInv, QueueInv, InProgram
<1>2. ClaimInv
  BY DEF Init, ClaimInv, Quiet, Granted
<1>3. SongInv
  BY DEF Init, SongInv, SongOrder
<1> QED
  BY <1>1, <1>2, <1>3 DEF IInv

LEMMA IInvNext ==
  ASSUME CrashInIo = FALSE, TypeOK', IInv, [Next]_vars
  PROVE  IInv'
<1> USE DEF IInv, HeldInv, QueueInv, ClaimInv, SongInv, SongOrder, Quiet, InProgram, Granted,
            vars, musicVars, taskVars, stickVars, uiVars
<1>1. CASE MusicReceive
  BY <1>1 DEF MusicReceive, Suspended, TypeOK
<1>2. CASE MusicCommand
  <2>1. HeldInv' /\ QueueInv'
    BY <1>2 DEF MusicCommand, SongStep, OutputAfter, OutputOff, Turn, Suspended, TypeOK
  <2>2. ClaimInv'
    BY <1>2 DEF MusicCommand, SongStep, OutputAfter, OutputOff, Turn, Suspended, TypeOK
  <2>3. SongOrder'
    <3> HIDE DEF SongOrder
    <3>1. gen' = gen
      BY <1>2 DEF MusicCommand
    <3> QED
      BY <1>2, <3>1, CommandSongStep, SongStepOrder
  <2>4. mpc' = "wait" /\ (playing' => m_state' = "PLAYING")
    BY <1>2 DEF MusicCommand, Turn
  <2> QED
    BY <2>1, <2>2, <2>3, <2>4
<1>3. CASE MusicStickGone
  BY <1>3 DEF MusicStickGone, OutputOff, Turn, Suspended, TypeOK
<1>4. CASE MusicPump
  BY <1>4 DEF MusicPump, KeepSong, Turn, Suspended, TypeOK
<1>5. CASE MusicReadData
  BY <1>5 DEF MusicReadData, Turn, Suspended, TypeOK
<1>6. CASE MusicReadEnd
  <2>1. HeldInv' /\ QueueInv'
    BY <1>6 DEF MusicReadEnd, SongStep, Turn, Suspended, TypeOK
  <2>2. ClaimInv'
    BY <1>6 DEF MusicReadEnd, SongStep, Turn, Suspended, TypeOK
  <2>3. SongOrder'
    <3> HIDE DEF SongOrder
    <3>1. gen' = gen
      BY <1>6 DEF MusicReadEnd
    <3> QED
      BY <1>6, <3>1, ReadEndSongStep, SongStepOrder
  <2>4. mpc' = "wait" /\ (playing' => m_state' = "PLAYING")
    BY <1>6 DEF MusicReadEnd, Turn
  <2> QED
    BY <2>1, <2>2, <2>3, <2>4
<1>7. ASSUME NEW key \in Keys, MediaKey(key) PROVE IInv'
  BY <1>7, MusicAssumption DEF MediaKey, UiRuns, MusicBlocked, Suspended, KeepMusicTask, Send, TypeOK
<1>8. CASE LaunchSdk
  BY <1>8, MusicAssumption DEF LaunchSdk, UiRuns, MusicBlocked, Suspended, KeepMusicTask, TypeOK
<1>9. CASE AppHandoff
  BY <1>9, MusicAssumption DEF AppHandoff, UiRuns, MusicBlocked, Suspended, KeepMusicTask, TypeOK, Send
<1>10. CASE ClaimBegin
  BY <1>10, MusicAssumption DEF ClaimBegin, UiRuns, MusicBlocked, Suspended, KeepMusicTask, TypeOK
<1>11. CASE ClaimSend
  BY <1>11, MusicAssumption DEF ClaimSend, UiRuns, MusicBlocked, Suspended, KeepMusicTask, TypeOK, Send
<1>12. CASE ClaimReturn
  BY <1>12, MusicAssumption DEF ClaimReturn, UiRuns, MusicBlocked, Suspended, KeepMusicTask, TypeOK
<1>13. CASE AppAudio
  BY <1>13, MusicAssumption DEF AppAudio, UiRuns, MusicBlocked, Suspended, KeepMusicTask, TypeOK
<1>14. CASE AppIoBegin
  BY <1>14, MusicAssumption DEF AppIoBegin, UiRuns, MusicBlocked, Suspended, KeepMusicTask, TypeOK
<1>15. CASE AppIoEnd
  <2>1. HeldInv' /\ QueueInv'
    BY <1>15 DEF AppIoEnd, UiRuns, MusicBlocked, Suspended, KeepMusicTask, TypeOK
  <2>2. ClaimInv'
    BY <1>15 DEF AppIoEnd, UiRuns, MusicBlocked, Suspended, KeepMusicTask, TypeOK
  <2>3. SongInv'
    BY <1>15, MusicAssumption DEF AppIoEnd, UiRuns, MusicBlocked, Suspended, KeepMusicTask, TypeOK
  <2> QED
    BY <2>1, <2>2, <2>3
<1>16. CASE AppExit
  BY <1>16, MusicAssumption DEF AppExit, UiRuns, MusicBlocked, Suspended, KeepMusicTask, TypeOK, Send
<1>17. CASE LegacyEnd
  BY <1>17, MusicAssumption DEF LegacyEnd, UiRuns, MusicBlocked, Suspended, KeepMusicTask, TypeOK, Send
<1>18. CASE Crash
  BY <1>18, MusicAssumption DEF Crash, UiRuns, MusicBlocked, Suspended, KeepMusicTask, TypeOK
<1>19. CASE CrashOk
  BY <1>19, MusicAssumption DEF CrashOk, UiRuns, MusicBlocked, Suspended, KeepMusicTask, TypeOK
<1>20. CASE UiReturn
  BY <1>20, MusicAssumption DEF UiReturn, UiRuns, MusicBlocked, Suspended, OutputOff, TypeOK
<1>21. CASE StorageChange
  BY <1>21 DEF StorageChange, Suspended, TypeOK
<1>22. CASE Ended
  BY <1>22 DEF Ended, TypeOK
<1>23. CASE UNCHANGED vars
  BY <1>23 DEF TypeOK
<1> QED
  BY <1>1, <1>2, <1>3, <1>4, <1>5, <1>6, <1>7, <1>8, <1>9, <1>10, <1>11, <1>12, <1>13, <1>14, <1>15, <1>16, <1>17, <1>18, <1>19, <1>20, <1>21, <1>22, <1>23 DEF Next, MusicTask, UiTask

\* A claim that has returned owns the output, for every queue length, song list
\* and history of the stick, as long as no app faults inside a sector call.
THEOREM ClaimOwnsOutput ==
  ASSUME CrashInIo = FALSE
  PROVE  Spec => []AudioExclusive
<1>1. TypeOK' /\ IInv /\ [Next]_vars => IInv'
  BY IInvNext
<1>2. IInv => AudioExclusive
  BY DEF IInv, ClaimInv, AudioExclusive, Quiet
<1> QED
  BY <1>1, <1>2, IInvInit, TypeCorrect, PTL DEF Spec

\* The music task reads a song only from the stick it was listed and opened on.
THEOREM SongOnItsStick ==
  ASSUME CrashInIo = FALSE
  PROVE  Spec => []SongMatchesStick
<1>1. TypeOK' /\ IInv /\ [Next]_vars => IInv'
  BY IInvNext
<1>2. IInv => SongMatchesStick
  BY DEF IInv, TypeOK, SongInv, SongOrder, SongMatchesStick
<1> QED
  BY <1>1, <1>2, IInvInit, TypeCorrect, PTL DEF Spec
----------------------------------------------------------------------------
(* The song that plays or is paused.                                       *)

LEMMA SongStepActive ==
  ASSUME TypeOK, ActiveSong, SongStep
  PROVE  ActiveSong'
  BY MusicAssumption DEF TypeOK, SongStep, ActiveSong

\* The actions that leave the song alone, and the stop of the pump.
Idle == UNCHANGED <<m_state, m_h, nsongs, cur_song>>

LEMMA ActiveSongNext ==
  ASSUME TypeOK, ActiveSong, [Next]_vars
  PROVE  ActiveSong'
<1>1. CASE MusicCommand \/ MusicReadEnd
  BY <1>1, CommandSongStep, ReadEndSongStep, SongStepActive
<1>2. CASE MusicStickGone
  BY <1>2 DEF MusicStickGone, ActiveSong
<1>3. CASE Idle
  BY <1>3 DEF Idle, ActiveSong
<1>4. MusicReceive \/ MusicPump \/ MusicReadData \/ StorageChange \/ Ended \/ UNCHANGED vars => Idle
  BY DEF MusicReceive, MusicPump, MusicReadData, StorageChange, Ended, Idle, KeepSong, vars, musicVars
<1>5. UiTask => Idle
  BY DEF UiTask, MediaKey, LaunchSdk, AppHandoff, ClaimBegin, ClaimSend, ClaimReturn, AppAudio,
         AppIoBegin, AppIoEnd, AppExit, LegacyEnd, Crash, CrashOk, UiReturn, KeepMusicTask,
         musicVars, Idle
<1> QED
  BY <1>1, <1>2, <1>3, <1>4, <1>5 DEF Next, MusicTask

\* A song that plays or is paused has its stream and a place in the list,
\* whatever commands, claims, crashes and pulls of the stick came before.
THEOREM SongIsActive == Spec => []ActiveSong
<1>1. Init => ActiveSong
  BY DEF Init, ActiveSong
<1>2. TypeOK /\ ActiveSong /\ [Next]_vars => ActiveSong'
  BY ActiveSongNext
<1> QED
  BY <1>1, <1>2, TypeCorrect, PTL DEF Spec
=============================================================================
