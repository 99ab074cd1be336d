------------------------------- MODULE Music -------------------------------
(***************************************************************************)
(* Background music and the ownership of the audio output under the NCAPPS *)
(* system (launcher/system.c, launcher/launcher.c, sdk/runtime.c).         *)
(*                                                                         *)
(* One core, strict FreeRTOS priorities: music 4, usb 3, ui 1.  The ui     *)
(* task (the launcher's menu or the app running inside it) executes only   *)
(* while the music task is blocked, either in xQueueReceive on an empty    *)
(* queue or on usb_mutex held by the ui task itself.  The 10 ms timeout of *)
(* xQueueReceive may wake the music task between any two ui steps.         *)
(*                                                                         *)
(* Storage is seen as the rest of the system sees it: present and a        *)
(* generation counter (module Storage has the details).                    *)
(***************************************************************************)
EXTENDS Integers, Sequences

CONSTANTS
  QLen,       \* length of music_q (8 in system.c)
  MaxSongs,   \* songs a folder may hold (MUSIC_MAX)
  MaxGen,     \* bound on sdk_storage_gen, i.e. on pulls and put-backs
  MaxHeld,    \* bound on the recursion count of usb_mutex
  CrashInIo   \* TRUE: an app may fault inside the system's raw_read

ASSUME MusicAssumption ==
  /\ QLen \in Nat \ {0}
  /\ MaxSongs \in Nat \ {0}
  /\ MaxGen \in Nat \ {0}
  /\ MaxHeld \in Nat \ {0}
  /\ CrashInIo \in BOOLEAN

VARIABLES
  m_state,    \* STOPPED, PLAYING or PAUSED
  m_h,        \* the song's stream: the generation it was opened on, 0 = none
  m_gen,      \* generation the song list was read on
  nsongs, cur_song,
  out_on,     \* the music task believes the output is its own and running
  app_audio,  \* an app (or a U-Boot program) has the audio
  music_q, m_cmd, mpc,
  playing,    \* the local of music_entry, computed before it waits
  hw,         \* who last started the audio block
  present, gen,
  usb_held,   \* recursion count of usb_mutex, owned by the ui task
  ui, kind, claimed

musicVars == <<m_state, m_h, m_gen, nsongs, cur_song, out_on>>
taskVars  == <<music_q, m_cmd, mpc, playing>>
stickVars == <<present, gen>>
uiVars    == <<usb_held, ui, kind, claimed>>
vars == <<musicVars, taskVars, app_audio, hw, stickVars, uiVars>>

Keys == {"PLAY", "PAUSE", "STOP", "NEXT"}
Commands == Keys \cup {"CLAIM", "WAKE", "HANDOFF"}

\* system_legacy_begin suspended the scheduler, or vTaskEndScheduler ended it:
\* no task but ui runs.
Suspended == (kind = "legacy" /\ ui \in {"run", "crash"}) \/ ui = "end"

\* Commands that read the stick, so take usb_mutex, in the current state.
Touches(cmd) ==
  \/ cmd = "PLAY" /\ m_state = "STOPPED"
  \/ cmd = "NEXT" /\ m_state # "STOPPED" /\ nsongs > 0
  \/ cmd = "HANDOFF"

MusicBlocked ==
  \/ mpc = "wait" /\ music_q = <<>>
  \/ usb_held > 0 /\ (mpc = "read" \/ (mpc = "cmd" /\ Touches(m_cmd)))

UiRuns == MusicBlocked \/ Suspended

----------------------------------------------------------------------------
(* The song list and the stream.                                           *)

\* m_scan: the MP3s of the folder, none when the folder cannot be opened.
Scans == IF present THEN 0..MaxSongs ELSE {0}

Opened(idx) == [st |-> "PLAYING", cur |-> idx, h |-> gen]
NoneOpens   == [st |-> "STOPPED", cur |-> cur_song, h |-> 0]

\* m_play_from(idx): the first of n songs, from idx on, that m_open takes.
\* Which file opens is data (a bad MP3, a read error); none does without stick.
PlayFrom(n, idx) ==
  {NoneOpens} \cup
  (IF present THEN {Opened((idx + i) % n) : i \in 0..(n - 1)} ELSE {})

\* The music's stream and list after a call that ends in outcome r.
SongIs(r, n, g) ==
  /\ m_state' = r.st
  /\ cur_song' = r.cur
  /\ m_h' = r.h
  /\ nsongs' = n
  /\ m_gen' = g

KeepSong == UNCHANGED <<m_h, m_gen, nsongs, cur_song>>

----------------------------------------------------------------------------
(* The music task.                                                         *)

\* End of a turn of music_entry's loop: playing is computed, then it waits.
Turn ==
  /\ playing' = (m_state' = "PLAYING" /\ ~app_audio)
  /\ mpc' = "wait"

\* m_output_off
OutputOff ==
  /\ out_on' = FALSE
  /\ hw' = IF out_on THEN "off" ELSE hw

\* The last lines of m_command: no output unless a song plays.
OutputAfter(cmd) ==
  IF cmd = "CLAIM" \/ m_state' # "PLAYING" THEN OutputOff
  ELSE UNCHANGED <<out_on, hw>>

\* xQueueReceive returns a command
MusicReceive ==
  /\ ~Suspended
  /\ mpc = "wait" /\ music_q # <<>>
  /\ m_cmd' = Head(music_q)
  /\ music_q' = Tail(music_q)
  /\ mpc' = "cmd"
  /\ UNCHANGED <<musicVars, playing, app_audio, hw, stickVars, uiVars>>

CmdPlay ==
  \/ /\ m_state = "PAUSED" /\ m_state' = "PLAYING" /\ KeepSong
  \/ /\ m_state = "PLAYING" /\ UNCHANGED m_state /\ KeepSong
  \/ /\ m_state = "STOPPED"
     /\ \E n \in Scans :
          IF n = 0 THEN /\ nsongs' = 0
                        /\ UNCHANGED <<m_state, m_h, m_gen, cur_song>>
          ELSE \E r \in PlayFrom(n, IF cur_song \in 0..(n-1) THEN cur_song ELSE 0) :
                 SongIs(r, n, gen)

\* Mutant: PAUSE starts a stopped player.
CmdPauseToggles ==
  /\ m_state' = IF m_state = "PLAYING" THEN "PAUSED" ELSE "PLAYING"
  /\ KeepSong

CmdPause ==
  /\ \/ m_state = "PLAYING" /\ m_state' = "PAUSED"
     \/ m_state = "PAUSED" /\ m_state' = "PLAYING"
     \/ m_state = "STOPPED" /\ UNCHANGED m_state
  /\ KeepSong

CmdStop ==
  /\ m_state' = "STOPPED" /\ m_h' = 0
  /\ UNCHANGED <<m_gen, nsongs, cur_song>>

CmdNext ==
  IF m_state # "STOPPED" /\ nsongs > 0
  THEN \E r \in PlayFrom(nsongs, cur_song + 1) : SongIs(r, nsongs, m_gen)
  ELSE UNCHANGED m_state /\ KeepSong

\* m_handoff: the handed-over song (any of the folder, m_open first tries it),
\* else the rest of its folder; stopped when the folder has no song.
CmdHandoff ==
  \E n \in Scans :
    IF n = 0
    THEN /\ m_state' = "STOPPED" /\ m_h' = 0
         /\ nsongs' \in {0, nsongs}    \* unscanned when the path has no '/'
         /\ UNCHANGED <<m_gen, cur_song>>
    ELSE \E i \in 0..(n - 1) : \E r \in PlayFrom(n, i) : SongIs(r, n, gen)

\* m_command
MusicCommand ==
  /\ ~Suspended
  /\ mpc = "cmd"
  /\ Touches(m_cmd) => usb_held = 0
  /\ \/ m_cmd = "PLAY" /\ CmdPlay
     \/ m_cmd = "PAUSE" /\ CmdPause
     \/ m_cmd = "STOP" /\ CmdStop
     \/ m_cmd = "NEXT" /\ CmdNext
     \/ m_cmd = "HANDOFF" /\ CmdHandoff
     \/ m_cmd \in {"CLAIM", "WAKE"} /\ UNCHANGED m_state /\ KeepSong
  /\ OutputAfter(m_cmd)
  /\ Turn
  /\ UNCHANGED <<music_q, m_cmd, app_audio, stickVars, uiVars>>

\* The 10 ms timeout with the stick gone or changed: stop and free the output.
MusicStickGone ==
  /\ ~Suspended
  /\ mpc = "wait" /\ music_q = <<>> /\ playing
  /\ ~present \/ gen # m_gen
  /\ m_state' = "STOPPED" /\ m_h' = 0
  /\ OutputOff
  /\ Turn
  /\ UNCHANGED <<m_gen, nsongs, cur_song, music_q, m_cmd, app_audio, stickVars, uiVars>>

\* Mutant: the check compares presence only, not the generation.
MusicPumpAnyStick ==
  /\ ~Suspended
  /\ mpc = "wait" /\ music_q = <<>> /\ playing
  /\ present
  /\ out_on' = TRUE
  /\ hw' = IF out_on THEN hw ELSE "music"
  /\ UNCHANGED m_state /\ KeepSong
  /\ mpc' = "read" /\ UNCHANGED playing
  /\ UNCHANGED <<music_q, m_cmd, app_audio, stickVars, uiVars>>

\* The 10 ms timeout while a song plays: output on, then the pump loop, which
\* stays in buffered data or goes on to read the stick.
MusicPump ==
  /\ ~Suspended
  /\ mpc = "wait" /\ music_q = <<>> /\ playing
  /\ present /\ gen = m_gen
  /\ out_on' = TRUE
  /\ hw' = IF out_on THEN hw ELSE "music"
  /\ UNCHANGED m_state /\ KeepSong
  /\ \/ Turn
     \/ mpc' = "read" /\ UNCHANGED playing
  /\ UNCHANGED <<music_q, m_cmd, app_audio, stickVars, uiVars>>

\* The read returned data and the ring is full enough.
MusicReadData ==
  /\ ~Suspended
  /\ mpc = "read" /\ usb_held = 0
  /\ UNCHANGED m_state
  /\ Turn
  /\ UNCHANGED <<m_h, m_gen, nsongs, cur_song, out_on, music_q, m_cmd, app_audio, hw, stickVars, uiVars>>

\* The read returned nothing (end of the song, or the stick stopped
\* answering): the next song that opens.  The output is left as it is.
MusicReadEnd ==
  /\ ~Suspended
  /\ mpc = "read" /\ usb_held = 0
  /\ \E r \in PlayFrom(nsongs, cur_song + 1) : SongIs(r, nsongs, m_gen)
  /\ Turn
  /\ UNCHANGED <<out_on, music_q, m_cmd, app_audio, hw, stickVars, uiVars>>

----------------------------------------------------------------------------
(* The ui task: the menu, an SDK app or a U-Boot program inside it.        *)

\* music_send: a full queue drops the command after 100 ms.
Send(cmd) ==
  music_q' = IF Len(music_q) < QLen THEN Append(music_q, cmd) ELSE music_q

KeepMusicTask == UNCHANGED <<musicVars, m_cmd, mpc, playing>>

\* sys_key_read: media keys belong to the music unless an app has the audio.
MediaKey(key) ==
  /\ UiRuns
  /\ ui \in {"menu", "run", "crash"} /\ ~app_audio /\ ~Suspended
  /\ Send(key)
  /\ KeepMusicTask
  /\ UNCHANGED <<app_audio, hw, stickVars, uiVars>>

\* launch of an SDK app: its runtime starts with audio_claimed = 0.
LaunchSdk ==
  /\ UiRuns /\ ui = "menu"
  /\ ui' = "run" /\ kind' = "sdk" /\ claimed' = FALSE
  /\ KeepMusicTask
  /\ UNCHANGED <<music_q, app_audio, hw, stickVars, usb_held>>

\* sys_music_play from the app
AppHandoff ==
  /\ UiRuns /\ ui = "run" /\ kind = "sdk"
  /\ Send("HANDOFF")
  /\ KeepMusicTask
  /\ UNCHANGED <<app_audio, hw, stickVars, uiVars>>

\* sys_audio_claim, first half: an app's first audio_start, or the launch of a
\* U-Boot program (system_legacy_begin).  The music task may run in between.
ClaimBegin ==
  /\ UiRuns
  /\ \/ /\ ui = "run" /\ kind = "sdk" /\ ~claimed
        /\ claimed' = TRUE /\ UNCHANGED kind
     \/ /\ ui = "menu" /\ kind' = "legacy" /\ UNCHANGED claimed
  /\ app_audio' = TRUE
  /\ ui' = "claim"
  /\ KeepMusicTask
  /\ UNCHANGED <<music_q, hw, stickVars, usb_held>>

\* Mutant: the claim only sets the flag.
ClaimSendNothing ==
  /\ UiRuns /\ ui = "claim"
  /\ ui' = "claim_wait"
  /\ KeepMusicTask
  /\ UNCHANGED <<music_q, app_audio, hw, stickVars, usb_held, kind, claimed>>

ClaimSend ==
  /\ UiRuns /\ ui = "claim"
  /\ Send("CLAIM")
  /\ ui' = "claim_wait"
  /\ KeepMusicTask
  /\ UNCHANGED <<app_audio, hw, stickVars, usb_held, kind, claimed>>

\* The wait for out_on = 0 ends, by itself or after 200 ticks.  The app then
\* starts the audio block; a U-Boot program gets USB and the CPU for itself.
ClaimReturn ==
  /\ UiRuns /\ ui = "claim_wait"
  /\ ui' = "run"
  /\ \/ /\ kind = "sdk" /\ hw' = "app" /\ UNCHANGED usb_held
     \/ /\ kind = "legacy" /\ usb_held < MaxHeld
        /\ usb_held' = usb_held + 1 /\ UNCHANGED hw
  /\ KeepMusicTask
  /\ UNCHANGED <<music_q, app_audio, stickVars, kind, claimed>>

\* Later audio_stop and audio_start of a program that holds the audio.
AppAudio ==
  /\ UiRuns /\ ui = "run"
  /\ kind = "legacy" \/ claimed
  /\ hw' \in {"app", "off"}
  /\ KeepMusicTask
  /\ UNCHANGED <<music_q, app_audio, stickVars, uiVars>>

\* sdk_raw_read / sdk_raw_write on behalf of the app
AppIoBegin ==
  /\ UiRuns /\ ui = "run" /\ kind = "sdk" /\ usb_held < MaxHeld
  /\ usb_held' = usb_held + 1 /\ ui' = "io"
  /\ KeepMusicTask
  /\ UNCHANGED <<music_q, app_audio, hw, stickVars, kind, claimed>>

\* Mutant: an error path of the sector call unlocks a second time.
AppIoEndTwice ==
  /\ UiRuns /\ ui = "io"
  /\ usb_held' \in {usb_held - 1, usb_held - 2} /\ ui' = "run"
  /\ KeepMusicTask
  /\ UNCHANGED <<music_q, app_audio, hw, stickVars, kind, claimed>>

AppIoEnd ==
  /\ UiRuns /\ ui = "io"
  /\ usb_held' = usb_held - 1 /\ ui' = "run"
  /\ KeepMusicTask
  /\ UNCHANGED <<music_q, app_audio, hw, stickVars, kind, claimed>>

\* Mutant: the release does not wake the music task.
AppExitNoWake ==
  /\ UiRuns /\ ui = "run" /\ kind = "sdk"
  /\ app_audio' = (app_audio /\ ~claimed)
  /\ ui' = "menu" /\ kind' = "none" /\ claimed' = FALSE
  /\ KeepMusicTask
  /\ UNCHANGED <<music_q, hw, stickVars, usb_held>>

\* The SDK app returns or exits: its runtime gives the audio back if it claimed.
AppExit ==
  /\ UiRuns /\ ui = "run" /\ kind = "sdk"
  /\ IF claimed THEN app_audio' = FALSE /\ Send("WAKE")
                ELSE UNCHANGED <<app_audio, music_q>>
  /\ ui' = "menu" /\ kind' = "none" /\ claimed' = FALSE
  /\ KeepMusicTask
  /\ UNCHANGED <<hw, stickVars, usb_held>>

\* system_legacy_end, after the program returned or its crash screen closed
LegacyEnd ==
  /\ kind = "legacy" /\ ui = "run"
  /\ usb_held' = usb_held - 1
  /\ app_audio' = FALSE /\ Send("WAKE")
  /\ ui' = "menu" /\ kind' = "none"
  /\ KeepMusicTask
  /\ UNCHANGED <<hw, stickVars, claimed>>

\* An exception in the running program: crash_resume stops the audio block.
Crash ==
  /\ UiRuns
  /\ ui = "run" \/ (ui = "io" /\ CrashInIo)
  /\ ui' = "crash" /\ hw' = "off"
  /\ KeepMusicTask
  /\ UNCHANGED <<music_q, app_audio, stickVars, usb_held, kind, claimed>>

\* OK on the crash screen: the longjmp back into launch.
CrashOk ==
  /\ UiRuns /\ ui = "crash"
  /\ \/ /\ kind = "legacy" /\ ui' = "run" /\ UNCHANGED <<kind, claimed>>
     \/ /\ kind = "sdk" /\ ui' = "menu" /\ kind' = "none" /\ claimed' = FALSE
  /\ KeepMusicTask
  /\ UNCHANGED <<music_q, app_audio, hw, stickVars, usb_held>>

\* The menu returns (stock firmware next): ui_entry ends the scheduler and
\* system_run frees the output.
UiReturn ==
  /\ UiRuns /\ ui = "menu"
  /\ ui' = "end"
  /\ OutputOff
  /\ UNCHANGED <<m_state, m_h, m_gen, nsongs, cur_song, taskVars, app_audio, stickVars,
                 usb_held, kind, claimed>>

Ended == ui = "end" /\ UNCHANGED vars

----------------------------------------------------------------------------
\* The usb task (sdk_storage_poll) notices the stick going or coming back.
StorageChange ==
  /\ ~Suspended /\ usb_held = 0
  /\ mpc = "wait" /\ music_q = <<>>
  /\ gen < MaxGen
  /\ present' = ~present /\ gen' = gen + 1
  /\ UNCHANGED <<musicVars, taskVars, app_audio, hw, uiVars>>

Init ==
  /\ m_state = "STOPPED" /\ m_h = 0 /\ m_gen = 0
  /\ nsongs = 0 /\ cur_song = -1
  /\ out_on = FALSE /\ app_audio = FALSE
  /\ music_q = <<>> /\ m_cmd = "WAKE" /\ mpc = "wait" /\ playing = FALSE
  /\ hw = "off"
  /\ present \in BOOLEAN /\ gen = 1
  /\ usb_held = 0 /\ ui = "menu" /\ kind = "none" /\ claimed = FALSE

MusicTask ==
  MusicReceive \/ MusicCommand \/ MusicStickGone \/ MusicPump \/ MusicReadData \/ MusicReadEnd

UiTask ==
  \/ \E key \in Keys : MediaKey(key)
  \/ LaunchSdk \/ AppHandoff \/ ClaimBegin \/ ClaimSend \/ ClaimReturn \/ AppAudio
  \/ AppIoBegin \/ AppIoEnd \/ AppExit \/ LegacyEnd \/ Crash \/ CrashOk
  \/ UiReturn

Next == MusicTask \/ UiTask \/ StorageChange \/ Ended

Spec == Init /\ [][Next]_vars

\* The music task runs as soon as it is ready: nothing has a higher priority.
\* Its 10 ms timeout is strongly fair: key presses are further apart than that,
\* so commands cannot keep it from expiring.
FairSpec ==
  Spec /\ WF_vars(MusicTask) /\ SF_vars(MusicPump \/ MusicStickGone)

----------------------------------------------------------------------------
(* Properties                                                              *)

TypeOK ==
  /\ m_state \in {"STOPPED", "PLAYING", "PAUSED"}
  /\ m_h \in Nat /\ m_gen \in Nat
  /\ nsongs \in 0..MaxSongs /\ cur_song \in -1..(MaxSongs - 1)
  /\ out_on \in BOOLEAN /\ app_audio \in BOOLEAN /\ playing \in BOOLEAN
  /\ music_q \in Seq(Commands) /\ m_cmd \in Commands
  /\ mpc \in {"wait", "cmd", "read"}
  /\ hw \in {"off", "music", "app"}
  /\ present \in BOOLEAN /\ gen \in Nat \ {0}
  /\ usb_held \in Nat
  /\ ui \in {"menu", "run", "claim", "claim_wait", "io", "crash", "end"}
  /\ kind \in {"none", "sdk", "legacy"}
  /\ claimed \in BOOLEAN

\* A claim that has returned
Granted == app_audio /\ ui \notin {"claim", "claim_wait"}

\* From the return of sys_audio_claim to the release, the music task neither
\* owns the audio block nor believes it does, whatever was queued, timing out
\* or being read when the claim came ("stop our output before it touches the
\* hardware", system.c).
AudioExclusive == Granted => ~out_on /\ hw # "music"

\* When the music task reads the stick for the song it plays, the mounted stick
\* is the one the list was read on and the song was opened on: whatever a pause,
\* an app's claim or a NEXT across a swap of sticks has left or opened by the old
\* list, the pump plays none of it.
SongMatchesStick == mpc = "read" => present /\ m_h = gen /\ m_gen = gen

\* A song that plays or is paused has an open stream and an index inside the
\* list (songs[cur_song] is read by the pump, NEXT and the status line).
ActiveSong == m_state # "STOPPED" => m_h # 0 /\ cur_song \in 0..(nsongs - 1)

\* An app that ends and gives the audio back lets the music go on: a song in
\* state PLAYING gets its output again, or stops, or another program claims.
MusicComesBack ==
  (m_state = "PLAYING" /\ ~app_audio)
    ~> (out_on \/ m_state # "PLAYING" \/ app_audio \/ ui = "end")

\* "else the output holds the last sample (DC)" (runtime.c, usb_lost): a music
\* task that stopped and waits for commands has freed the output.
StoppedIsSilent == m_state = "STOPPED" /\ mpc = "wait" => ~out_on

\* "gives it back when the app ends" (sdk/sys.h): in the menu no app has the
\* audio.
AudioGivenBack == ui = "menu" => ~app_audio

=============================================================================
