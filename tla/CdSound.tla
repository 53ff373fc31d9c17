------------------------------ MODULE CdSound ------------------------------
(***************************************************************************)
(* The streamed-music half of the game's sound driver (src/dra/sound.c).   *)
(*                                                                         *)
(* Game code never drives the disc: PlaySfx puts a request into a ring.    *)
(* Once per video frame func_801361F8 turns the requests into commands of  *)
(* a second queue (ExecSoundCommands), checks whether the playing track    *)
(* has run out (func_80133FCC) and runs ONE step of the command at the     *)
(* queue's head (ExecCdSoundCommands).  A command is a coroutine: all of   *)
(* them keep their place in the one g_CdSoundCommandStep, share the flags  *)
(* the callers poll, and wait for the drive by trying the same step again. *)
(*                                                                         *)
(* A frame is  StartFrame ; Request...* ; LoopEnds or NoLoop ; CdFrame,    *)
(* and perhaps Watchdog; PlaySfx and MuteSound come between frames.        *)
(*                                                                         *)
(* Two variables of the code are kept only while they can be read: the     *)
(* track being loaded is forgotten when its command ends, and the slots of *)
(* suspended tracks are the stack of those in use.                         *)
(***************************************************************************)
EXTENDS Integers, Sequences

CONSTANTS
  Music,      \* tracks with an id below 0x40: stage music
  Voice,      \* tracks with an id from 0x40: dialogue
  NoTrack,    \* g_PlayingXaBgmId = 0
  XaMode,     \* unk230 of a track's entry: 0 loop, 1 intro, 2 play once
  Asked,      \* bound: the requests the game makes, of Requests below
  XaNextMode, \* unk230 of the entry after it (an intro's loop)
  MaxSnd,     \* MAX_SND_COUNT, the length of the command queue
  RingBound,  \* bound: requests the game leaves in the ring
  Full,       \* bound: frames a fade takes (full volume, in such units)
  MaxFails    \* frames in a row the drive may refuse (900 in the game loop)

Tracks == Music \cup Voice

ASSUME CdSoundConstants ==
  /\ NoTrack \notin Tracks
  /\ XaMode \in [Tracks -> 0..2] /\ XaNextMode \in [Tracks -> 0..2]
  /\ MaxSnd \in Nat \ {0, 1, 2} /\ RingBound \in Nat \ {0}
  /\ Full \in Nat \ {0} /\ MaxFails \in Nat

VARIABLES
  phase,      \* where in the frame func_801361F8 is
  ring,       \* g_SoundCommandRingBuffer between its two positions
  queue,      \* g_CdSoundCommandQueue[0 .. g_CdSoundCommandQueuePos - 1]
  step,       \* g_CdSoundCommandStep
  busy,       \* D_801390A0: a command has started
  playing,    \* g_PlayingXaBgmId
  queued,     \* g_QueuedXaBgmId: the track START_XA will load
  current,    \* g_CurrentXaConfigId / D_8013845C: the track being loaded,
              \* NoTrack outside the command that loads it
  mode,       \* D_80139014: what happens when the playing track runs out
  saved,      \* D_8013B5F4[0 .. g_CdSoundCommand16 - 1]: suspended tracks
  vol,        \* g_CdVolume
  mvol,       \* g_volumeL, the master volume
  suspending, \* D_8013980C: a suspend or a resume is under way
  fading,     \* D_8013B61C: a fade is under way
  spilled,    \* D_8013AEE8 > 0: the command queue has overflowed
  fails       \* D_80138F7C: frames in a row the drive has refused

game  == <<ring, suspending, fading>>
track == <<playing, queued, current, mode>>
sound == <<vol, mvol>>
vars  == <<phase, game, queue, step, busy, track, saved, sound, spilled, fails>>

Commands == {"FADE_OUT_2", "FADE_OUT_1", "START_XA", "COMMAND_6", "COMMAND_8",
             "COMMAND_10", "COMMAND_12", "START_XA_PLAYBACK", "COMMAND_16"}

\* The ids that PlaySfx puts into the ring.
Requests == Tracks \cup {"SET_STOP_MUSIC", "SET_UNK_80", "SET_UNK_90",
                         "SET_UNK_10", "SET_XA_PLAYBACK", "SET_UNK_12"}


\* The requests other than a track, with the command each one queues.
CommandOf ==
  [SET_STOP_MUSIC  |-> "FADE_OUT_2",        SET_UNK_80 |-> "COMMAND_10",
   SET_UNK_90      |-> "COMMAND_8",         SET_UNK_10 |-> "COMMAND_12",
   SET_XA_PLAYBACK |-> "START_XA_PLAYBACK", SET_UNK_12 |-> "COMMAND_16"]

\* No track has the id of another request.
ASSUME AskedAreRequests ==
  Asked \subseteq Requests /\ (Tracks \cup {NoTrack}) \cap DOMAIN CommandOf = {}

\* The case of each handler that ends its command.  The countdown D_800BD1C4
\* of COMMAND_10's case 3 is written as the steps 3, 4 and 5.
LastStep ==
  [FADE_OUT_2 |-> 3, FADE_OUT_1 |-> 3, START_XA |-> 8, COMMAND_6 |-> 4,
   COMMAND_8 |-> 2, COMMAND_10 |-> 5, COMMAND_12 |-> 4,
   START_XA_PLAYBACK |-> 8, COMMAND_16 |-> 0]

\* The case of each handler that also waits for the seek to end.
SeekStep == [START_XA |-> 7, COMMAND_6 |-> 3, START_XA_PLAYBACK |-> 5]

Slot == [track : Tracks, mode : 0..2]

-----------------------------------------------------------------------------
(* The command queue.                                                      *)

PendingIn(q, c) == \E i \in 1..Len(q) : q[i] = c
Spills(q) == Len(q) + 1 = MaxSnd

\* The overflow throws the running command away too.
PushOverHead(q, c) == IF Spills(q) THEN <<c>> ELSE Append(q, c)
\* A full queue keeps its head and forgets the rest, the new command included.
Push(q, c) == IF Spills(q) THEN <<Head(q)>> ELSE Append(q, c)

\* AddCdSoundCommand for a loop: a suspend in the queue is undone first.
\* Here the command that met the full queue is written again behind the head.
PushResume(q) ==
  IF Spills(q) THEN <<Head(q), "START_XA_PLAYBACK">>
               ELSE Append(q, "START_XA_PLAYBACK")

AddCommand(c) ==
  /\ queue' = Push(queue, c)
  /\ spilled' = (spilled \/ Spills(queue))

AddLoop ==
  IF PendingIn(queue, "COMMAND_12")
    THEN /\ queue' = Push(PushResume(queue), "COMMAND_6")
         /\ spilled' = \/ spilled
                       \/ Spills(queue)
                       \/ Spills(PushResume(queue))
    ELSE AddCommand("COMMAND_6")

-----------------------------------------------------------------------------
(* The game's side.                                                        *)

Init ==
  /\ phase = "game" /\ ring = <<>> /\ queue = <<>> /\ step = 0 /\ busy = FALSE
  /\ playing = NoTrack /\ queued = NoTrack /\ current = NoTrack /\ mode = 0
  /\ saved = <<>> /\ vol = Full /\ mvol = Full
  /\ suspending = FALSE /\ fading = FALSE /\ spilled = FALSE /\ fails = 0

BetweenFrames == phase = "game" /\ fails <= MaxFails

\* PlaySfx(r), any time between two frames: the flag is raised at once, the
\* request itself waits for the frame.
PlaySfx(r) ==
  /\ BetweenFrames /\ Len(ring) < RingBound
  /\ ring' = Append(ring, r)
  /\ suspending' = (suspending \/ r \in {"SET_UNK_10", "SET_XA_PLAYBACK"})
  /\ fading' = (fading \/ r \in {"SET_UNK_80", "SET_UNK_90"})
  /\ UNCHANGED <<phase, queue, step, busy, track, saved, sound, spilled, fails>>

\* MuteSound with InitSoundVars1: what is pending or running is forgotten.
Silence ==
  /\ ring' = <<>> /\ queue' = <<>> /\ step' = 0 /\ busy' = FALSE
  /\ playing' = NoTrack /\ current' = NoTrack /\ mode' = 0 /\ saved' = <<>>
  /\ mvol' = Full
  /\ suspending' = FALSE /\ fading' = FALSE /\ spilled' = FALSE /\ fails' = 0
  /\ UNCHANGED <<queued, vol>>

MuteSound == BetweenFrames /\ Silence /\ UNCHANGED phase

\* The game loop after a frame: a drive that has refused for too long is reset
\* with CdInit and the driver silenced, before anything else happens.
Watchdog ==
  /\ phase = "game" /\ fails > MaxFails
  /\ Silence /\ UNCHANGED phase

StartFrame ==
  /\ BetweenFrames /\ phase' = "exec"
  /\ UNCHANGED <<game, queue, step, busy, track, saved, sound, spilled, fails>>

-----------------------------------------------------------------------------
(* ExecSoundCommands.                                                      *)

\* The track asked for is the one playing: the function returns, and what is
\* left in the ring waits for the next frame.
RequestOfPlaying ==
  /\ phase = "exec" /\ ring # <<>> /\ Head(ring) = playing
  /\ ring' = Tail(ring) /\ phase' = "tick"
  /\ UNCHANGED <<suspending, fading, queue, step, busy, track, saved, sound,
                 spilled, fails>>

RequestTrack ==
  LET faded == IF playing = NoTrack THEN queue ELSE Push(queue, "FADE_OUT_2")
  IN  /\ phase = "exec" /\ ring # <<>>
      /\ Head(ring) \in Tracks \ {playing}
      /\ ring' = Tail(ring)
      /\ queued' = Head(ring)
      /\ queue' = Push(faded, "START_XA")
      /\ spilled' = \/ spilled
                    \/ playing # NoTrack /\ Spills(queue)
                    \/ Spills(faded)
      /\ UNCHANGED <<phase, suspending, fading, step, busy, playing, current,
                     mode, saved, sound, fails>>

RequestCommand ==
  /\ phase = "exec" /\ ring # <<>> /\ Head(ring) \in DOMAIN CommandOf
  /\ ring' = Tail(ring)
  /\ AddCommand(CommandOf[Head(ring)])
  /\ UNCHANGED <<phase, suspending, fading, step, busy, track, saved, sound,
                 fails>>

-----------------------------------------------------------------------------
(* func_80133FCC, once the ring is empty or ExecSoundCommands returned: the *)
(* playing track may have run out.                                         *)

RequestsDone == phase = "tick" \/ (phase = "exec" /\ ring = <<>>)

LoopEnds ==
  /\ RequestsDone /\ phase' = "cd" /\ playing # NoTrack /\ ~busy
  /\ \/ /\ mode = 2
        /\ AddCommand("FADE_OUT_2")
        /\ UNCHANGED <<queued, mode>>
     \/ /\ mode = 1
        /\ queued' = playing
        /\ mode' = XaNextMode[playing]
        /\ UNCHANGED <<queue, spilled>>
     \/ /\ mode = 0
        /\ queued' = playing
        /\ AddLoop
        /\ UNCHANGED mode
  /\ UNCHANGED <<game, step, busy, playing, current, saved, sound, fails>>

NoLoop ==
  /\ RequestsDone /\ phase' = "cd"
  /\ UNCHANGED <<game, queue, step, busy, track, saved, sound, spilled, fails>>

-----------------------------------------------------------------------------
(* One frame of the command at the head.  a is the drive's answer to       *)
(* DoCdCommand: "done", "refused" (busy, shell open, seek error), or, in a *)
(* SeekStep, "seeking": the command went through, the head still moves.    *)

Answers == {"done", "seeking", "refused"}

Running(c) == queue # <<>> /\ Head(queue) = c

\* DoCdCommand as the last thing of case s, then func_80131FCC.
Drive(s, a) ==
  /\ a = "seeking" => /\ Head(queue) \in DOMAIN SeekStep
                      /\ s = SeekStep[Head(queue)]
  /\ step' = IF a = "done" THEN s + 1 ELSE s
  /\ fails' = IF a = "refused" THEN fails + 1 ELSE 0

\* A frame in which the command does not talk to the drive.
NoDrive(a) == a = "done" /\ fails' = 0

Advance == queue' = Tail(queue) /\ UNCHANGED <<step, busy, spilled>>
Finish  == queue' = Tail(queue) /\ step' = 0 /\ busy' = FALSE /\ UNCHANGED spilled

\* The command goes on to case s.
Goto(s) == step' = s /\ busy' = TRUE /\ UNCHANGED <<queue, spilled>>
Retry   == UNCHANGED <<queue, busy, spilled>>

Lower(v) == IF v = 0 THEN 0 ELSE v - 1

\* CdSoundCommand4.
StartXa(a) ==
  /\ Running("START_XA")
  /\ \/ /\ step = 0
        /\ Drive(1, a)
        /\ busy' = TRUE /\ current' = queued /\ vol' = Full
        /\ saved' = IF queued \in Music THEN <<>> ELSE saved
        /\ UNCHANGED <<queue, spilled, playing, mode>>
     \/ /\ step \in 1..7
        /\ Drive(IF step \in {2, 4} THEN step + 1 ELSE step, a)
        /\ mode' = IF step = 4 THEN XaMode[current] ELSE mode
        /\ Retry /\ UNCHANGED <<playing, current, saved, vol>>
     \/ /\ step \notin 0..7
        /\ NoDrive(a) /\ Finish
        /\ playing' = IF step = 8 THEN current ELSE playing
        /\ current' = NoTrack
        /\ UNCHANGED <<mode, saved, vol>>
  /\ UNCHANGED <<queued, mvol, suspending, fading>>

\* CdSoundCommand6: seek to where the track's loop begins.
SeekLoop(a) ==
  /\ Running("COMMAND_6")
  /\ \/ /\ step = 0
        /\ Drive(1, a)
        /\ busy' = TRUE /\ current' = queued
        /\ UNCHANGED <<queue, spilled, playing>>
     \/ /\ step \in 1..3
        /\ Drive(step, a)
        /\ Retry /\ UNCHANGED <<playing, current>>
     \/ /\ step \notin 0..3
        /\ NoDrive(a) /\ Finish
        /\ playing' = IF step = 4 THEN current ELSE playing
        /\ current' = NoTrack
  /\ UNCHANGED <<queued, mode, saved, sound, suspending, fading>>

\* No track to stop, so the master volume is left alone.
MasterLeft(c) == mvol
\* CdFadeOut1 restores the master volume that COMMAND_10 took down.
MasterAfter(c) == IF c = "FADE_OUT_1" THEN Full ELSE mvol

\* CdFadeOut1 and CdFadeOut2.
FadeOut(c, a) ==
  /\ Running(c)
  /\ \/ /\ step = 0 /\ playing = NoTrack
        /\ NoDrive(a) /\ Advance
        /\ mvol' = MasterAfter(c)
        /\ UNCHANGED <<playing, vol>>
     \/ /\ step = 0 /\ playing # NoTrack
        /\ NoDrive(a)
        /\ vol' = Lower(vol)
        /\ Goto(IF vol' = 0 THEN 1 ELSE 0)
        /\ UNCHANGED <<playing, mvol>>
     \/ /\ step \in 1..2
        /\ Drive(2, a)
        /\ Retry /\ UNCHANGED <<playing, vol, mvol>>
     \/ /\ step \notin 0..2
        /\ NoDrive(a) /\ Finish
        /\ playing' = IF step = 3 THEN NoTrack ELSE playing
        /\ mvol' = IF step = 3 THEN MasterAfter(c) ELSE mvol
        /\ UNCHANGED vol
  /\ UNCHANGED <<queued, current, mode, saved, suspending, fading>>

\* The last frame of the fade leaves the flag raised.
FadeEndsUntold == queue' = Tail(Push(queue, "FADE_OUT_2"))
                  /\ spilled' = (spilled \/ Spills(queue))
                  /\ step' = 0 /\ busy' = FALSE /\ UNCHANGED fading
\* The last frame of the fade leaves the step for the next command.
FadeEndsMidway == queue' = Tail(Push(queue, "FADE_OUT_2"))
                  /\ spilled' = (spilled \/ Spills(queue))
                  /\ fading' = FALSE /\ busy' = FALSE /\ UNCHANGED step
\* The last frame of COMMAND_8: the silent track is to be stopped for good.
FadeEnds ==
  /\ queue' = Tail(Push(queue, "FADE_OUT_2"))
  /\ spilled' = (spilled \/ Spills(queue))
  /\ fading' = FALSE /\ step' = 0 /\ busy' = FALSE

\* CdSoundCommand8: fade the streamed track out.
FadeXa(a) ==
  /\ Running("COMMAND_8") /\ NoDrive(a)
  /\ \/ step = 0 /\ Goto(1) /\ UNCHANGED <<vol, fading>>
     \/ /\ step = 1
        /\ vol' = Lower(vol)
        /\ Goto(IF vol' = 0 THEN 2 ELSE 1)
        /\ UNCHANGED fading
     \/ step \notin 0..1 /\ FadeEnds /\ UNCHANGED vol
  /\ UNCHANGED <<track, saved, mvol, suspending>>

\* CdSoundCommand10: fade everything out, by the master volume.
FadeAll(a) ==
  /\ Running("COMMAND_10") /\ NoDrive(a)
  /\ \/ step = 0 /\ Goto(1) /\ UNCHANGED <<mvol, fading>>
     \/ /\ step = 1
        /\ mvol' = Lower(mvol)
        /\ Goto(IF mvol' = 0 THEN 2 ELSE 1)
        /\ UNCHANGED fading
     \/ /\ step = 2
        /\ AddCommand("FADE_OUT_1")
        /\ step' = 3
        /\ UNCHANGED <<busy, mvol, fading>>
     \/ step \in 3..4 /\ Goto(step + 1) /\ UNCHANGED <<mvol, fading>>
     \/ step \notin 0..4 /\ Finish /\ fading' = FALSE /\ UNCHANGED mvol
  /\ UNCHANGED <<track, saved, vol, suspending>>

\* A third suspend goes on with the two slots in use.
SlotsInUse == saved
\* With both slots in use a suspend starts again from the first one.
SlotsToKeep == IF Len(saved) >= 2 THEN <<>> ELSE saved

\* Nothing to suspend, and the caller is not told.
NothingSuspended == Advance /\ UNCHANGED suspending
\* Nothing to suspend or to resume: the command is dropped, the flag lowered.
NothingToDo == Advance /\ suspending' = FALSE

\* CdSoundCommand12: suspend the playing track.  Its slot is written in case 3
\* and counted in case 4.
Suspend(a) ==
  /\ Running("COMMAND_12")
  /\ \/ /\ step = 0
        /\ NoDrive(a)
        /\ saved' = SlotsToKeep
        /\ IF playing = NoTrack THEN NothingToDo
                                ELSE Goto(1) /\ UNCHANGED suspending
        /\ UNCHANGED <<vol, playing>>
     \/ /\ step = 1
        /\ NoDrive(a)
        /\ vol' = Lower(vol)
        /\ Goto(IF vol' = 0 THEN 2 ELSE 1)
        /\ UNCHANGED <<saved, playing, suspending>>
     \/ /\ step \in 2..3
        /\ Drive(step, a) /\ Retry
        /\ UNCHANGED <<saved, vol, playing, suspending>>
     \/ /\ step \notin 0..3
        /\ NoDrive(a) /\ Finish
        /\ suspending' = FALSE
        /\ IF step = 4
             THEN /\ saved' = Append(saved, [track |-> playing, mode |-> mode])
                  /\ playing' = NoTrack
             ELSE UNCHANGED <<saved, playing>>
        /\ UNCHANGED vol
  /\ UNCHANGED <<queued, current, mode, mvol, fading>>

\* CdSoundStartXaPlayback does nothing.
CannotResume == Len(saved) \notin 1..2 \/ playing # NoTrack

\* CdSoundStartXaPlayback: resume the track suspended last.
Resume(a) ==
  /\ Running("START_XA_PLAYBACK")
  /\ \/ /\ step = 0 /\ CannotResume
        /\ NoDrive(a) /\ NothingToDo
        /\ UNCHANGED <<playing, mode, saved, vol>>
     \/ /\ step = 0 /\ ~CannotResume
        /\ NoDrive(a) /\ Goto(1)
        /\ playing' = saved[Len(saved)].track /\ vol' = 0
        /\ UNCHANGED <<mode, saved, suspending>>
     \/ /\ step \in 1..5
        /\ Drive(step, a)
        /\ Retry /\ UNCHANGED <<playing, mode, saved, vol, suspending>>
     \/ /\ step = 6
        /\ NoDrive(a) /\ Goto(7)
        /\ mode' = saved[Len(saved)].mode
        /\ UNCHANGED <<playing, saved, vol, suspending>>
     \/ /\ step = 7
        /\ NoDrive(a)
        /\ vol' = IF vol < Full THEN vol + 1 ELSE Full
        /\ Goto(IF vol' = Full THEN 8 ELSE 7)
        /\ UNCHANGED <<playing, mode, saved, suspending>>
     \/ /\ step \notin 0..7
        /\ NoDrive(a) /\ Finish
        /\ suspending' = FALSE
        /\ saved' = IF step = 8 THEN SubSeq(saved, 1, Len(saved) - 1) ELSE saved
        /\ UNCHANGED <<playing, mode, vol>>
  /\ UNCHANGED <<queued, current, mvol, fading>>

\* COMMAND_16: forget the suspended tracks.
ForgetSaves(a) ==
  /\ Running("COMMAND_16") /\ NoDrive(a) /\ Advance
  /\ saved' = <<>>
  /\ UNCHANGED <<track, sound, suspending, fading>>

Idle(a) ==
  /\ queue = <<>> /\ NoDrive(a)
  /\ UNCHANGED <<queue, step, busy, spilled, track, saved, sound, suspending,
                 fading>>

CdFrame(a) ==
  /\ phase = "cd" /\ phase' = "game" /\ UNCHANGED ring
  /\ \/ StartXa(a) \/ SeekLoop(a)
     \/ FadeOut("FADE_OUT_1", a) \/ FadeOut("FADE_OUT_2", a)
     \/ FadeXa(a) \/ FadeAll(a)
     \/ Suspend(a) \/ Resume(a) \/ ForgetSaves(a)
     \/ Idle(a)

-----------------------------------------------------------------------------

Frame ==
  \/ StartFrame
  \/ RequestOfPlaying \/ RequestTrack \/ RequestCommand
  \/ LoopEnds \/ NoLoop
  \/ \E a \in Answers : CdFrame(a)
  \/ Watchdog

Next == (\E r \in Asked : PlaySfx(r)) \/ MuteSound \/ Frame

Seeking == queue # <<>> /\ Head(queue) \in DOMAIN SeekStep
           /\ step = SeekStep[Head(queue)]

\* Frames go on, and a seek does not last for ever.  Nothing is assumed of a
\* drive that refuses commands: that is what the watchdog is for.
Fairness == WF_vars(Frame) /\ SF_vars(Seeking /\ CdFrame("done"))

Spec == Init /\ [][Next]_vars /\ Fairness

-----------------------------------------------------------------------------

\* Every variable stays within what the C declarations and tables allow.
TypeOK ==
  /\ phase \in {"game", "exec", "tick", "cd"}
  /\ ring \in Seq(Requests) /\ Len(ring) <= RingBound
  /\ queue \in Seq(Commands) /\ Len(queue) < MaxSnd
  /\ step \in 0..8 /\ busy \in BOOLEAN
  /\ playing \in Tracks \cup {NoTrack}
  /\ queued \in Tracks \cup {NoTrack} /\ current \in Tracks \cup {NoTrack}
  /\ mode \in 0..2
  /\ saved \in Seq(Slot)
  /\ vol \in 0..Full /\ mvol \in 0..Full
  /\ suspending \in BOOLEAN /\ fading \in BOOLEAN /\ spilled \in BOOLEAN
  /\ fails \in 0..MaxFails + 1

\* Nine handlers share one step counter: whatever order requests, loop ends,
\* overflows and resets come in, the counter stands at a case of the command
\* at the head, never at another's, where `default` would give up the command.
StepIsOfTheHead ==
  /\ step # 0 => busy
  /\ busy => queue # <<>> /\ step \in 0..LastStep[Head(queue)]

\* A command that has started keeps the head of the queue until it ends:
\* AddCdSoundCommand's overflow empties the queue behind it, never under it.
RunningCommandStays ==
  [][busy /\ busy' => Head(queue') = Head(queue)]_vars

\* Suspend and resume stay within D_8013B5F4[2] however they are nested, also
\* with the starts that empty the stack between them, and while a resume runs
\* the track it brings back is the one suspended last.
SavedTracks ==
  /\ Len(saved) <= 2
  /\ Running("COMMAND_12") /\ step # 0 => Len(saved) < 2
  /\ Running("START_XA_PLAYBACK") /\ step # 0
       => Len(saved) > 0 /\ playing = saved[Len(saved)].track

\* COMMAND_10 takes the master volume down and leaves it to a FADE_OUT_1 far
\* back in the queue: unless the queue overflowed, that command is pending.
MasterVolumeComesBack ==
  \/ mvol = Full
  \/ Running("COMMAND_10")
  \/ PendingIn(queue, "FADE_OUT_1")
  \/ spilled

\* The request, or the command it becomes, is still to come.
Coming(r) == PendingIn(ring, r) \/ PendingIn(queue, CommandOf[r])

\* No caller that waits is forgotten: as long as the flag of a suspend or a
\* resume is up (func_80133950), or that of a fade (func_80131F68), a command
\* that lowers it is on its way, however the commands around it end, restart
\* each other or are silenced, unless the command queue has overflowed.
WaitersAreServed ==
  /\ suspending => spilled \/ Coming("SET_UNK_10") \/ Coming("SET_XA_PLAYBACK")
  /\ fading => spilled \/ Coming("SET_UNK_80") \/ Coming("SET_UNK_90")

\* A caller that waits for func_80133950 after a suspend or a resume does not
\* wait for ever, though the drive may refuse every command, unless the
\* command queue has overflowed.
SuspendEnds == suspending ~> (~suspending \/ spilled)

\* The same of a fade and the callers that wait for func_80131F68.
FadeIsOver == fading ~> (~fading \/ spilled)
=============================================================================
