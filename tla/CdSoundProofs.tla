---------------------------- MODULE CdSoundProofs ----------------------------
(***************************************************************************)
(* The safety of the CD sound driver, for any tracks, lengths of the two   *)
(* queues, fades and refusals.  A command keeps the head of the queue from *)
(* its first case to its last, so what it has set up is still there when   *)
(* its next case runs.                                                     *)
(***************************************************************************)
EXTENDS CdSound, SequenceTheorems, TLAPS

\* There is a track to load for the commands that load one.
TrackInv ==
  /\ PendingIn(queue, "START_XA") \/ PendingIn(queue, "COMMAND_6") => queued \in Tracks
  /\ busy /\ (Running("START_XA") \/ Running("COMMAND_6")) => current \in Tracks

\* Only a command that may repeat its first case is started and still in it:
\* the others, which the queue may drop there, have not started.  A suspend
\* that has started has a track to suspend.
StartedInv ==
  /\ busy /\ step = 0 =>
       \/ Running("START_XA") \/ Running("COMMAND_6")
       \/ (Running("FADE_OUT_1") \/ Running("FADE_OUT_2")) /\ playing # NoTrack
  /\ Running("COMMAND_12") /\ step # 0 => playing # NoTrack

\* COMMAND_10 leaves behind the command that brings the volume back.
VolumeInv ==
  Running("COMMAND_10") /\ step > 2 =>
    mvol = Full \/ PendingIn(queue, "FADE_OUT_1") \/ spilled

\* The watchdog looks after every frame.
FailsInv == phase # "game" => fails <= MaxFails

IInv == /\ TypeOK /\ StepIsOfTheHead /\ SavedTracks /\ MasterVolumeComesBack
        /\ TrackInv /\ StartedInv /\ VolumeInv /\ FailsInv

-----------------------------------------------------------------------------
(* The command queue. *)

\* Taking the head off keeps every other command.
LEMMA TailKeeps ==
  ASSUME NEW q \in Seq(Commands), q # <<>>
  PROVE  /\ Head(q) \in Commands /\ Tail(q) \in Seq(Commands)
         /\ Len(Tail(q)) = Len(q) - 1
         /\ \A c : PendingIn(Tail(q), c) => PendingIn(q, c)
         /\ \A c : PendingIn(q, c) /\ Head(q) # c => PendingIn(Tail(q), c)
<1>1. /\ Head(q) \in Commands /\ Tail(q) \in Seq(Commands)
      /\ Len(Tail(q)) = Len(q) - 1
      /\ \A i \in 1..Len(Tail(q)) : Tail(q)[i] = q[i + 1]
  BY HeadTailProperties, Zenon
<1>2. Len(q) \in Nat /\ Len(q) > 0 /\ Head(q) = q[1]
  BY EmptySeq, LenProperties
<1>3. ASSUME NEW c, PendingIn(Tail(q), c) PROVE PendingIn(q, c)
  <2>1. PICK i \in 1..Len(Tail(q)) : Tail(q)[i] = c
    BY <1>3 DEF PendingIn
  <2> QED BY <1>1, <1>2, <2>1 DEF PendingIn
<1>4. ASSUME NEW c, PendingIn(q, c), Head(q) # c PROVE PendingIn(Tail(q), c)
  <2>1. PICK i \in 1..Len(q) : q[i] = c
    BY <1>4 DEF PendingIn
  <2>2. i - 1 \in 1..Len(Tail(q)) /\ Tail(q)[i - 1] = q[i]
    BY <1>1, <1>2, <1>4, <2>1
  <2> QED BY <2>1, <2>2 DEF PendingIn
<1> QED BY <1>1, <1>3, <1>4

\* A queue that is not full keeps what it holds; a full one keeps its head.
LEMMA PushKeeps ==
  ASSUME NEW q \in Seq(Commands), Len(q) < MaxSnd, NEW c \in Commands
  PROVE  /\ Push(q, c) \in Seq(Commands)
         /\ Push(q, c) # <<>> /\ Len(Push(q, c)) < MaxSnd
         /\ q # <<>> => Head(Push(q, c)) = Head(q)
         /\ q = <<>> => Head(Push(q, c)) = c
         /\ \A x : PendingIn(Push(q, c), x) => PendingIn(q, x) \/ x = c
         /\ \A x : PendingIn(q, x) => PendingIn(Push(q, c), x) \/ Spills(q)
         /\ PendingIn(Push(q, c), c) \/ Spills(q)
<1>1. Len(q) \in Nat /\ (q # <<>> <=> Len(q) > 0)
  BY EmptySeq, LenProperties
<1>2. CASE Spills(q)
  <2>1. Len(q) > 0 /\ Push(q, c) = <<Head(q)>>
    BY <1>1, <1>2, CdSoundConstants DEF Spills, Push
  <2>2. Head(q) \in Commands /\ Head(q) = q[1]
    BY <1>1, <2>1, HeadTailProperties
  <2>3. /\ <<Head(q)>> \in Seq(Commands) /\ Len(<<Head(q)>>) = 1
        /\ <<Head(q)>>[1] = Head(q) /\ Head(<<Head(q)>>) = Head(q)
    BY <2>2
  <2>4. \A x : PendingIn(<<Head(q)>>, x) => PendingIn(q, x)
    BY <1>1, <2>1, <2>2, <2>3 DEF PendingIn
  <2> QED BY <1>1, <1>2, <2>1, <2>3, <2>4, CdSoundConstants
<1>3. CASE ~Spills(q)
  <2>1. Push(q, c) = Append(q, c) /\ Len(q) + 1 < MaxSnd
    BY <1>1, <1>3, CdSoundConstants DEF Spills, Push
  <2>2. /\ Append(q, c) \in Seq(Commands) /\ Len(Append(q, c)) = Len(q) + 1
        /\ \A i \in 1..Len(q) : Append(q, c)[i] = q[i]
        /\ Append(q, c)[Len(q) + 1] = c
    BY <1>1
  <2>3. Append(q, c) # <<>> /\ Head(Append(q, c)) = Append(q, c)[1]
    BY <1>1, <2>2, EmptySeq
  <2>4. (q # <<>> => Head(Append(q, c)) = Head(q)) /\ (q = <<>> => Head(Append(q, c)) = c)
    BY <1>1, <2>2, <2>3
  <2>5. \A x : PendingIn(Append(q, c), x) => PendingIn(q, x) \/ x = c
    BY <1>1, <2>2 DEF PendingIn
  <2>6. (\A x : PendingIn(q, x) => PendingIn(Append(q, c), x)) /\ PendingIn(Append(q, c), c)
    BY <1>1, <2>2 DEF PendingIn
  <2> QED BY <2>1, <2>2, <2>3, <2>4, <2>5, <2>6
<1> QED BY <1>2, <1>3

\* The same of the resume that goes before a loop.
LEMMA PushResumeKeeps ==
  ASSUME NEW q \in Seq(Commands), Len(q) < MaxSnd, q # <<>>
  PROVE  /\ PushResume(q) \in Seq(Commands)
         /\ PushResume(q) # <<>> /\ Len(PushResume(q)) < MaxSnd
         /\ Head(PushResume(q)) = Head(q)
         /\ \A x : PendingIn(PushResume(q), x) => PendingIn(q, x) \/ x = "START_XA_PLAYBACK"
         /\ \A x : PendingIn(q, x) => PendingIn(PushResume(q), x) \/ Spills(q)
<1>1. "START_XA_PLAYBACK" \in Commands
  BY DEF Commands
<1>2. CASE ~Spills(q)
  BY <1>1, <1>2, PushKeeps DEF Push, PushResume
<1>3. CASE Spills(q)
  <2>1. PushResume(q) = <<Head(q), "START_XA_PLAYBACK">>
    BY <1>3 DEF PushResume
  <2>2. Len(q) \in Nat /\ Len(q) > 0 /\ Head(q) = q[1] /\ Head(q) \in Commands
    BY EmptySeq, LenProperties, HeadTailProperties
  <2>3. /\ PushResume(q) \in Seq(Commands) /\ Len(PushResume(q)) = 2
        /\ PushResume(q)[1] = Head(q) /\ PushResume(q)[2] = "START_XA_PLAYBACK"
        /\ PushResume(q) # <<>> /\ Head(PushResume(q)) = Head(q)
    BY <1>1, <2>1, <2>2
  <2>4. \A x : PendingIn(PushResume(q), x) => PendingIn(q, x) \/ x = "START_XA_PLAYBACK"
    BY <2>1, <2>2, <2>3 DEF PendingIn
  <2> QED BY <1>3, <2>1, <2>2, <2>3, <2>4, CdSoundConstants
<1> QED BY <1>2, <1>3

-----------------------------------------------------------------------------
(* Steps between two steps of the command at the head. *)

\* The initial state satisfies the invariant.
LEMMA InitIInv == Init => IInv
<1> SUFFICES ASSUME Init PROVE IInv
  OBVIOUS
<1>1. Len(queue) = 0 /\ queue \in Seq(Commands) /\ ring \in Seq(Requests) /\ Len(ring) = 0
      /\ saved \in Seq(Slot) /\ Len(saved) = 0
  BY EmptySeq DEF Init
<1>2. \A c : ~PendingIn(queue, c) /\ ~Running(c)
  BY <1>1 DEF Init, PendingIn, Running
<1>3. /\ busy \in BOOLEAN /\ suspending \in BOOLEAN /\ fading \in BOOLEAN /\ spilled \in BOOLEAN
  BY DEF Init
<1>4. TypeOK
  BY <1>1, <1>3, CdSoundConstants DEF Init, TypeOK
<1>5. StepIsOfTheHead /\ StartedInv
  BY DEF Init, StepIsOfTheHead, StartedInv
<1>6. SavedTracks
  BY <1>1, <1>2 DEF SavedTracks
<1>7. MasterVolumeComesBack /\ TrackInv /\ VolumeInv /\ FailsInv
  BY <1>2 DEF Init, MasterVolumeComesBack, TrackInv, VolumeInv, FailsInv
<1> QED BY <1>4, <1>5, <1>6, <1>7 DEF IInv

\* What is said of the command at the head survives any change of the queue
\* that leaves a head alone.
LEMMA HeadStays ==
  ASSUME IInv, queue # <<>> => queue' # <<>> /\ Head(queue') = Head(queue),
         UNCHANGED <<step, busy, playing, current, saved>>
  PROVE  /\ StepIsOfTheHead' /\ SavedTracks' /\ StartedInv'
         /\ busy' /\ (Running("START_XA") \/ Running("COMMAND_6"))' => current' \in Tracks
         /\ busy' /\ busy => Head(queue') = Head(queue)
<1>1. busy => queue # <<>>
  BY DEF IInv, StepIsOfTheHead
<1>2. ASSUME busy, NEW c PROVE Running(c)' = Running(c)
  BY <1>1, <1>2 DEF Running
<1>3. step # 0 => busy
  BY DEF IInv, StepIsOfTheHead
<1>4. StepIsOfTheHead'
  BY <1>1 DEF IInv, StepIsOfTheHead
<1>5. SavedTracks'
  BY <1>2, <1>3 DEF IInv, SavedTracks
<1>6. StartedInv'
  BY <1>2, <1>3 DEF IInv, StartedInv
<1>7. busy' /\ (Running("START_XA") \/ Running("COMMAND_6"))' => current' \in Tracks
  BY <1>2 DEF IInv, TrackInv
<1> QED BY <1>1, <1>4, <1>5, <1>6, <1>7

\* A command that stays pending, or is lost with an overflow, keeps the promise
\* about the master volume.
LEMMA VolumeStays ==
  ASSUME IInv, queue # <<>> => queue' # <<>> /\ Head(queue') = Head(queue),
         PendingIn(queue, "FADE_OUT_1") \/ spilled
            => PendingIn(queue', "FADE_OUT_1") \/ spilled',
         UNCHANGED <<step, mvol>>
  PROVE  MasterVolumeComesBack' /\ VolumeInv'
<1>1. step \in 0..8 /\ (step > 2 => queue # <<>>)
  BY DEF IInv, TypeOK, StepIsOfTheHead
<1>2. queue # <<>> => Running("COMMAND_10")' = Running("COMMAND_10")
  BY DEF Running
<1>3. VolumeInv'
  BY <1>1, <1>2 DEF IInv, VolumeInv
<1>4. Running("COMMAND_10") => Running("COMMAND_10")'
  BY DEF Running
<1> QED BY <1>3, <1>4 DEF IInv, MasterVolumeComesBack

\* What a request, a loop or a mere frame must do to keep the invariant.
LEMMA GameIInv ==
  ASSUME IInv, UNCHANGED <<step, busy, playing, current, saved, mvol>>,
         phase' \in {"game", "exec", "tick", "cd"}, phase' # "game" => fails <= MaxFails,
         ring' \in Seq(Requests), Len(ring') <= RingBound,
         queue' \in Seq(Commands), Len(queue') < MaxSnd,
         queue # <<>> => queue' # <<>> /\ Head(queue') = Head(queue),
         queued' \in Tracks \cup {NoTrack},
         PendingIn(queue', "START_XA") \/ PendingIn(queue', "COMMAND_6") => queued' \in Tracks,
         mode' \in 0..2, vol' = vol, fails' = fails,
         suspending' \in BOOLEAN, fading' \in BOOLEAN, spilled' \in BOOLEAN,
         PendingIn(queue, "FADE_OUT_1") \/ spilled
            => PendingIn(queue', "FADE_OUT_1") \/ spilled'
  PROVE  IInv'
<1>1. busy' \in BOOLEAN
  BY DEF IInv, TypeOK
<1>2. TypeOK'
  BY <1>1 DEF IInv, TypeOK
<1>3. StepIsOfTheHead' /\ SavedTracks' /\ StartedInv'
      /\ (busy' /\ (Running("START_XA") \/ Running("COMMAND_6"))' => current' \in Tracks)
  BY HeadStays
<1>4. TrackInv'
  BY <1>3 DEF TrackInv
<1>5. MasterVolumeComesBack' /\ VolumeInv'
  BY VolumeStays
<1> QED BY <1>2, <1>3, <1>4, <1>5 DEF IInv, FailsInv

\* PlaySfx and the start of a frame do not touch the command queue.
LEMMA PlaySfxIInv == ASSUME IInv, NEW r \in Requests, PlaySfx(r) PROVE IInv'
<1>1. ring' \in Seq(Requests) /\ Len(ring') <= RingBound
  BY CdSoundConstants DEF PlaySfx, IInv, TypeOK
<1>2. suspending' \in BOOLEAN /\ fading' \in BOOLEAN /\ spilled' \in BOOLEAN
  BY DEF PlaySfx, IInv, TypeOK
<1>3. /\ UNCHANGED <<step, busy, playing, current, saved, mvol, phase, queue, queued, mode, vol, fails, spilled>>
  BY DEF PlaySfx, track, sound
<1> QED BY <1>1, <1>2, <1>3, GameIInv DEF IInv, TypeOK, TrackInv, FailsInv

\* Without a change to the command queue, a frame may begin or go on.
LEMMA PassIInv ==
  ASSUME IInv, StartFrame \/ NoLoop \/ RequestOfPlaying PROVE IInv'
<1>1. UNCHANGED <<step, busy, playing, current, saved, mvol, queue, queued, mode, vol, fails,
                  suspending, fading, spilled>>
  BY DEF StartFrame, NoLoop, RequestOfPlaying, track, sound, game
<1>2. ring' \in Seq(Requests) /\ Len(ring') <= RingBound
  <2>1. CASE ring' = ring
    BY <2>1 DEF IInv, TypeOK
  <2>2. CASE ring # <<>> /\ ring' = Tail(ring)
    BY <2>2, HeadTailProperties, CdSoundConstants DEF IInv, TypeOK
  <2> QED BY <2>1, <2>2 DEF StartFrame, NoLoop, RequestOfPlaying, game
<1>3. phase' \in {"game", "exec", "tick", "cd"} /\ fails <= MaxFails
  BY DEF StartFrame, NoLoop, RequestOfPlaying, BetweenFrames, RequestsDone, IInv, FailsInv
<1>4. suspending' \in BOOLEAN /\ fading' \in BOOLEAN /\ spilled' \in BOOLEAN
  BY <1>1 DEF IInv, TypeOK
<1> QED BY <1>1, <1>2, <1>3, <1>4, GameIInv DEF IInv, TypeOK, TrackInv

\* A reset leaves nothing to be kept.
LEMMA SilenceIInv == ASSUME IInv, Silence, phase' = phase PROVE IInv'
<1>1. Len(queue') = 0 /\ queue' \in Seq(Commands) /\ ring' \in Seq(Requests) /\ Len(ring') = 0
      /\ saved' \in Seq(Slot) /\ Len(saved') = 0
  BY EmptySeq DEF Silence
<1>2. \A c : ~PendingIn(queue', c) /\ ~Running(c)'
  BY <1>1 DEF Silence, PendingIn, Running
<1>3. /\ busy' \in BOOLEAN /\ suspending' \in BOOLEAN /\ fading' \in BOOLEAN /\ spilled' \in BOOLEAN
  BY DEF Silence
<1>4. TypeOK'
  BY <1>1, <1>3, CdSoundConstants DEF Silence, IInv, TypeOK
<1>5. StepIsOfTheHead' /\ StartedInv'
  BY DEF Silence, StepIsOfTheHead, StartedInv
<1>6. SavedTracks'
  BY <1>1, <1>2 DEF SavedTracks
<1>7. MasterVolumeComesBack' /\ TrackInv' /\ VolumeInv' /\ FailsInv'
  BY <1>2, CdSoundConstants DEF Silence, MasterVolumeComesBack, TrackInv, VolumeInv, FailsInv
<1> QED BY <1>4, <1>5, <1>6, <1>7 DEF IInv

\* ExecSoundCommands queues the command that a request stands for.
LEMMA RequestCommandIInv == ASSUME IInv, RequestCommand PROVE IInv'
<1> DEFINE c == CommandOf[Head(ring)]
<1>1. c \in Commands \ {"START_XA", "COMMAND_6"}
  BY DEF RequestCommand, CommandOf, Commands
<1>2. queue' = Push(queue, c) /\ spilled' = (spilled \/ Spills(queue))
  BY DEF RequestCommand, AddCommand
<1>3. ring' \in Seq(Requests) /\ Len(ring') <= RingBound
  BY HeadTailProperties, CdSoundConstants DEF RequestCommand, IInv, TypeOK
<1>4. UNCHANGED <<step, busy, playing, current, saved, mvol, phase, queued, mode, vol, fails,
                  suspending, fading>>
  BY DEF RequestCommand, track, sound
<1>5. suspending' \in BOOLEAN /\ fading' \in BOOLEAN /\ spilled' \in BOOLEAN
  BY <1>2, <1>4 DEF IInv, TypeOK
<1> HIDE DEF c
<1>6. /\ queue' \in Seq(Commands) /\ Len(queue') < MaxSnd
      /\ queue # <<>> => queue' # <<>> /\ Head(queue') = Head(queue)
      /\ \A x : PendingIn(queue', x) => PendingIn(queue, x) \/ x = c
      /\ \A x : PendingIn(queue, x) => PendingIn(queue', x) \/ Spills(queue)
  BY <1>1, <1>2, PushKeeps DEF IInv, TypeOK
<1>7. PendingIn(queue, "FADE_OUT_1") \/ spilled => PendingIn(queue', "FADE_OUT_1") \/ spilled'
  BY <1>2, <1>6
<1>8. PendingIn(queue', "START_XA") \/ PendingIn(queue', "COMMAND_6") => queued' \in Tracks
  BY <1>1, <1>4, <1>6 DEF IInv, TrackInv
<1> QED BY <1>3, <1>4, <1>5, <1>6, <1>7, <1>8, GameIInv DEF IInv, TypeOK, FailsInv

\* A track is loaded after the one that plays has been faded out.
LEMMA RequestTrackIInv == ASSUME IInv, RequestTrack PROVE IInv'
<1> DEFINE faded == IF playing = NoTrack THEN queue ELSE Push(queue, "FADE_OUT_2")
<1>1. "FADE_OUT_2" \in Commands /\ "START_XA" \in Commands
  BY DEF Commands
<1>2. /\ queue' = Push(faded, "START_XA") /\ queued' = Head(ring) /\ queued' \in Tracks
      /\ spilled' = (spilled \/ (playing # NoTrack /\ Spills(queue)) \/ Spills(faded))
      /\ ring # <<>> /\ ring' = Tail(ring)
  BY DEF RequestTrack
<1>3. ring' \in Seq(Requests) /\ Len(ring') <= RingBound
  BY <1>2, HeadTailProperties, CdSoundConstants DEF IInv, TypeOK
<1>4. UNCHANGED <<step, busy, playing, current, saved, mvol, phase, mode, vol, fails,
                  suspending, fading>>
  BY DEF RequestTrack, sound
<1>5. suspending' \in BOOLEAN /\ fading' \in BOOLEAN /\ spilled' \in BOOLEAN
  BY <1>2, <1>4 DEF IInv, TypeOK
<1>6. /\ faded \in Seq(Commands) /\ Len(faded) < MaxSnd
      /\ queue # <<>> => faded # <<>> /\ Head(faded) = Head(queue)
      /\ \A x : PendingIn(queue, x) => PendingIn(faded, x)
                                         \/ (playing # NoTrack /\ Spills(queue))
  BY <1>1, PushKeeps DEF IInv, TypeOK
<1> HIDE DEF faded
<1>7. /\ queue' \in Seq(Commands) /\ Len(queue') < MaxSnd
      /\ queue # <<>> => queue' # <<>> /\ Head(queue') = Head(queue)
      /\ \A x : PendingIn(faded, x) => PendingIn(queue', x) \/ Spills(faded)
  BY <1>1, <1>2, <1>6, PushKeeps
<1>8. PendingIn(queue, "FADE_OUT_1") \/ spilled => PendingIn(queue', "FADE_OUT_1") \/ spilled'
  BY <1>2, <1>6, <1>7
<1> QED BY <1>2, <1>3, <1>4, <1>5, <1>7, <1>8, GameIInv DEF IInv, TypeOK, FailsInv

\* A track that runs out is stopped, goes on with its loop, or starts again;
\* a suspend in the queue is undone first.
LEMMA LoopEndsIInv == ASSUME IInv, LoopEnds PROVE IInv'
<1>1. "FADE_OUT_2" \in Commands /\ "COMMAND_6" \in Commands /\ "START_XA_PLAYBACK" \in Commands
  BY DEF Commands
<1>2. /\ UNCHANGED <<step, busy, playing, current, saved, mvol, vol, fails, ring, suspending, fading>>
      /\ phase' = "cd" /\ playing \in Tracks /\ fails <= MaxFails
  BY DEF LoopEnds, RequestsDone, game, sound, IInv, TypeOK, FailsInv
<1>3. /\ queued' \in Tracks \cup {NoTrack} /\ mode' \in 0..2
      /\ queued' = queued \/ queued' \in Tracks
  BY <1>2, CdSoundConstants DEF LoopEnds, IInv, TypeOK
<1>4. /\ suspending' \in BOOLEAN /\ fading' \in BOOLEAN
      /\ ring' \in Seq(Requests) /\ Len(ring') <= RingBound
  BY <1>2 DEF IInv, TypeOK
<1>5. CASE AddCommand("FADE_OUT_2") /\ queued' = queued
  <2>1. spilled' \in BOOLEAN
    BY <1>5 DEF AddCommand, IInv, TypeOK
  <2>2. /\ queue' \in Seq(Commands) /\ Len(queue') < MaxSnd
        /\ queue # <<>> => queue' # <<>> /\ Head(queue') = Head(queue)
        /\ \A x : PendingIn(queue', x) => PendingIn(queue, x) \/ x = "FADE_OUT_2"
        /\ \A x : PendingIn(queue, x) => PendingIn(queue', x) \/ Spills(queue)
    BY <1>1, <1>5, PushKeeps DEF AddCommand, IInv, TypeOK
  <2>3. PendingIn(queue, "FADE_OUT_1") \/ spilled => PendingIn(queue', "FADE_OUT_1") \/ spilled'
    BY <1>5, <2>2 DEF AddCommand
  <2>4. PendingIn(queue', "START_XA") \/ PendingIn(queue', "COMMAND_6") => queued' \in Tracks
    BY <1>5, <2>2 DEF IInv, TrackInv
  <2> QED BY <1>2, <1>3, <1>4, <2>1, <2>2, <2>3, <2>4, GameIInv
<1>6. CASE UNCHANGED <<queue, spilled>>
  <2>1. spilled' \in BOOLEAN
    BY <1>6 DEF IInv, TypeOK
  <2> QED BY <1>2, <1>3, <1>4, <1>6, <2>1, GameIInv DEF IInv, TypeOK, TrackInv
<1>7. CASE queued' = playing /\ AddLoop
  <2>1. CASE PendingIn(queue, "COMMAND_12")
    <3> DEFINE resumed == PushResume(queue)
    <3>1. /\ queue' = Push(resumed, "COMMAND_6")
          /\ spilled' = (spilled \/ Spills(queue) \/ Spills(resumed))
      BY <1>7, <2>1 DEF AddLoop
    <3>2. queue # <<>> /\ queue \in Seq(Commands) /\ Len(queue) < MaxSnd
      BY <2>1 DEF PendingIn, IInv, TypeOK
    <3>3. /\ resumed \in Seq(Commands) /\ resumed # <<>> /\ Len(resumed) < MaxSnd
          /\ Head(resumed) = Head(queue)
          /\ \A x : PendingIn(queue, x) => PendingIn(resumed, x) \/ Spills(queue)
      BY <3>2, PushResumeKeeps
    <3> HIDE DEF resumed
    <3>4. /\ queue' \in Seq(Commands) /\ Len(queue') < MaxSnd
          /\ queue' # <<>> /\ Head(queue') = Head(queue)
          /\ \A x : PendingIn(resumed, x) => PendingIn(queue', x) \/ Spills(resumed)
      BY <1>1, <3>1, <3>3, PushKeeps
    <3>5. PendingIn(queue, "FADE_OUT_1") \/ spilled => PendingIn(queue', "FADE_OUT_1") \/ spilled'
      BY <3>1, <3>3, <3>4
    <3>6. spilled' \in BOOLEAN
      BY <3>1 DEF IInv, TypeOK
    <3> QED BY <1>2, <1>3, <1>4, <1>7, <3>4, <3>5, <3>6, GameIInv
  <2>2. CASE ~PendingIn(queue, "COMMAND_12")
    <3>1. queue' = Push(queue, "COMMAND_6") /\ spilled' = (spilled \/ Spills(queue))
      BY <1>7, <2>2 DEF AddLoop, AddCommand
    <3>2. /\ queue' \in Seq(Commands) /\ Len(queue') < MaxSnd
          /\ queue # <<>> => queue' # <<>> /\ Head(queue') = Head(queue)
          /\ \A x : PendingIn(queue, x) => PendingIn(queue', x) \/ Spills(queue)
      BY <1>1, <3>1, PushKeeps DEF IInv, TypeOK
    <3>3. PendingIn(queue, "FADE_OUT_1") \/ spilled => PendingIn(queue', "FADE_OUT_1") \/ spilled'
      BY <3>1, <3>2
    <3>4. spilled' \in BOOLEAN
      BY <3>1 DEF IInv, TypeOK
    <3> QED BY <1>2, <1>3, <1>4, <1>7, <3>2, <3>3, <3>4, GameIInv
  <2> QED BY <2>1, <2>2
<1> QED BY <1>5, <1>6, <1>7 DEF LoopEnds

-----------------------------------------------------------------------------
(* One frame of the command at the head. *)

\* What the handler of the command at the head may do to the rest of the state.
HandlerType ==
  /\ phase = "cd" /\ phase' = "game" /\ UNCHANGED <<ring, queued>>
  /\ playing' \in Tracks \cup {NoTrack} /\ current' \in Tracks \cup {NoTrack}
  /\ mode' \in 0..2 /\ saved' \in Seq(Slot) /\ Len(saved') <= 2
  /\ vol' \in 0..Full /\ mvol' \in 0..Full
  /\ suspending' \in BOOLEAN /\ fading' \in BOOLEAN
  /\ fails' \in {0, fails + 1}

\* A handler that is done leaves the next command a fresh start.
LEMMA DropIInv ==
  ASSUME IInv, HandlerType, queue # <<>>, queue' = Tail(queue), step' = 0, busy' = FALSE,
         spilled' = spilled,
         mvol' = Full \/ ( /\ mvol' = mvol /\ ~Running("FADE_OUT_1")
                           /\ Running("COMMAND_10") => step > 2 )
  PROVE  IInv'
<1>1. /\ Head(queue) \in Commands /\ Tail(queue) \in Seq(Commands)
      /\ Len(Tail(queue)) = Len(queue) - 1
      /\ \A c : PendingIn(Tail(queue), c) => PendingIn(queue, c)
      /\ \A c : PendingIn(queue, c) /\ Head(queue) # c => PendingIn(Tail(queue), c)
  BY TailKeeps DEF IInv, TypeOK
<1>2. busy' \in BOOLEAN /\ spilled' \in BOOLEAN
  BY DEF IInv, TypeOK
<1>3. TypeOK'
  BY <1>1, <1>2, CdSoundConstants DEF HandlerType, IInv, TypeOK, FailsInv
<1>4. StepIsOfTheHead' /\ SavedTracks' /\ StartedInv'
  BY DEF StepIsOfTheHead, SavedTracks, StartedInv, HandlerType, IInv
<1>5. TrackInv'
  BY <1>1 DEF TrackInv, HandlerType, IInv
<1>6. MasterVolumeComesBack'
  BY <1>1 DEF MasterVolumeComesBack, VolumeInv, IInv, Running
<1>7. VolumeInv' /\ FailsInv'
  BY DEF VolumeInv, FailsInv, HandlerType
<1> QED BY <1>3, <1>4, <1>5, <1>6, <1>7 DEF IInv

\* A handler that goes on keeps the head and stays at one of its cases.
LEMMA StayIInv ==
  ASSUME IInv, HandlerType, queue # <<>>, UNCHANGED <<queue, spilled>>, busy' = TRUE,
         step' \in 0..8, step' <= LastStep[Head(queue)],
         SavedTracks', StartedInv',
         Running("START_XA") \/ Running("COMMAND_6") => current' \in Tracks,
         Running("COMMAND_10") \/ mvol' = mvol,
         Running("COMMAND_10") => VolumeInv'
  PROVE  IInv'
<1>1. busy' \in BOOLEAN /\ spilled' \in BOOLEAN
  BY DEF IInv, TypeOK
<1>2. TypeOK'
  BY <1>1, CdSoundConstants DEF HandlerType, IInv, TypeOK, FailsInv
<1>3. Head(queue) \in Commands
  BY TailKeeps DEF IInv, TypeOK
<1>4. StepIsOfTheHead'
  BY <1>3 DEF StepIsOfTheHead, LastStep, Commands
<1>5. TrackInv'
  BY DEF TrackInv, HandlerType, Running, IInv
<1>6. MasterVolumeComesBack' /\ VolumeInv' /\ FailsInv'
  BY DEF MasterVolumeComesBack, VolumeInv, FailsInv, Running, HandlerType, IInv
<1> QED BY <1>2, <1>4, <1>5, <1>6 DEF IInv

\* The drive's answer moves the step by one case at most.
LEMMA DriveMoves ==
  ASSUME IInv, NEW s \in 0..7, NEW a \in Answers, Drive(s, a)
  PROVE  step' \in {s, s + 1} /\ fails' \in {0, fails + 1}
BY DEF Drive

\* The frame of a handler: nothing but it touches the ring and the phase.
HandlerFrame == phase = "cd" /\ phase' = "game" /\ UNCHANGED ring

\* What is known of the command at the head when its handler runs.
LEMMA HeadIs ==
  ASSUME IInv, NEW c \in Commands, Running(c)
  PROVE  /\ queue # <<>> /\ Head(queue) = c /\ PendingIn(queue, c)
         /\ \A d : Running(d) => d = c
         /\ step \in 0..8 /\ (step # 0 => busy /\ step <= LastStep[c])
<1>1. queue # <<>> /\ Head(queue) = c
  BY DEF Running
<1>2. PendingIn(queue, c)
  BY <1>1, LenProperties, EmptySeq DEF PendingIn, IInv, TypeOK
<1>3. step \in 0..8 /\ (step # 0 => busy /\ step <= LastStep[c])
  BY <1>1 DEF IInv, TypeOK, StepIsOfTheHead, LastStep, Commands
<1> QED BY <1>1, <1>2, <1>3 DEF Running

\* A start drops the saved tracks, or keeps them.
LEMMA SavedDropped ==
  ASSUME IInv, saved' = <<>> \/ saved' = saved
  PROVE  saved' \in Seq(Slot) /\ Len(saved') <= 2
<1>1. <<>> \in Seq(Slot) /\ Len(<<>>) = 0
  BY EmptySeq
<1>2. saved \in Seq(Slot) /\ Len(saved) <= 2
  BY DEF IInv, TypeOK, SavedTracks
<1>3. CASE saved' = <<>>
  <2>1. saved' \in Seq(Slot) /\ Len(saved') = 0
    BY <1>1, <1>3, Zenon
  <2> QED BY <2>1
<1>4. CASE saved' = saved
  BY <1>2, <1>4
<1> QED BY <1>3, <1>4

\* CdSoundCommand4 loads the track that was queued when it started.
LEMMA StartXaIInv ==
  ASSUME IInv, HandlerFrame, NEW a \in Answers, StartXa(a) PROVE IInv'
<1>1. /\ Running("START_XA") /\ queue # <<>> /\ Head(queue) = "START_XA"
      /\ \A d : Running(d) => d = "START_XA"
      /\ LastStep[Head(queue)] = 8 /\ step \in 0..8 /\ queued \in Tracks
      /\ step # 0 => busy /\ current \in Tracks
  BY HeadIs DEF StartXa, LastStep, Commands, IInv, TrackInv
<1>2. suspending' \in BOOLEAN /\ fading' \in BOOLEAN
  BY DEF StartXa, IInv, TypeOK
<1>3. CASE step = 0
  <2>1. /\ step' \in {0, 1, 2} /\ fails' \in {0, fails + 1}
    BY <1>3 DEF StartXa, Drive
  <2>2. saved' = <<>> \/ saved' = saved
    BY <1>1, <1>3 DEF StartXa
  <2>3. /\ busy' = TRUE /\ current' = queued /\ vol' = Full
        /\ UNCHANGED <<queue, spilled, playing, mode, queued, mvol>>
    BY <1>1, <1>3 DEF StartXa
  <2>4. HandlerType
    BY <1>1, <1>2, <2>1, <2>2, <2>3, SavedDropped, CdSoundConstants
       DEF HandlerType, HandlerFrame, IInv, TypeOK
  <2>5. SavedTracks' /\ StartedInv'
    BY <1>1, <2>2, <2>3, SavedDropped DEF SavedTracks, StartedInv, Running
  <2> QED BY <1>1, <2>1, <2>3, <2>4, <2>5, StayIInv
<1>4. CASE step \in 1..7
  <2>1. step' \in 1..8 /\ fails' \in {0, fails + 1}
    BY <1>4 DEF StartXa, Drive
  <2>2. mode' \in 0..2
    BY <1>1, <1>4, CdSoundConstants DEF StartXa, IInv, TypeOK
  <2>3. /\ busy' = TRUE
        /\ UNCHANGED <<queue, spilled, playing, current, saved, vol, queued, mvol>>
    BY <1>1, <1>4 DEF StartXa, Retry
  <2>4. HandlerType
    BY <1>2, <2>1, <2>2, <2>3 DEF HandlerType, HandlerFrame, IInv, TypeOK, SavedTracks
  <2>5. SavedTracks' /\ StartedInv'
    BY <1>1, <2>1, <2>3 DEF SavedTracks, StartedInv, Running, IInv
  <2> QED BY <1>1, <1>4, <2>1, <2>3, <2>4, <2>5, StayIInv
<1>5. CASE step \notin 0..7
  <2>1. /\ queue' = Tail(queue) /\ step' = 0 /\ busy' = FALSE /\ fails' = 0
        /\ playing' \in {current, playing} /\ current' = NoTrack
        /\ UNCHANGED <<spilled, mode, saved, vol, queued, mvol>>
    BY <1>1, <1>5 DEF StartXa, Finish, NoDrive
  <2>2. HandlerType
    BY <1>2, <2>1 DEF HandlerType, HandlerFrame, IInv, TypeOK, SavedTracks
  <2> QED BY <1>1, <2>1, <2>2, DropIInv
<1> QED BY <1>3, <1>4, <1>5

\* CdSoundCommand6 does the same for a track that starts again.
LEMMA SeekLoopIInv ==
  ASSUME IInv, HandlerFrame, NEW a \in Answers, SeekLoop(a) PROVE IInv'
<1>1. /\ Running("COMMAND_6") /\ queue # <<>> /\ Head(queue) = "COMMAND_6"
      /\ \A d : Running(d) => d = "COMMAND_6"
      /\ LastStep[Head(queue)] = 4 /\ step \in 0..8 /\ queued \in Tracks
      /\ step # 0 => busy /\ current \in Tracks
  BY HeadIs DEF SeekLoop, LastStep, Commands, IInv, TrackInv
<1>2. /\ suspending' \in BOOLEAN /\ fading' \in BOOLEAN
      /\ UNCHANGED <<queued, mode, saved, vol, mvol>>
  BY DEF SeekLoop, sound, IInv, TypeOK
<1>3. CASE step = 0
  <2>1. /\ step' \in {0, 1, 2} /\ fails' \in {0, fails + 1}
    BY <1>3 DEF SeekLoop, Drive
  <2>2. busy' = TRUE /\ current' = queued /\ UNCHANGED <<queue, spilled, playing>>
    BY <1>1, <1>3 DEF SeekLoop
  <2>3. HandlerType
    BY <1>1, <1>2, <2>1, <2>2 DEF HandlerType, HandlerFrame, IInv, TypeOK, SavedTracks
  <2>4. SavedTracks' /\ StartedInv'
    BY <1>1, <1>2, <2>2 DEF SavedTracks, StartedInv, Running, IInv
  <2> QED BY <1>1, <1>2, <2>1, <2>2, <2>3, <2>4, StayIInv
<1>4. CASE step \in 1..3
  <2>1. step' \in 1..4 /\ fails' \in {0, fails + 1}
    BY <1>4 DEF SeekLoop, Drive
  <2>2. busy' = TRUE /\ UNCHANGED <<queue, spilled, playing, current>>
    BY <1>1, <1>4 DEF SeekLoop, Retry
  <2>3. HandlerType
    BY <1>2, <2>1, <2>2 DEF HandlerType, HandlerFrame, IInv, TypeOK, SavedTracks
  <2>4. SavedTracks' /\ StartedInv'
    BY <1>1, <1>2, <2>1, <2>2 DEF SavedTracks, StartedInv, Running, IInv
  <2> QED BY <1>1, <1>2, <1>4, <2>1, <2>2, <2>3, <2>4, StayIInv
<1>5. CASE step \notin 0..3
  <2>1. /\ queue' = Tail(queue) /\ step' = 0 /\ busy' = FALSE /\ fails' = 0
        /\ playing' \in {current, playing} /\ current' = NoTrack /\ UNCHANGED spilled
    BY <1>1, <1>5 DEF SeekLoop, Finish, NoDrive
  <2>2. HandlerType
    BY <1>2, <2>1 DEF HandlerType, HandlerFrame, IInv, TypeOK, SavedTracks
  <2> QED BY <1>1, <1>2, <2>1, <2>2, DropIInv
<1> QED BY <1>3, <1>4, <1>5

\* Fades stay within the volume's range.
LEMMA LowerInRange == ASSUME NEW v \in 0..Full PROVE Lower(v) \in 0..Full
  BY CdSoundConstants DEF Lower

\* CdFadeOut1 and CdFadeOut2 drop their command, without having started it,
\* when there is nothing to stop.
LEMMA FadeOutIInv ==
  ASSUME IInv, HandlerFrame, NEW a \in Answers, NEW c \in {"FADE_OUT_1", "FADE_OUT_2"},
         FadeOut(c, a)
  PROVE  IInv'
<1>1. /\ Running(c) /\ queue # <<>> /\ Head(queue) = c /\ \A d : Running(d) => d = c
      /\ LastStep[Head(queue)] = 3 /\ step \in 0..8 /\ (step # 0 => busy /\ step <= 3)
  BY HeadIs DEF FadeOut, LastStep, Commands
<1>2. /\ suspending' \in BOOLEAN /\ fading' \in BOOLEAN
      /\ UNCHANGED <<queued, current, mode, saved>>
  BY DEF FadeOut, IInv, TypeOK
<1>3. CASE step = 0 /\ playing = NoTrack
  <2>1. /\ queue' = Tail(queue) /\ UNCHANGED <<step, busy, spilled, playing, vol>> /\ fails' = 0
        /\ mvol' = MasterAfter(c)
    BY <1>1, <1>3 DEF FadeOut, Advance, NoDrive
  <2>2. busy' = FALSE
    BY <1>1, <1>3, <2>1 DEF IInv, TypeOK, StartedInv
  <2>3. mvol' \in 0..Full /\ (mvol' = Full \/ (mvol' = mvol /\ c # "FADE_OUT_1"))
    BY <2>1, CdSoundConstants DEF MasterAfter, IInv, TypeOK
  <2>4. HandlerType
    BY <1>2, <2>1, <2>3 DEF HandlerType, HandlerFrame, IInv, TypeOK, SavedTracks
  <2> QED BY <1>1, <1>3, <2>1, <2>2, <2>3, <2>4, DropIInv
<1>4. CASE step = 0 /\ playing # NoTrack
  <2>1. /\ vol' = Lower(vol) /\ step' \in {0, 1} /\ busy' = TRUE /\ fails' = 0
        /\ UNCHANGED <<queue, spilled, playing, mvol>>
    BY <1>1, <1>4 DEF FadeOut, Goto, NoDrive
  <2>2. HandlerType
    BY <1>2, <2>1, LowerInRange DEF HandlerType, HandlerFrame, IInv, TypeOK, SavedTracks
  <2>3. SavedTracks' /\ StartedInv'
    BY <1>1, <1>2, <1>4, <2>1 DEF SavedTracks, StartedInv, Running, IInv
  <2> QED BY <1>1, <1>2, <2>1, <2>2, <2>3, StayIInv
<1>5. CASE step \in 1..2
  <2>1. step' \in 1..3 /\ fails' \in {0, fails + 1}
    BY <1>5 DEF FadeOut, Drive
  <2>2. busy' = TRUE /\ UNCHANGED <<queue, spilled, playing, vol, mvol>>
    BY <1>1, <1>5 DEF FadeOut, Retry
  <2>3. HandlerType
    BY <1>2, <2>1, <2>2 DEF HandlerType, HandlerFrame, IInv, TypeOK, SavedTracks
  <2>4. SavedTracks' /\ StartedInv'
    BY <1>1, <1>2, <2>1, <2>2 DEF SavedTracks, StartedInv, Running, IInv
  <2> QED BY <1>1, <1>2, <2>1, <2>2, <2>3, <2>4, StayIInv
<1>6. CASE step \notin 0..2
  <2>1. step = 3
    BY <1>1, <1>6
  <2>2. /\ queue' = Tail(queue) /\ step' = 0 /\ busy' = FALSE /\ fails' = 0
        /\ playing' = NoTrack /\ mvol' = MasterAfter(c) /\ UNCHANGED <<spilled, vol>>
    BY <1>1, <1>6, <2>1 DEF FadeOut, Finish, NoDrive
  <2>3. mvol' \in 0..Full /\ (mvol' = Full \/ (mvol' = mvol /\ c # "FADE_OUT_1"))
    BY <2>2, CdSoundConstants DEF MasterAfter, IInv, TypeOK
  <2>4. HandlerType
    BY <1>2, <2>2, <2>3 DEF HandlerType, HandlerFrame, IInv, TypeOK, SavedTracks
  <2> QED BY <1>1, <2>1, <2>2, <2>3, <2>4, DropIInv
<1> QED BY <1>3, <1>4, <1>5, <1>6

\* COMMAND_8 ends with a stop of the track it has faded out, behind whatever
\* is pending.
LEMMA FadeXaIInv ==
  ASSUME IInv, HandlerFrame, NEW a \in Answers, FadeXa(a) PROVE IInv'
<1>1. /\ Running("COMMAND_8") /\ queue # <<>> /\ Head(queue) = "COMMAND_8"
      /\ \A d : Running(d) => d = "COMMAND_8"
      /\ LastStep[Head(queue)] = 2 /\ step \in 0..8 /\ step <= 2
      /\ "FADE_OUT_2" \in Commands
  BY HeadIs DEF FadeXa, LastStep, Commands
<1>2. /\ UNCHANGED <<playing, queued, current, mode, saved, mvol, suspending>> /\ fails' = 0
      /\ suspending' \in BOOLEAN
  BY DEF FadeXa, NoDrive, track, IInv, TypeOK
<1>3. CASE step \in 0..1
  <2>1. step' \in {1, 2} /\ busy' = TRUE /\ UNCHANGED <<queue, spilled>>
    BY <1>3 DEF FadeXa, Goto
  <2>2. vol' \in 0..Full /\ fading' = fading
    BY <1>3, LowerInRange DEF FadeXa, IInv, TypeOK
  <2>3. fading' \in BOOLEAN
    BY <2>2 DEF IInv, TypeOK
  <2>4. HandlerType
    BY <1>2, <2>2, <2>3 DEF HandlerType, HandlerFrame, IInv, TypeOK, SavedTracks
  <2>5. SavedTracks' /\ StartedInv'
    BY <1>1, <1>2, <2>1 DEF SavedTracks, StartedInv, Running, IInv
  <2> QED BY <1>1, <1>2, <2>1, <2>4, <2>5, StayIInv
<1>4. CASE step \notin 0..1
  <2> DEFINE pushed == Push(queue, "FADE_OUT_2")
  <2>1. /\ queue' = Tail(pushed) /\ spilled' = (spilled \/ Spills(queue))
        /\ fading' = FALSE /\ step' = 0 /\ busy' = FALSE /\ vol' = vol
    BY <1>4 DEF FadeXa, FadeEnds
  <2>2. /\ pushed \in Seq(Commands) /\ pushed # <<>> /\ Len(pushed) < MaxSnd
        /\ Head(pushed) = Head(queue)
        /\ \A x : PendingIn(pushed, x) => PendingIn(queue, x) \/ x = "FADE_OUT_2"
        /\ \A x : PendingIn(queue, x) => PendingIn(pushed, x) \/ Spills(queue)
    BY <1>1, PushKeeps DEF IInv, TypeOK
  <2> HIDE DEF pushed
  <2>3. /\ Tail(pushed) \in Seq(Commands) /\ Len(Tail(pushed)) = Len(pushed) - 1
        /\ \A c : PendingIn(Tail(pushed), c) => PendingIn(pushed, c)
        /\ \A c : PendingIn(pushed, c) /\ Head(pushed) # c => PendingIn(Tail(pushed), c)
    BY <2>2, TailKeeps
  <2>4. busy' \in BOOLEAN /\ spilled' \in BOOLEAN /\ fading' \in BOOLEAN
    BY <2>1 DEF IInv, TypeOK
  <2>5. TypeOK'
    BY <1>2, <2>1, <2>2, <2>3, <2>4, CdSoundConstants DEF HandlerFrame, IInv, TypeOK
  <2>6. StepIsOfTheHead' /\ SavedTracks' /\ StartedInv' /\ VolumeInv' /\ FailsInv'
    BY <1>2, <2>1 DEF StepIsOfTheHead, SavedTracks, StartedInv, VolumeInv, FailsInv,
                      HandlerFrame, IInv
  <2>7. TrackInv'
    BY <1>2, <2>1, <2>2, <2>3 DEF TrackInv, IInv
  <2>8. MasterVolumeComesBack'
    BY <1>1, <1>2, <2>1, <2>2, <2>3 DEF MasterVolumeComesBack, IInv
  <2> QED BY <2>5, <2>6, <2>7, <2>8 DEF IInv
<1> QED BY <1>3, <1>4

\* COMMAND_10 queues the stop that brings the volume back, waits, and ends.
LEMMA FadeAllIInv ==
  ASSUME IInv, HandlerFrame, NEW a \in Answers, FadeAll(a) PROVE IInv'
<1>1. /\ Running("COMMAND_10") /\ queue # <<>> /\ Head(queue) = "COMMAND_10"
      /\ \A d : Running(d) => d = "COMMAND_10"
      /\ LastStep[Head(queue)] = 5 /\ step \in 0..8 /\ (step # 0 => busy /\ step <= 5)
      /\ "FADE_OUT_1" \in Commands
  BY HeadIs DEF FadeAll, LastStep, Commands
<1>2. /\ UNCHANGED <<playing, queued, current, mode, saved, vol, suspending>> /\ fails' = 0
      /\ suspending' \in BOOLEAN
  BY DEF FadeAll, NoDrive, track, IInv, TypeOK
<1>3. CASE step \in 0..1
  <2>1. step' \in {1, 2} /\ busy' = TRUE /\ UNCHANGED <<queue, spilled>>
    BY <1>3 DEF FadeAll, Goto
  <2>2. mvol' \in 0..Full /\ fading' = fading
    BY <1>3, LowerInRange DEF FadeAll, IInv, TypeOK
  <2>3. fading' \in BOOLEAN
    BY <2>2 DEF IInv, TypeOK
  <2>4. HandlerType
    BY <1>2, <2>2, <2>3 DEF HandlerType, HandlerFrame, IInv, TypeOK, SavedTracks
  <2>5. SavedTracks' /\ StartedInv' /\ VolumeInv'
    BY <1>1, <1>2, <2>1 DEF SavedTracks, StartedInv, VolumeInv, Running, IInv
  <2> QED BY <1>1, <1>2, <2>1, <2>4, <2>5, StayIInv
<1>4. CASE step = 2
  <2>1. /\ queue' = Push(queue, "FADE_OUT_1") /\ spilled' = (spilled \/ Spills(queue))
        /\ step' = 3 /\ UNCHANGED <<busy, mvol, fading>>
    BY <1>4 DEF FadeAll, AddCommand
  <2>2. /\ queue' \in Seq(Commands) /\ queue' # <<>> /\ Len(queue') < MaxSnd
        /\ Head(queue') = Head(queue)
        /\ \A x : PendingIn(queue', x) => PendingIn(queue, x) \/ x = "FADE_OUT_1"
        /\ PendingIn(queue', "FADE_OUT_1") \/ Spills(queue)
    BY <1>1, <2>1, PushKeeps DEF IInv, TypeOK
  <2>3. busy' \in BOOLEAN /\ spilled' \in BOOLEAN /\ fading' \in BOOLEAN
    BY <2>1 DEF IInv, TypeOK
  <2>4. TypeOK'
    BY <1>2, <2>1, <2>2, <2>3, CdSoundConstants DEF HandlerFrame, IInv, TypeOK
  <2>5. \A d : Running(d)' => d = "COMMAND_10"
    BY <1>1, <2>2 DEF Running
  <2>6. StepIsOfTheHead' /\ StartedInv' /\ FailsInv'
    BY <1>1, <1>2, <1>4, <2>1, <2>2, <2>5, CdSoundConstants
       DEF StepIsOfTheHead, StartedInv, FailsInv, HandlerFrame
  <2>7. SavedTracks'
    BY <1>2, <2>5 DEF SavedTracks, IInv
  <2>8. TrackInv'
    BY <1>2, <2>2, <2>5 DEF TrackInv, IInv
  <2>9. MasterVolumeComesBack' /\ VolumeInv'
    BY <2>1, <2>2 DEF MasterVolumeComesBack, VolumeInv
  <2> QED BY <2>4, <2>6, <2>7, <2>8, <2>9 DEF IInv
<1>5. CASE step \in 3..4
  <2>1. step' = step + 1 /\ busy' = TRUE /\ UNCHANGED <<queue, spilled, mvol, fading>>
    BY <1>5 DEF FadeAll, Goto
  <2>2. fading' \in BOOLEAN
    BY <2>1 DEF IInv, TypeOK
  <2>3. HandlerType
    BY <1>2, <2>1, <2>2 DEF HandlerType, HandlerFrame, IInv, TypeOK, SavedTracks
  <2>4. SavedTracks' /\ StartedInv' /\ VolumeInv'
    BY <1>1, <1>2, <1>5, <2>1 DEF SavedTracks, StartedInv, VolumeInv, Running, IInv
  <2> QED BY <1>1, <1>2, <1>5, <2>1, <2>3, <2>4, StayIInv
<1>6. CASE step \notin 0..4
  <2>1. /\ queue' = Tail(queue) /\ step' = 0 /\ busy' = FALSE /\ fading' = FALSE
        /\ UNCHANGED <<spilled, mvol>>
    BY <1>6 DEF FadeAll, Finish
  <2>2. HandlerType
    BY <1>2, <2>1 DEF HandlerType, HandlerFrame, IInv, TypeOK, SavedTracks
  <2>3. ~Running("FADE_OUT_1") /\ step > 2
    BY <1>1, <1>6
  <2> QED BY <1>1, <2>1, <2>2, <2>3, DropIInv
<1> QED BY <1>1, <1>3, <1>4, <1>5, <1>6

\* COMMAND_12 makes room before it starts and fills the slot when it ends.
LEMMA SuspendIInv ==
  ASSUME IInv, HandlerFrame, NEW a \in Answers, Suspend(a) PROVE IInv'
<1>1. /\ Running("COMMAND_12") /\ queue # <<>> /\ Head(queue) = "COMMAND_12"
      /\ \A d : Running(d) => d = "COMMAND_12"
      /\ LastStep[Head(queue)] = 4 /\ step \in 0..8 /\ (step # 0 => busy /\ step <= 4)
      /\ (step # 0 => Len(saved) < 2)
  BY HeadIs DEF Suspend, LastStep, Commands, IInv, SavedTracks
<1>2. /\ UNCHANGED <<queued, current, mode, mvol, fading>> /\ fading' \in BOOLEAN
      /\ saved \in Seq(Slot) /\ Len(saved) \in Nat /\ Len(saved) <= 2
  BY LenProperties DEF Suspend, IInv, TypeOK, SavedTracks
<1>3. CASE step = 0
  <2>1. /\ saved' = SlotsToKeep /\ UNCHANGED <<vol, playing>> /\ fails' = 0
        /\ \/ /\ playing = NoTrack /\ queue' = Tail(queue) /\ suspending' = FALSE
              /\ UNCHANGED <<step, busy, spilled>>
           \/ /\ playing # NoTrack /\ step' = 1 /\ busy' = TRUE
              /\ UNCHANGED <<queue, spilled, suspending>>
    BY <1>3 DEF Suspend, NothingToDo, Advance, Goto, NoDrive
  <2>2. saved' \in Seq(Slot) /\ Len(saved') < 2
    <3>1. CASE Len(saved) >= 2
      <4>1. <<>> \in Seq(Slot) /\ Len(<<>>) = 0
        BY EmptySeq
      <4>2. saved' = <<>>
        BY <2>1, <3>1 DEF SlotsToKeep
      <4>3. saved' \in Seq(Slot) /\ Len(saved') = 0
        BY <4>1, <4>2, Zenon
      <4> QED BY <4>3
    <3>2. CASE ~(Len(saved) >= 2)
      BY <1>2, <2>1, <3>2 DEF SlotsToKeep
    <3> QED BY <3>1, <3>2
  <2>3. suspending' \in BOOLEAN
    BY <2>1 DEF IInv, TypeOK
  <2>4. HandlerType
    BY <1>2, <2>1, <2>2, <2>3 DEF HandlerType, HandlerFrame, IInv, TypeOK
  <2>5. CASE playing = NoTrack
    <3>1. busy' = FALSE
      BY <1>1, <1>3, <2>1, <2>5 DEF IInv, TypeOK, StartedInv
    <3> QED BY <1>1, <1>2, <1>3, <2>1, <2>4, <2>5, <3>1, DropIInv
  <2>6. CASE playing # NoTrack
    <3>1. step' = 1 /\ busy' = TRUE /\ UNCHANGED <<queue, spilled>>
      BY <2>1, <2>6
    <3>2. SavedTracks' /\ StartedInv'
      BY <1>1, <2>1, <2>2, <2>6, <3>1 DEF SavedTracks, StartedInv, Running
    <3> QED BY <1>1, <1>2, <2>4, <3>1, <3>2, StayIInv
  <2> QED BY <2>5, <2>6
<1>4. CASE step \in 1..3
  <2>1. step' \in 1..4 /\ busy' = TRUE /\ fails' \in {0, fails + 1}
        /\ UNCHANGED <<queue, spilled, saved, playing, suspending>>
    BY <1>1, <1>4 DEF Suspend, Goto, Retry, Drive, NoDrive
  <2>2. vol' \in 0..Full
    BY <1>4, LowerInRange DEF Suspend, IInv, TypeOK
  <2>3. suspending' \in BOOLEAN
    BY <2>1 DEF IInv, TypeOK
  <2>4. HandlerType
    BY <1>2, <2>1, <2>2, <2>3 DEF HandlerType, HandlerFrame, IInv, TypeOK
  <2>5. SavedTracks' /\ StartedInv'
    BY <1>1, <1>2, <1>4, <2>1 DEF SavedTracks, StartedInv, Running, IInv
  <2> QED BY <1>1, <1>2, <2>1, <2>4, <2>5, StayIInv
<1>5. CASE step \notin 0..3
  <2>1. /\ queue' = Tail(queue) /\ step' = 0 /\ busy' = FALSE /\ fails' = 0
        /\ suspending' = FALSE /\ UNCHANGED <<spilled, vol>> /\ step = 4
        /\ saved' = Append(saved, [track |-> playing, mode |-> mode]) /\ playing' = NoTrack
    BY <1>1, <1>5 DEF Suspend, Finish, NoDrive
  <2>2. playing \in Tracks
    BY <1>1, <2>1 DEF StartedInv, IInv, TypeOK
  <2>3. [track |-> playing, mode |-> mode] \in Slot
    BY <2>2 DEF Slot, IInv, TypeOK
  <2>4. saved' \in Seq(Slot) /\ Len(saved') <= 2
    BY <1>1, <1>2, <2>1, <2>3
  <2>5. HandlerType
    BY <1>2, <2>1, <2>4 DEF HandlerType, HandlerFrame, IInv, TypeOK
  <2> QED BY <1>1, <1>2, <2>1, <2>5, DropIInv
<1> QED BY <1>3, <1>4, <1>5

\* A resume plays the track on top of the saved ones, and takes it off last.
LEMMA ResumeIInv ==
  ASSUME IInv, HandlerFrame, NEW a \in Answers, Resume(a) PROVE IInv'
<1>1. /\ Running("START_XA_PLAYBACK") /\ queue # <<>> /\ Head(queue) = "START_XA_PLAYBACK"
      /\ \A d : Running(d) => d = "START_XA_PLAYBACK"
      /\ LastStep[Head(queue)] = 8 /\ step \in 0..8 /\ (step # 0 => busy)
      /\ (step # 0 => Len(saved) > 0 /\ playing = saved[Len(saved)].track)
  BY HeadIs DEF Resume, LastStep, Commands, IInv, SavedTracks
<1>2. /\ UNCHANGED <<queued, current, mvol, fading>> /\ fading' \in BOOLEAN
      /\ saved \in Seq(Slot) /\ Len(saved) \in Nat /\ Len(saved) <= 2
  BY LenProperties DEF Resume, IInv, TypeOK, SavedTracks
<1>3. Len(saved) > 0 =>
        saved[Len(saved)].track \in Tracks /\ saved[Len(saved)].mode \in 0..2
  <2>1. ASSUME Len(saved) > 0 PROVE saved[Len(saved)] \in Slot
    BY <1>2, <2>1, ElementOfSeq
  <2> QED BY <2>1 DEF Slot
<1>4. CASE step = 0 /\ CannotResume
  <2>1. /\ queue' = Tail(queue) /\ suspending' = FALSE /\ fails' = 0
        /\ UNCHANGED <<step, busy, spilled, playing, mode, saved, vol>>
    BY <1>4 DEF Resume, NothingToDo, Advance, NoDrive
  <2>2. busy' = FALSE
    BY <1>1, <1>4, <2>1 DEF IInv, TypeOK, StartedInv
  <2>3. HandlerType
    BY <1>2, <2>1 DEF HandlerType, HandlerFrame, IInv, TypeOK
  <2> QED BY <1>1, <1>2, <1>4, <2>1, <2>2, <2>3, DropIInv
<1>5. CASE step = 0 /\ ~CannotResume
  <2>1. /\ playing' = saved[Len(saved)].track /\ vol' = 0 /\ fails' = 0
        /\ step' = 1 /\ busy' = TRUE
        /\ UNCHANGED <<queue, spilled, mode, saved, suspending>>
    BY <1>5 DEF Resume, Goto, NoDrive
  <2>2. Len(saved) \in 1..2
    BY <1>5, Zenon DEF CannotResume
  <2>3. Len(saved) > 0
    BY <2>2
  <2>4. suspending' \in BOOLEAN
    BY <2>1 DEF IInv, TypeOK
  <2>5. HandlerType
    BY <1>2, <1>3, <2>1, <2>3, <2>4, CdSoundConstants
       DEF HandlerType, HandlerFrame, IInv, TypeOK
  <2>6. SavedTracks' /\ StartedInv'
    BY <1>1, <1>2, <2>1, <2>3 DEF SavedTracks, StartedInv, Running
  <2> QED BY <1>1, <1>2, <2>1, <2>5, <2>6, StayIInv
<1>6. CASE step \in 1..7
  <2>1. /\ step' \in 1..8 /\ busy' = TRUE /\ fails' \in {0, fails + 1}
        /\ UNCHANGED <<queue, spilled, playing, saved, suspending>>
    BY <1>1, <1>6 DEF Resume, Goto, Retry, Drive, NoDrive
  <2>2. mode' \in 0..2
    BY <1>1, <1>3, <1>6 DEF Resume, IInv, TypeOK
  <2>3. vol' \in 0..Full
    BY <1>6, CdSoundConstants DEF Resume, IInv, TypeOK
  <2>4. suspending' \in BOOLEAN
    BY <2>1 DEF IInv, TypeOK
  <2>5. HandlerType
    BY <1>2, <2>1, <2>2, <2>3, <2>4 DEF HandlerType, HandlerFrame, IInv, TypeOK
  <2>6. SavedTracks' /\ StartedInv'
    BY <1>1, <1>2, <1>6, <2>1 DEF SavedTracks, StartedInv, Running
  <2> QED BY <1>1, <1>2, <2>1, <2>5, <2>6, StayIInv
<1>7. CASE step \notin 0..7
  <2>1. /\ queue' = Tail(queue) /\ step' = 0 /\ busy' = FALSE /\ fails' = 0
        /\ suspending' = FALSE /\ UNCHANGED <<spilled, playing, mode, vol>>
        /\ saved' = SubSeq(saved, 1, Len(saved) - 1) \/ saved' = saved
    BY <1>1, <1>7 DEF Resume, Finish, NoDrive
  <2>2. \A i \in 1..Len(saved) - 1 : saved[i] \in Slot
    BY <1>2, ElementOfSeq
  <2>3. /\ SubSeq(saved, 1, Len(saved) - 1) \in Seq(Slot)
        /\ Len(SubSeq(saved, 1, Len(saved) - 1)) <= 2
    BY <1>2, <2>2, SubSeqProperties
  <2>4. HandlerType
    BY <1>2, <2>1, <2>3 DEF HandlerType, HandlerFrame, IInv, TypeOK
  <2> QED BY <1>1, <1>2, <2>1, <2>4, DropIInv
<1> QED BY <1>1, <1>4, <1>5, <1>6, <1>7

\* COMMAND_16 has no second case.
LEMMA ForgetSavesIInv ==
  ASSUME IInv, HandlerFrame, NEW a \in Answers, ForgetSaves(a) PROVE IInv'
<1>1. /\ Running("COMMAND_16") /\ queue # <<>> /\ \A d : Running(d) => d = "COMMAND_16"
      /\ step = 0
  BY HeadIs DEF ForgetSaves, LastStep, Commands
<1>2. /\ queue' = Tail(queue) /\ saved' = <<>> /\ fails' = 0
      /\ UNCHANGED <<step, busy, spilled, playing, queued, current, mode, vol, mvol,
                     suspending, fading>>
  BY DEF ForgetSaves, Advance, NoDrive, track, sound
<1>3. busy' = FALSE
  BY <1>1, <1>2 DEF IInv, TypeOK, StartedInv
<1>4. suspending' \in BOOLEAN /\ fading' \in BOOLEAN
  BY <1>2 DEF IInv, TypeOK
<1>5. HandlerType
  BY <1>2, <1>4, SavedDropped DEF HandlerType, HandlerFrame, IInv, TypeOK
<1> QED BY <1>1, <1>2, <1>3, <1>5, DropIInv

\* With nothing to do, only the count of refusals changes.
LEMMA IdleIInv == ASSUME IInv, HandlerFrame, NEW a \in Answers, Idle(a) PROVE IInv'
<1>1. /\ UNCHANGED <<ring, queue, step, busy, spilled, playing, queued, current, mode, saved,
                     vol, mvol, suspending, fading>>
      /\ fails' = 0 /\ phase' = "game"
  BY DEF Idle, NoDrive, track, sound, HandlerFrame
<1>2. /\ busy' \in BOOLEAN /\ suspending' \in BOOLEAN /\ fading' \in BOOLEAN
      /\ spilled' \in BOOLEAN
  BY <1>1 DEF IInv, TypeOK
<1>3. TypeOK'
  BY <1>1, <1>2, CdSoundConstants DEF IInv, TypeOK
<1>4. /\ StepIsOfTheHead' /\ SavedTracks' /\ StartedInv'
      /\ (busy' /\ (Running("START_XA") \/ Running("COMMAND_6"))' => current' \in Tracks)
  BY <1>1, HeadStays
<1>5. MasterVolumeComesBack' /\ VolumeInv'
  BY <1>1, VolumeStays
<1>6. TrackInv' /\ FailsInv'
  BY <1>1, <1>4 DEF TrackInv, FailsInv, IInv
<1> QED BY <1>3, <1>4, <1>5, <1>6 DEF IInv

\* Every step keeps the invariant.
LEMMA NextIInv == ASSUME IInv, [Next]_vars PROVE IInv'
<1>1. CASE UNCHANGED vars
  <2>1. UNCHANGED <<phase, ring, suspending, fading, queue, step, busy, playing, queued,
                    current, mode, saved, vol, mvol, spilled, fails>>
    BY <1>1 DEF vars, game, track, sound
  <2>2. suspending' \in BOOLEAN /\ fading' \in BOOLEAN /\ spilled' \in BOOLEAN
    BY <2>1 DEF IInv, TypeOK
  <2> QED BY <2>1, <2>2, GameIInv DEF IInv, TypeOK, TrackInv, FailsInv
<1>2. ASSUME NEW r \in Asked, PlaySfx(r) PROVE IInv'
  BY <1>2, PlaySfxIInv, AskedAreRequests
<1>3. CASE MuteSound \/ Watchdog
  BY <1>3, SilenceIInv DEF MuteSound, Watchdog
<1>4. CASE StartFrame \/ NoLoop \/ RequestOfPlaying
  BY <1>4, PassIInv
<1>5. CASE RequestTrack \/ RequestCommand \/ LoopEnds
  BY <1>5, RequestTrackIInv, RequestCommandIInv, LoopEndsIInv
<1>6. ASSUME NEW a \in Answers, CdFrame(a) PROVE IInv'
  <2>1. HandlerFrame
    BY <1>6 DEF CdFrame, HandlerFrame
  <2> QED BY <1>6, <2>1, StartXaIInv, SeekLoopIInv, FadeOutIInv, FadeXaIInv, FadeAllIInv,
             SuspendIInv, ResumeIInv, ForgetSavesIInv, IdleIInv DEF CdFrame
<1> QED BY <1>1, <1>2, <1>3, <1>4, <1>5, <1>6 DEF Next, Frame

\* The overflow, the stop behind a fade and the drop of an idle command all
\* leave a started command where it is.
LEMMA NextKeepsHead ==
  ASSUME IInv, [Next]_vars, busy, busy' PROVE Head(queue') = Head(queue)
<1>1. queue # <<>> /\ queue \in Seq(Commands) /\ Len(queue) < MaxSnd
  BY DEF IInv, TypeOK, StepIsOfTheHead
<1>2. \A c \in Commands : /\ Push(queue, c) \in Seq(Commands) /\ Len(Push(queue, c)) < MaxSnd
                          /\ Push(queue, c) # <<>> /\ Head(Push(queue, c)) = Head(queue)
  BY <1>1, PushKeeps
<1>3. CASE RequestTrack \/ RequestCommand \/ LoopEnds
  <2>1. {"START_XA", "FADE_OUT_2", "COMMAND_6"} \subseteq Commands
    BY DEF Commands
  <2>2. CASE RequestTrack
    <3> DEFINE faded == IF playing = NoTrack THEN queue ELSE Push(queue, "FADE_OUT_2")
    <3>1. faded \in Seq(Commands) /\ Len(faded) < MaxSnd /\ faded # <<>>
          /\ Head(faded) = Head(queue) /\ queue' = Push(faded, "START_XA")
      BY <1>1, <1>2, <2>1, <2>2 DEF RequestTrack
    <3> HIDE DEF faded
    <3> QED BY <2>1, <3>1, PushKeeps
  <2>3. CASE RequestCommand
    <3>1. CommandOf[Head(ring)] \in Commands
      BY <2>3 DEF RequestCommand, CommandOf, Commands
    <3> QED BY <1>2, <2>3, <3>1 DEF RequestCommand, AddCommand
  <2>4. CASE LoopEnds
    <3>1. PushResume(queue) \in Seq(Commands) /\ Len(PushResume(queue)) < MaxSnd
          /\ PushResume(queue) # <<>> /\ Head(PushResume(queue)) = Head(queue)
      BY <1>1, PushResumeKeeps
    <3>2. Head(Push(PushResume(queue), "COMMAND_6")) = Head(queue)
      BY <2>1, <3>1, PushKeeps
    <3> QED BY <1>2, <2>1, <2>4, <3>2 DEF LoopEnds, AddLoop, AddCommand
  <2> QED BY <1>3, <2>2, <2>3, <2>4
<1>4. ASSUME NEW a \in Answers, CdFrame(a) PROVE Head(queue') = Head(queue)
  <2>1. step = 0 => \/ Running("START_XA") \/ Running("COMMAND_6")
                    \/ (Running("FADE_OUT_1") \/ Running("FADE_OUT_2")) /\ playing # NoTrack
    BY DEF IInv, StartedInv
  <2>2. CASE StartXa(a) \/ SeekLoop(a)
    BY <2>2 DEF StartXa, SeekLoop, Retry, Finish
  <2>3. ASSUME NEW c \in {"FADE_OUT_1", "FADE_OUT_2"}, FadeOut(c, a)
        PROVE  Head(queue') = Head(queue)
    BY <2>1, <2>3 DEF FadeOut, Running, Goto, Retry, Finish
  <2>4. CASE FadeXa(a)
    BY <2>4 DEF FadeXa, FadeEnds, Goto
  <2>5. CASE FadeAll(a)
    BY <1>2, <2>5 DEF FadeAll, AddCommand, Goto, Finish, Commands
  <2>6. CASE Suspend(a)
    BY <2>1, <2>6 DEF Suspend, Running, Goto, Retry, Finish
  <2>7. CASE Resume(a)
    BY <2>1, <2>7 DEF Resume, Running, Goto, Retry, Finish
  <2>8. CASE ForgetSaves(a)
    <3>1. step = 0 /\ Running("COMMAND_16")
      BY <2>8, HeadIs DEF ForgetSaves, LastStep, Commands
    <3> QED BY <2>1, <3>1 DEF Running
  <2>9. CASE Idle(a)
    BY <2>9 DEF Idle
  <2> QED BY <1>4, <2>2, <2>3, <2>4, <2>5, <2>6, <2>7, <2>8, <2>9 DEF CdFrame
<1>5. CASE UNCHANGED queue
  BY <1>5
<1>6. CASE Silence
  BY <1>6 DEF Silence
<1> QED BY <1>3, <1>4, <1>5, <1>6
        DEF Next, Frame, PlaySfx, MuteSound, Watchdog, StartFrame, NoLoop, RequestOfPlaying, vars

-----------------------------------------------------------------------------
(* Nobody who waits is forgotten. *)

\* The commands that lower a flag.
SuspendCommands == {"COMMAND_12", "START_XA_PLAYBACK"}
FadeCommands == {"COMMAND_10", "COMMAND_8"}

\* What is pending stays, or is lost with an overflow.
Kept(C) == \A c \in C : PendingIn(queue, c) => PendingIn(queue', c) \/ spilled'

\* The same, by the requests these commands come from.
SuspendServed == spilled \/ Coming("SET_UNK_10") \/ Coming("SET_XA_PLAYBACK")
FadeServed == spilled \/ Coming("SET_UNK_80") \/ Coming("SET_UNK_90")

\* Which command each request that raises a flag becomes.
LEMMA CommandsOfWaits ==
  /\ CommandOf["SET_UNK_10"] = "COMMAND_12" /\ CommandOf["SET_XA_PLAYBACK"] = "START_XA_PLAYBACK"
  /\ CommandOf["SET_UNK_80"] = "COMMAND_10" /\ CommandOf["SET_UNK_90"] = "COMMAND_8"
  /\ {"SET_UNK_10", "SET_XA_PLAYBACK", "SET_UNK_80", "SET_UNK_90"} \subseteq DOMAIN CommandOf
BY DEF CommandOf

\* The first request leaves the ring, the others stay.
LEMMA RingTail ==
  ASSUME ring \in Seq(Requests), ring # <<>>
  PROVE  \A r : PendingIn(ring, r) /\ Head(ring) # r => PendingIn(Tail(ring), r)
<1>1. /\ Len(Tail(ring)) = Len(ring) - 1
      /\ \A i \in 1..Len(Tail(ring)) : Tail(ring)[i] = ring[i + 1]
  BY HeadTailProperties, Zenon
<1>2. Len(ring) \in Nat /\ Len(ring) > 0 /\ Head(ring) = ring[1]
  BY EmptySeq, LenProperties
<1> SUFFICES ASSUME NEW r, PendingIn(ring, r), Head(ring) # r PROVE PendingIn(Tail(ring), r)
  OBVIOUS
<1>3. PICK i \in 1..Len(ring) : ring[i] = r
  BY DEF PendingIn
<1>4. i - 1 \in 1..Len(Tail(ring)) /\ Tail(ring)[i - 1] = ring[i]
  BY <1>1, <1>2, <1>3
<1> QED BY <1>3, <1>4 DEF PendingIn

\* A request that is added is in the ring, with those that were there.
LEMMA RingAppend ==
  ASSUME ring \in Seq(Requests), NEW r \in Requests
  PROVE  /\ PendingIn(Append(ring, r), r)
         /\ \A x : PendingIn(ring, x) => PendingIn(Append(ring, r), x)
<1>1. /\ Len(ring) \in Nat /\ Len(Append(ring, r)) = Len(ring) + 1
      /\ \A i \in 1..Len(ring) : Append(ring, r)[i] = ring[i]
      /\ Append(ring, r)[Len(ring) + 1] = r
  OBVIOUS
<1> QED BY <1>1 DEF PendingIn

\* A step that leaves the ring alone, or takes a request from it that nobody
\* waits for, and keeps the commands of those who wait.
LEMMA ServedStays ==
  ASSUME \A r \in DOMAIN CommandOf : PendingIn(ring, r) => PendingIn(ring', r),
         spilled => spilled'
  PROVE  /\ SuspendServed /\ Kept(SuspendCommands) => SuspendServed'
         /\ FadeServed /\ Kept(FadeCommands) => FadeServed'
BY CommandsOfWaits DEF SuspendServed, FadeServed, Coming, Kept, SuspendCommands, FadeCommands

\* One push keeps all that is pending, or the queue has overflowed.
LEMMA PushKeepsAll ==
  ASSUME NEW q \in Seq(Commands), Len(q) < MaxSnd, NEW c \in Commands
  PROVE  \A x : PendingIn(q, x) => PendingIn(Push(q, c), x) \/ Spills(q)
BY PushKeeps

\* Requests and loops push, and do no more.
LEMMA RequestsKeep ==
  ASSUME IInv, RequestTrack \/ RequestCommand \/ LoopEnds
  PROVE  /\ spilled => spilled'
         /\ Kept(SuspendCommands) /\ Kept(FadeCommands)
<1>1. queue \in Seq(Commands) /\ Len(queue) < MaxSnd
  BY DEF IInv, TypeOK
<1>2. {"START_XA", "FADE_OUT_2", "COMMAND_6"} \subseteq Commands
  BY DEF Commands
<1>3. spilled => spilled'
  BY DEF RequestTrack, RequestCommand, LoopEnds, AddCommand, AddLoop
<1>4. CASE RequestTrack
  <2> DEFINE faded == IF playing = NoTrack THEN queue ELSE Push(queue, "FADE_OUT_2")
  <2>1. faded \in Seq(Commands) /\ Len(faded) < MaxSnd
    BY <1>1, <1>2, PushKeeps
  <2>2. /\ queue' = Push(faded, "START_XA")
        /\ spilled' = (spilled \/ (playing # NoTrack /\ Spills(queue)) \/ Spills(faded))
    BY <1>4 DEF RequestTrack
  <2>3. \A x : PendingIn(queue, x) => PendingIn(faded, x) \/ spilled'
    BY <1>1, <1>2, <2>2, PushKeepsAll
  <2>4. \A x : PendingIn(faded, x) => PendingIn(Push(faded, "START_XA"), x) \/ Spills(faded)
    <3> HIDE DEF faded
    <3> QED BY <1>2, <2>1, PushKeepsAll
  <2> HIDE DEF faded
  <2> QED BY <1>3, <2>2, <2>3, <2>4 DEF Kept
<1>5. CASE RequestCommand
  <2>1. CommandOf[Head(ring)] \in Commands
    BY <1>5 DEF RequestCommand, CommandOf, Commands
  <2> QED BY <1>1, <1>3, <1>5, <2>1, PushKeepsAll DEF RequestCommand, AddCommand, Kept
<1>6. CASE LoopEnds
  <2>1. CASE UNCHANGED queue
    BY <1>3, <2>1 DEF Kept
  <2>2. ASSUME NEW c \in Commands, AddCommand(c) PROVE Kept(SuspendCommands) /\ Kept(FadeCommands)
    BY <1>1, <2>2, PushKeepsAll DEF AddCommand, Kept
  <2>3. CASE PendingIn(queue, "COMMAND_12") /\ AddLoop
    <3>1. queue # <<>>
      BY <2>3 DEF PendingIn
    <3>2. /\ PushResume(queue) \in Seq(Commands) /\ Len(PushResume(queue)) < MaxSnd
          /\ \A x : PendingIn(queue, x) => PendingIn(PushResume(queue), x) \/ Spills(queue)
      BY <1>1, <3>1, PushResumeKeeps
    <3>3. /\ queue' = Push(PushResume(queue), "COMMAND_6")
          /\ spilled' = (spilled \/ Spills(queue) \/ Spills(PushResume(queue)))
      BY <2>3 DEF AddLoop
    <3>4. \A x : PendingIn(PushResume(queue), x)
                   => PendingIn(queue', x) \/ Spills(PushResume(queue))
      BY <1>2, <3>2, <3>3, PushKeepsAll
    <3> QED BY <3>2, <3>3, <3>4 DEF Kept
  <2>4. UNCHANGED queue \/ AddCommand("FADE_OUT_2") \/ AddLoop
    BY <1>6 DEF LoopEnds
  <2>5. AddLoop => PendingIn(queue, "COMMAND_12") \/ AddCommand("COMMAND_6")
    BY DEF AddLoop
  <2> QED BY <1>2, <1>3, <2>1, <2>2, <2>3, <2>4, <2>5
<1> QED BY <1>4, <1>5, <1>6

\* A handler lowers the flag before, or when, its command leaves the queue.
LEMMA HandlersServe ==
  ASSUME IInv, NEW a \in Answers, CdFrame(a)
  PROVE  /\ spilled => spilled'
         /\ suspending' => suspending /\ Kept(SuspendCommands)
         /\ fading' => fading /\ Kept(FadeCommands)
<1>1. queue \in Seq(Commands) /\ Len(queue) < MaxSnd
  BY DEF IInv, TypeOK
<1>2. \A c : queue # <<>> /\ queue' = Tail(queue) /\ PendingIn(queue, c)
               => PendingIn(queue', c) \/ Head(queue) = c
  BY <1>1, TailKeeps
<1>3. CASE StartXa(a) \/ SeekLoop(a)
  <2>1. /\ queue' = queue \/ queue' = Tail(queue)
        /\ UNCHANGED <<spilled, suspending, fading>>
    BY <1>3 DEF StartXa, SeekLoop, Retry, Finish
  <2>2. queue # <<>> /\ Head(queue) \notin SuspendCommands \cup FadeCommands
    BY <1>3 DEF StartXa, SeekLoop, Running, SuspendCommands, FadeCommands
  <2> QED BY <1>2, <2>1, <2>2 DEF Kept
<1>4. ASSUME NEW c \in {"FADE_OUT_1", "FADE_OUT_2"}, FadeOut(c, a)
      PROVE  /\ spilled => spilled'
             /\ suspending' => suspending /\ Kept(SuspendCommands)
             /\ fading' => fading /\ Kept(FadeCommands)
  <2>1. /\ queue' = queue \/ queue' = Tail(queue)
        /\ UNCHANGED <<spilled, suspending, fading>>
    BY <1>4 DEF FadeOut, Retry, Finish, Advance, Goto
  <2>2. queue # <<>> /\ Head(queue) \notin SuspendCommands \cup FadeCommands
    BY <1>4 DEF FadeOut, Running, SuspendCommands, FadeCommands
  <2> QED BY <1>2, <2>1, <2>2 DEF Kept
<1>5. CASE FadeXa(a)
  <2>1. queue # <<>> /\ Head(queue) = "COMMAND_8" /\ UNCHANGED suspending
    BY <1>5 DEF FadeXa, Running
  <2>2. CASE UNCHANGED <<queue, spilled, fading>>
    BY <2>1, <2>2 DEF Kept
  <2>3. CASE FadeEnds
    <3> DEFINE q == Push(queue, "FADE_OUT_2")
    <3>1. /\ q \in Seq(Commands) /\ q # <<>> /\ Head(q) = "COMMAND_8"
          /\ \A x : PendingIn(queue, x) => PendingIn(q, x) \/ Spills(queue)
      BY <1>1, <2>1, PushKeeps DEF Commands
    <3>2. queue' = Tail(q) /\ spilled' = (spilled \/ Spills(queue)) /\ ~fading'
      BY <2>3 DEF FadeEnds
    <3> HIDE DEF q
    <3>3. \A x : PendingIn(q, x) /\ x # "COMMAND_8" => PendingIn(Tail(q), x)
      BY <3>1, TailKeeps
    <3>4. Kept(SuspendCommands)
      BY <3>1, <3>2, <3>3 DEF Kept, SuspendCommands
    <3> QED BY <2>1, <3>2, <3>4
  <2> QED BY <1>5, <2>2, <2>3 DEF FadeXa, Goto
<1>6. CASE FadeAll(a)
  <2>1. queue # <<>> /\ Head(queue) = "COMMAND_10" /\ UNCHANGED suspending
    BY <1>6 DEF FadeAll, Running
  <2>2. CASE UNCHANGED <<queue, spilled, fading>>
    BY <2>1, <2>2 DEF Kept
  <2>3. CASE AddCommand("FADE_OUT_1") /\ UNCHANGED fading
    BY <1>1, <2>1, <2>3, PushKeepsAll DEF AddCommand, Kept, Commands
  <2>4. CASE queue' = Tail(queue) /\ UNCHANGED spilled /\ ~fading'
    BY <1>2, <2>1, <2>4 DEF Kept, SuspendCommands
  <2>5. \/ UNCHANGED <<queue, spilled, fading>>
        \/ AddCommand("FADE_OUT_1") /\ UNCHANGED fading
        \/ queue' = Tail(queue) /\ UNCHANGED spilled /\ ~fading'
    BY <1>6 DEF FadeAll, Goto, Finish
  <2> QED BY <2>2, <2>3, <2>4, <2>5
<1>7. CASE Suspend(a) \/ Resume(a)
  <2>1. queue # <<>> /\ Head(queue) \in SuspendCommands /\ UNCHANGED <<fading, spilled>>
    BY <1>7 DEF Suspend, Resume, Running, SuspendCommands, NothingToDo, Advance, Goto, Retry,
                Finish
  <2>2. \/ UNCHANGED <<queue, suspending>>
        \/ queue' = Tail(queue) /\ ~suspending'
    BY <1>7 DEF Suspend, Resume, NothingToDo, Advance, Goto, Retry, Finish
  <2> QED BY <1>2, <2>1, <2>2 DEF Kept, SuspendCommands, FadeCommands
<1>8. CASE ForgetSaves(a)
  BY <1>2, <1>8 DEF ForgetSaves, Running, Advance, Kept, SuspendCommands, FadeCommands
<1>9. CASE Idle(a)
  BY <1>9 DEF Idle, Kept
<1> QED BY <1>3, <1>4, <1>5, <1>6, <1>7, <1>8, <1>9 DEF CdFrame

\* Every step serves those who wait.
LEMMA NextServes ==
  ASSUME IInv, [Next]_vars, WaitersAreServed
  PROVE  WaitersAreServed'
<1> USE DEF WaitersAreServed
<1>1. /\ ring \in Seq(Requests) /\ queue \in Seq(Commands) /\ Len(queue) < MaxSnd
      /\ playing \in Tracks \cup {NoTrack}
  BY DEF IInv, TypeOK
<1>2. /\ suspending => SuspendServed
      /\ fading => FadeServed
  BY DEF SuspendServed, FadeServed
<1>3. SUFFICES /\ suspending' => SuspendServed'
               /\ fading' => FadeServed'
  BY DEF SuspendServed, FadeServed
<1>4. CASE UNCHANGED vars
  BY <1>2, <1>4 DEF vars, game, SuspendServed, FadeServed, Coming
<1>5. ASSUME NEW r \in Asked, PlaySfx(r)
      PROVE  /\ suspending' => SuspendServed'
             /\ fading' => FadeServed'
  <2>1. /\ PendingIn(ring', r)
        /\ \A x : PendingIn(ring, x) => PendingIn(ring', x)
    BY <1>1, <1>5, AskedAreRequests, RingAppend DEF PlaySfx
  <2>2. UNCHANGED <<queue, spilled>>
    BY <1>5 DEF PlaySfx
  <2>3. /\ SuspendServed => SuspendServed'
        /\ FadeServed => FadeServed'
    BY <2>1, <2>2, ServedStays DEF Kept
  <2>4. /\ suspending' => suspending \/ SuspendServed'
        /\ fading' => fading \/ FadeServed'
    BY <1>5, <2>1 DEF PlaySfx, SuspendServed, FadeServed, Coming
  <2> QED BY <1>2, <2>3, <2>4
<1>6. CASE MuteSound \/ Watchdog
  BY <1>6 DEF MuteSound, Watchdog, Silence
<1>7. CASE StartFrame \/ NoLoop
  BY <1>2, <1>7 DEF StartFrame, NoLoop, game, SuspendServed, FadeServed, Coming
<1>8. CASE RequestOfPlaying \/ RequestTrack
  <2>1. ring # <<>> /\ ring' = Tail(ring) /\ Head(ring) \notin DOMAIN CommandOf
    BY <1>1, <1>8, AskedAreRequests DEF RequestOfPlaying, RequestTrack
  <2>2. \A r \in DOMAIN CommandOf : PendingIn(ring, r) => PendingIn(ring', r)
    BY <1>1, <2>1, RingTail
  <2>3. /\ spilled => spilled'
        /\ Kept(SuspendCommands) /\ Kept(FadeCommands)
    BY <1>8, RequestsKeep DEF RequestOfPlaying, Kept
  <2>4. UNCHANGED <<suspending, fading>>
    BY <1>8 DEF RequestOfPlaying, RequestTrack
  <2> QED BY <1>2, <2>2, <2>3, <2>4, ServedStays
<1>9. CASE RequestCommand
  <2>1. /\ ring # <<>> /\ ring' = Tail(ring) /\ Head(ring) \in DOMAIN CommandOf
        /\ UNCHANGED <<suspending, fading>> /\ AddCommand(CommandOf[Head(ring)])
    BY <1>9 DEF RequestCommand
  <2>2. /\ spilled => spilled'
        /\ Kept(SuspendCommands) /\ Kept(FadeCommands)
    BY <1>9, RequestsKeep
  <2>3. CommandOf[Head(ring)] \in Commands
    BY <2>1 DEF CommandOf, Commands
  <2>4. PendingIn(queue', CommandOf[Head(ring)]) \/ spilled'
    BY <1>1, <2>1, <2>3, PushKeeps DEF AddCommand
  <2>5. \A r : PendingIn(ring, r) => PendingIn(ring', r) \/ r = Head(ring)
    BY <1>1, <2>1, RingTail
  <2>6. ASSUME NEW r \in {"SET_UNK_10", "SET_XA_PLAYBACK", "SET_UNK_80", "SET_UNK_90"}, Coming(r)
        PROVE  Coming(r)' \/ spilled'
    <3>1. CommandOf[r] \in SuspendCommands \cup FadeCommands
      BY CommandsOfWaits DEF SuspendCommands, FadeCommands
    <3> QED BY <2>2, <2>4, <2>5, <2>6, <3>1 DEF Coming, Kept
  <2> QED BY <1>2, <2>1, <2>2, <2>6 DEF SuspendServed, FadeServed
<1>10. CASE LoopEnds
  <2>1. UNCHANGED <<ring, suspending, fading>>
    BY <1>10 DEF LoopEnds, game
  <2> QED BY <1>2, <1>10, <2>1, RequestsKeep, ServedStays
<1>11. ASSUME NEW a \in Answers, CdFrame(a)
       PROVE  /\ suspending' => SuspendServed'
              /\ fading' => FadeServed'
  <2>1. UNCHANGED ring
    BY <1>11 DEF CdFrame
  <2> QED BY <1>2, <1>11, <2>1, HandlersServe, ServedStays
<1> QED BY <1>4, <1>5, <1>6, <1>7, <1>8, <1>9, <1>10, <1>11 DEF Next, Frame

-----------------------------------------------------------------------------
(* What the driver guarantees. *)

\* The invariant holds in every behaviour of the driver.
THEOREM CdSoundInvariant == Spec => []IInv
<1>1. IInv /\ [Next]_vars => IInv'
  BY NextIInv
<1> QED BY InitIInv, <1>1, PTL DEF Spec

\* Every variable stays within its range: no queue of the driver overruns.
THEOREM CdSoundTypeOK == Spec => []TypeOK
<1>1. IInv => TypeOK
  BY DEF IInv
<1> QED BY <1>1, CdSoundInvariant, PTL

\* The shared step counter always stands at a case of the command at the head.
THEOREM StepsBelongToTheHead == Spec => []StepIsOfTheHead
<1>1. IInv => StepIsOfTheHead
  BY DEF IInv
<1> QED BY <1>1, CdSoundInvariant, PTL

\* Suspends and resumes stay within the two slots and match each other.
THEOREM SavedTracksNest == Spec => []SavedTracks
<1>1. IInv => SavedTracks
  BY DEF IInv
<1> QED BY <1>1, CdSoundInvariant, PTL

\* Whoever took the master volume down, a command that brings it back is there.
THEOREM MasterVolumeIsRestored == Spec => []MasterVolumeComesBack
<1>1. IInv => MasterVolumeComesBack
  BY DEF IInv
<1> QED BY <1>1, CdSoundInvariant, PTL

\* A command that has started is never thrown away before it ends.
THEOREM StartedCommandsStay == Spec => RunningCommandStays
<1>1. IInv /\ [Next]_vars => [busy /\ busy' => Head(queue') = Head(queue)]_vars
  BY NextKeepsHead
<1> QED BY <1>1, CdSoundInvariant, PTL DEF Spec, RunningCommandStays

\* Whoever waits for a suspend, a resume or a fade has a command on its way
\* that tells it, or the command queue has overflowed.
THEOREM WaitersHaveACommand == Spec => []WaitersAreServed
<1>1. Init => WaitersAreServed
  BY DEF Init, WaitersAreServed
<1>2. IInv /\ [Next]_vars /\ WaitersAreServed => WaitersAreServed'
  BY NextServes
<1> QED BY <1>1, <1>2, CdSoundInvariant, PTL DEF Spec
=============================================================================
