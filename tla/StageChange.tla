----------------------------- MODULE StageChange -----------------------------
(***************************************************************************)
(* The clients of the CD file loader that take the player from one stage   *)
(* to the next: the corridor between two stages (func_800E414C), the steps *)
(* of HandlePlay that load a stage, the start of a game (HandleNowLoading) *)
(* and the soft reset of MainGame, over the loader of CdLoad.              *)
(*                                                                         *)
(* The game's code runs once a frame before UpdateCd.  What it knows of    *)
(* the loader is g_IsUsingCd, a copy made when UpdateCd last began.        *)
(***************************************************************************)
EXTENDS CdLoad

CONSTANT ChrStages   \* stages HandlePlay loads the graphics of by itself

ASSUME ChrAssumption == ChrStages \subseteq Stages

VARIABLES
    pc,          \* what the game does
    zone,        \* the part of the corridor the player is in, 0 is left
    unk2,        \* D_8003C708.unk2, the state of the corridor
    dest, back   \* D_8003C710, D_8003C712: the stages on its two sides

corridorVars == <<zone, unk2, dest, back>>
vars == <<loadVars, pc, corridorVars>>

\* posX < 8, < 0x78, between, > 0x88, > 248
LeftEdge == 0
Left == 1
Middle == 2
Right == 3
RightEdge == 4
Zones == LeftEdge..RightEdge

Pcs == {"run", "corridor", "room", "nowLoading", "nowPrepare", "loadStageChr", "waitStageChr",
        "loadStageSfx", "waitStageSfx", "loadStagePrg", "waitStagePrg"}

\* The start of a game, up to its first request for a file of the stage.
Starting == pc \in {"nowLoading", "nowPrepare"}

TypeInv ==
    /\ TypeOK
    /\ pc \in Pcs /\ zone \in Zones /\ unk2 \in 0..3
    /\ dest \in Stages /\ back \in Stages

Init ==
    /\ LoadInitState
    /\ pc = "nowLoading" /\ zone = RightEdge /\ unk2 = 0
    /\ dest = stage /\ back = stage

(***************************************************************************)
(* The game's part of a frame.                                             *)
(***************************************************************************)
Game(p) == phase = "game" /\ phase' = "poll" /\ pc = p

\* A request is two or three assignments, whatever the loader is doing.
Request(f) ==
    /\ step' = "LoadInit" /\ loadFile' = f
    /\ UNCHANGED <<using, again, fileVars, left, status, vab, mem, driveVars, syncVars,
                   polled, histVars>>
NoRequest ==
    UNCHANGED <<step, loadFile, ovl, using, again, fileVars, xferVars, driveVars, syncVars,
                polled, histVars>>

\* The player enters the corridor between the stage and another, from the right.
EnterCorridor ==
    /\ Game("run")
    /\ \E s \in Stages \ {stage} : dest' = s
    /\ back' = stage
    /\ pc' = "corridor" /\ zone' = RightEdge /\ unk2' = 0
    /\ NoRequest /\ UNCHANGED stage

\* The player moves by at most a zone a frame, and then func_800E414C runs.
\* Its first state stops the music.  Its second waits for that, and prefetches
\* the graphics of the other stage; its last two load those of the side of the
\* corridor the player turns to.  Only the first runs at the edges.  Assumed of
\* the player: the music has stopped before the middle of the corridor is passed.
Move == /\ zone' \in {z \in Zones : z <= zone + 1 /\ zone <= z + 1}
        /\ zone' <= Left => unk2 >= 2

CorridorStop == unk2 = 0 /\ unk2' = 1 /\ NoRequest

CorridorPrefetch ==
    /\ unk2 = 1 /\ zone' \in Left..Right
    /\ unk2' = 2
    /\ Request("Prefetch") /\ ovl' = dest /\ UNCHANGED hooked

CorridorLoadDest(from, towards, s) ==
    /\ unk2 = from /\ zone' = towards
    /\ unk2' = IF from = 2 THEN 3 ELSE 2
    /\ Request("StageChr") /\ ovl' = dest /\ hooked' = FALSE

CorridorLoad(from, towards, s) ==
    /\ unk2 = from /\ zone' = towards
    /\ unk2' = IF from = 2 THEN 3 ELSE 2
    /\ Request("StageChr") /\ ovl' = s /\ hooked' = FALSE

CorridorNothing ==
    /\ \/ unk2 = 1
       \/ unk2 = 2 /\ zone' # Left
       \/ unk2 = 3 /\ zone' # Right
    /\ NoRequest /\ UNCHANGED unk2

Corridor ==
    /\ Game("corridor")
    /\ Move
    /\ \/ CorridorStop
       \/ CorridorPrefetch
       \/ CorridorLoad(2, Left, dest)
       \/ CorridorLoad(3, Right, back)
       \/ CorridorNothing
    /\ UNCHANGED <<stage, pc, dest, back>>

\* Out of the corridor to the left, into the other stage.
PrepareNextStage ==
    /\ Game("corridor")
    /\ zone = LeftEdge
    /\ stage' = dest /\ pc' = "loadStageChr"
    /\ NoRequest /\ UNCHANGED corridorVars

\* Out of the corridor to the right, and back into a room of the stage when
\* no load is under way (Engine_3, MENU_STEP_EXIT_BEGIN).
LeaveRight ==
    /\ Game("corridor")
    /\ zone = RightEdge /\ unk2 # 0
    /\ pc' = "room"
    /\ NoRequest /\ UNCHANGED <<stage, corridorVars>>

EnterRoom ==
    /\ Game("room")
    /\ pc' = IF using THEN "room" ELSE "run"
    /\ NoRequest /\ UNCHANGED <<stage, corridorVars>>

\* A warp, a card or an ending: PrepareNextStage without a corridor.
Warp ==
    /\ Game("run")
    /\ \E s \in ChrStages \ {stage} : stage' = s
    /\ pc' = "loadStageChr"
    /\ NoRequest /\ UNCHANGED corridorVars

LoadStageChr ==
    /\ Game("loadStageChr")
    /\ \/ stage \in ChrStages /\ using /\ NoRequest /\ UNCHANGED pc
       \/ /\ stage \in ChrStages /\ ~using
          /\ Request("StageChr") /\ ovl' = stage /\ UNCHANGED hooked
          /\ pc' = "waitStageChr"
       \/ stage \notin ChrStages /\ NoRequest /\ pc' = "waitStageChr"
    /\ UNCHANGED <<stage, corridorVars>>

Wait(p, next) ==
    /\ Game(p)
    /\ pc' = IF using THEN p ELSE next
    /\ NoRequest /\ UNCHANGED <<stage, corridorVars>>

WaitStageChr == Wait("waitStageChr", "loadStageSfx")

LoadStageSfx ==
    /\ Game("loadStageSfx") /\ pc' = "waitStageSfx"
    /\ Request("StageSfx") /\ ovl' = stage
    /\ UNCHANGED <<hooked, stage, corridorVars>>

WaitStageSfx == Wait("waitStageSfx", "loadStagePrg")

LoadStagePrg ==
    /\ Game("loadStagePrg") /\ pc' = "waitStagePrg"
    /\ Request("StagePrg")
    /\ UNCHANGED <<hooked, ovl, stage, corridorVars>>

WaitStagePrg == Wait("waitStagePrg", "run")

\* The files of the game itself, loaded first, are left out: the game waits for
\* the last of them, and asks for the stage's graphics in the next frame.
NowLoading == Wait("nowLoading", "nowPrepare")

NowPrepare ==
    /\ Game("nowPrepare") /\ pc' = "waitStageChr"
    /\ Request("StageChr") /\ ovl' = stage /\ UNCHANGED hooked
    /\ UNCHANGED <<stage, corridorVars>>

SoftResetHooked ==
    /\ phase = "game" /\ faults < MaxFaults /\ faults' = faults + 1
    /\ step' = "None"
    /\ stage' \in Stages /\ pc' = "nowLoading"
    /\ UNCHANGED <<hooked, loadFile, ovl, using, again, fileVars, left, status, vab, mem,
                   driveVars, syncVars, phase, polled, spoiled, missed, corridorVars>>

\* After UpdateCd, in any state of the game.  g_LoadFile and D_800ACD7C keep
\* their values, and the drive does what it did.
SoftReset ==
    /\ phase = "game" /\ faults < MaxFaults /\ faults' = faults + 1
    /\ hooked' = FALSE /\ step' = "None"
    /\ stage' \in Stages /\ pc' = "nowLoading"
    /\ UNCHANGED <<loadFile, ovl, using, again, fileVars, left, status, vab, mem, driveVars,
                   syncVars, phase, polled, spoiled, missed, corridorVars>>

GameFrame ==
    \/ EnterCorridor \/ Corridor \/ PrepareNextStage \/ LeaveRight \/ EnterRoom \/ Warp
    \/ LoadStageChr \/ WaitStageChr \/ LoadStageSfx \/ WaitStageSfx \/ LoadStagePrg
    \/ WaitStagePrg \/ NowLoading \/ NowPrepare

Next ==
    \/ GameFrame \/ SoftReset
    \/ (UpdateCd \/ Drive) /\ UNCHANGED <<pc, corridorVars>>

(***************************************************************************)
(* The frame loop never stops; a drive that reads delivers, answers what   *)
(* it is asked, the sound memory takes what it is sent, and the player     *)
(* closes a lid that was opened.  The answers of the drive do not for ever *)
(* fall between the poll of UpdateCd and its end, where the next command   *)
(* of the frame would drop them.                                           *)
(***************************************************************************)
Spec == Init /\ [][Next]_vars
FairSpec ==
    /\ Spec
    /\ WF_vars(GameFrame) /\ WF_vars(UpdateCd /\ UNCHANGED <<pc, corridorVars>>)
    /\ WF_vars(Sector /\ UNCHANGED <<pc, corridorVars>>)
    /\ SF_vars(phase = "game" /\ Answer /\ UNCHANGED <<pc, corridorVars>>)
    /\ WF_vars(VabSent /\ UNCHANGED <<pc, corridorVars>>)
    /\ WF_vars(LidClose /\ UNCHANGED <<pc, corridorVars>>)

(***************************************************************************)
(* Properties.                                                             *)
(***************************************************************************)
FilesOf(s) == Files \ (IF s \in SeqStages THEN {} ELSE {"Seq"})

\* A stage starts with its own graphics, sounds, program and music in memory:
\* whatever the player did in the corridor before it, whichever loads were cut
\* short, retried or struck by an error, except one nobody noticed.
StageStartsLoaded ==
    pc = "run" => \A f \in FilesOf(stage) \ missed : mem[f] = stage

\* Memory stays as it is while the game is told that the CD is idle: no
\* step, error, request or reset leaves a callback behind that goes on writing.
IdleMemoryIsStable == [][mem' # mem => using]_vars

\* The copy the game reads may be a frame old.  It never says idle while a
\* file is being loaded, or the next request would cut the load short; it may
\* hide only that the lid was opened, or a reset.
IdleIsIdle ==
    phase = "game" /\ ~using => step \in {"None", "CdShellOpenErr"}

\* A wait is for something that comes, or for the player.  An answer the loader
\* waits for is on its way; where it waits for the blocks of a file, the drive
\* reads, or what stopped it is on record, as the flag of the lid or an error not
\* yet looked at, unless an error of that file went unnoticed; and a request is
\* not lost: nothing is left to load when the loader rests.
WaitIsForSomething ==
    /\ sync = "NoIntr" => pending # "none"
    /\ step = "Step5" /\ status = "busy" /\ cb \notin missed =>
         \/ reading /\ hooked /\ left # 0
         \/ shell \/ sync = "DiskError"
         \/ phase = "switch" /\ polled = "DiskError"
    /\ step = "None" /\ ~Starting => loadFile = "None"

\* A game that waits for the CD goes on in the end, if the file did not meet
\* an error nobody noticed: then it may wait for ever.
Waiting == pc \notin {"run", "corridor"}
WaitEnds == Waiting ~> (~Waiting \/ missed # {})
=============================================================================
