-------------------------- MODULE StageChangeProofs --------------------------
(***************************************************************************)
(* A stage starts with its files in memory, for all sets of stages, file   *)
(* lengths and numbers of faults.                                          *)
(*                                                                         *)
(* The argument has three layers.  Quiet says where the loader may be when *)
(* it has nothing to load and when the game is told so: it keeps requests  *)
(* from cutting a load short.  Transfer follows the file in hand: what is  *)
(* read is what was asked for, and a block that was not read is on its way *)
(* to be noticed, or in missed.  Client says, for every place in the       *)
(* game's code, which files are in memory and which one is on its way.     *)
(***************************************************************************)
EXTENDS StageChange, TLAPS

\* The file is there, or a fault was done to it that nobody noticed.
Good(f, s) == mem[f] = s \/ f \in missed

\* The stage whose file a request is for.
Target(f) == IF f \in {"StageChr", "StageSfx"} THEN ovl ELSE stage

Quiet ==
    /\ hooked => step = "Step5" /\ left # 0
    /\ step = "Seek" => left # 0
    /\ loadFile = "None" => step \in {"None", "LoadInit", "Retry", "RetryXa"} \cup Shell
    /\ step = "RetryXa" => loadFile = "None"
    /\ step = "None" => loadFile = "None" \/ Starting
    /\ step \in {"Seek", "Step5", "Step6"} => loadFile \in Files
    /\ step = "Complete" => loadFile = "Prefetch"
    /\ phase = "poll" /\ ~using => step \in {"None", "CdShellOpenErr", "LoadInit"}
    /\ phase \in {"switch", "tail"} /\ ~using => step = "None"
    /\ pc \in {"run", "loadStageSfx", "loadStagePrg"} => loadFile = "None"
    /\ pc = "corridor" /\ unk2 <= 1 => loadFile = "None"
    /\ phase = "game" /\ ~using =>
         /\ step \in {"None", "CdShellOpenErr"}
         /\ loadFile = "None" \/ Starting
    /\ pc = "nowPrepare" => step \in {"None", "CdShellOpenErr", "F1"}
    /\ pc = "nowPrepare" /\ phase \in {"poll", "switch"} => step # "F1"

\* A block of the file in hand was not read, and the error is still there to
\* be reported by CdSync.
Reported ==
    \/ sync = "DiskError"
    \/ phase = "switch" /\ polled = "DiskError"

Transfer == ~Starting =>
    /\ phase = "switch" /\ loadFile \in {"StageChr", "StageSfx", "StagePrg"} =>
         lba[loadFile] = Target(loadFile)
    /\ phase = "switch" /\ loadFile = "StagePrg" /\ stage \in SeqStages =>
         lba["Seq"] = stage
    /\ loadFile = "Seq" => lba["Seq"] = stage
    /\ step \in {"Seek", "Step5", "Step6"} =>
         cb = loadFile /\ pos = [file |-> loadFile, stage |-> Target(loadFile)]
    /\ step = "Seek" => ~spoiled /\ status = "busy"
    /\ step = "Step5" /\ hooked => status = "busy"
    /\ step = "Step5" /\ status = "done" => spoiled \/ mem[cb] = pos.stage
    /\ step = "Step5" /\ status \in {"busy", "done"} /\ spoiled =>
         cb \in missed \/ Reported
    /\ step = "Step6" => Good(cb, pos.stage)

\* The graphics of s are in memory, or on their way.
Chr(s) ==
    \/ loadFile = "StageChr" /\ ovl = s
    \/ loadFile \in {"None", "Prefetch"} /\ Good("StageChr", s)

Rest(s) == \A f \in FilesOf(s) \ {"StageChr"} : Good(f, s)

Client ==
    /\ pc = "run" => Good("StageChr", stage) /\ Rest(stage)
    /\ pc = "corridor" =>
         /\ back = stage /\ Rest(stage)
         /\ Chr(IF unk2 = 3 THEN dest ELSE back)
         /\ zone <= Left => unk2 = 3
         /\ zone >= Right => unk2 # 3
    /\ pc = "room" => Chr(stage) /\ Rest(stage)
    /\ pc = "loadStageChr" =>
         /\ loadFile \in {"None", "Prefetch", "StageChr"}
         /\ stage \in ChrStages \/ Chr(stage)
    /\ pc = "waitStageChr" => Chr(stage)
    /\ pc = "loadStageSfx" => Good("StageChr", stage)
    /\ pc = "waitStageSfx" =>
         /\ Good("StageChr", stage)
         /\ \/ loadFile = "StageSfx" /\ ovl = stage
            \/ loadFile = "None" /\ Good("StageSfx", stage)
    /\ pc = "loadStagePrg" => Good("StageChr", stage) /\ Good("StageSfx", stage)
    /\ pc = "waitStagePrg" =>
         /\ Good("StageChr", stage) /\ Good("StageSfx", stage)
         /\ \/ loadFile = "StagePrg"
            \/ loadFile = "Seq" /\ Good("StagePrg", stage) /\ stage \in SeqStages
            \/ loadFile = "None" /\ Rest(stage)

IInv == TypeInv /\ Quiet /\ Transfer /\ Client
USE DEF Starting, clientVars, fileVars, xferVars, driveVars, syncVars, histVars, loadVars,
        corridorVars, vars

(***************************************************************************)
(* Type correctness, an action at a time.  The Boolean variables are kept  *)
(* apart from the others.                                                  *)
(***************************************************************************)
Flags ==
    /\ using \in BOOLEAN /\ again \in BOOLEAN /\ hooked \in BOOLEAN /\ vab \in BOOLEAN
    /\ lid \in BOOLEAN /\ shell \in BOOLEAN /\ reading \in BOOLEAN
    /\ seen \in BOOLEAN /\ spoiled \in BOOLEAN

Others ==
    /\ step \in Steps /\ loadFile \in Requests /\ ovl \in Stages /\ stage \in Stages
    /\ lba \in [Files -> Stages] /\ cb \in Files /\ left \in Nat
    /\ status \in {"busy", "done", "late", "header", "body"}
    /\ mem \in [Files -> Stages \cup {Junk}]
    /\ pos \in [file : Files, stage : Stages]
    /\ sync \in Answers /\ pending \in {"none", "Nop", "Done"}
    /\ phase \in {"game", "poll", "switch", "tail"} /\ polled \in Answers
    /\ missed \subseteq Files /\ faults \in 0..MaxFaults
    /\ pc \in Pcs /\ zone \in Zones /\ unk2 \in 0..3
    /\ dest \in Stages /\ back \in Stages

LEMMA TypeParts == (TypeInv <=> Flags /\ Others) /\ (TypeInv' <=> Flags' /\ Others')
  BY DEF TypeInv, TypeOK, Flags, Others

LEMMA TypeUpdateCdHead ==
    ASSUME TypeInv, UpdateCdHead, UNCHANGED <<pc, corridorVars>>
    PROVE  TypeInv'
<1>1. Flags'
  BY TypeParts DEF UpdateCdHead, Flags
<1>2. Others'
  BY TypeParts DEF UpdateCdHead, FileTable, Others, Answers
<1> QED BY <1>1, <1>2, TypeParts

LEMMA TypeNone == ASSUME TypeInv, None, UNCHANGED <<pc, corridorVars>> PROVE TypeInv'
<1>1. Flags'
  BY TypeParts DEF None, At, Stay, Flags
<1>2. Others'
  BY TypeParts DEF None, At, Stay, Others, Answers
<1> QED BY <1>1, <1>2, TypeParts

LEMMA TypeLoadInit == ASSUME TypeInv, LoadInit, UNCHANGED <<pc, corridorVars>> PROVE TypeInv'
<1>1. Flags'
  BY TypeParts DEF LoadInit, At, Stay, Become, Control, Flags
<1>2. Others'
  BY TypeParts DEF LoadInit, At, Stay, Become, Control, Advance, Others, Answers, Steps, Loading
<1> QED BY <1>1, <1>2, TypeParts

LEMMA TypeSetSpeed == ASSUME TypeInv, SetSpeed, UNCHANGED <<pc, corridorVars>> PROVE TypeInv'
<1>1. Flags'
  BY TypeParts DEF SetSpeed, At, Stay, Control, Flags
<1>2. Others'
  BY TypeParts DEF SetSpeed, At, Stay, Control, Advance, Others, Answers, Steps, Loading
<1> QED BY <1>1, <1>2, TypeParts

LEMMA TypeSeek == ASSUME TypeInv, Seek, UNCHANGED <<pc, corridorVars>> PROVE TypeInv'
<1>1. Flags'
  BY TypeParts DEF Seek, At, Stay, Control, Flags
<1>2. Others'
  BY TypeParts DEF Seek, At, Stay, Control, Advance, Others, Answers, Steps, Loading
<1> QED BY <1>1, <1>2, TypeParts

LEMMA TypeStep5 == ASSUME TypeInv, Step5, UNCHANGED <<pc, corridorVars>> PROVE TypeInv'
<1>1. Flags'
  BY TypeParts DEF Step5, At, Stay, Abandon, Control, Flags
<1>2. Others'
  BY TypeParts
  DEF Step5, At, Stay, Abandon, Control, Advance, Others, Answers, Steps, Loading, Errors
<1> QED BY <1>1, <1>2, TypeParts

LEMMA TypeStep6 == ASSUME TypeInv, Step6, UNCHANGED <<pc, corridorVars>> PROVE TypeInv'
<1>1. Flags'
  BY TypeParts DEF Step6, At, Abandon, Control, Flags
<1>2. Others'
  BY TypeParts
  DEF Step6, At, Abandon, Control, Advance, NextFile, Others, Answers, Steps, Loading, Errors,
      Requests, Files
<1> QED BY <1>1, <1>2, TypeParts

LEMMA TypeComplete == ASSUME TypeInv, Complete, UNCHANGED <<pc, corridorVars>> PROVE TypeInv'
<1>1. Flags'
  BY TypeParts DEF Complete, At, Stay, Abandon, Flags
<1>2. Others'
  BY TypeParts DEF Complete, At, Stay, Abandon, Others, Answers, Steps, Errors, Requests
<1> QED BY <1>1, <1>2, TypeParts

LEMMA TypeError == ASSUME TypeInv, Error, UNCHANGED <<pc, corridorVars>> PROVE TypeInv'
<1>1. Flags'
  BY TypeParts DEF Error, At, Become, Flags
<1>2. Others'
  BY TypeParts DEF Error, At, Become, Others, Answers, Steps
<1> QED BY <1>1, <1>2, TypeParts

LEMMA TypeRetry == ASSUME TypeInv, Retry, UNCHANGED <<pc, corridorVars>> PROVE TypeInv'
<1>1. Flags'
  BY TypeParts DEF Retry, At, CdInit, Flags
<1>2. Others'
  BY TypeParts DEF Retry, At, CdInit, Others, Answers, Steps, Loading
<1> QED BY <1>1, <1>2, TypeParts

LEMMA TypeRetryXa == ASSUME TypeInv, RetryXa, UNCHANGED <<pc, corridorVars>> PROVE TypeInv'
<1>1. Flags'
  BY TypeParts DEF RetryXa, At, CdInit, Flags
<1>2. Others'
  BY TypeParts DEF RetryXa, At, CdInit, Others, Answers, Steps
<1> QED BY <1>1, <1>2, TypeParts

LEMMA TypeCdShellOpenErr ==
    ASSUME TypeInv, CdShellOpenErr, UNCHANGED <<pc, corridorVars>>
    PROVE  TypeInv'
<1>1. Flags'
  BY TypeParts DEF CdShellOpenErr, At, ControlF, Flags
<1>2. Others'
  BY TypeParts DEF CdShellOpenErr, At, ControlF, Others, Answers, Steps, Shell
<1> QED BY <1>1, <1>2, TypeParts

LEMMA TypeF1 == ASSUME TypeInv, F1, UNCHANGED <<pc, corridorVars>> PROVE TypeInv'
<1>1. Flags'
  BY TypeParts DEF F1, At, Stay, Become, Flags
<1>2. Others'
  BY TypeParts DEF F1, At, Stay, Become, Others, Answers, Steps, Shell
<1> QED BY <1>1, <1>2, TypeParts

LEMMA TypeF2 == ASSUME TypeInv, F2, UNCHANGED <<pc, corridorVars>> PROVE TypeInv'
<1>1. Flags'
  BY TypeParts DEF F2, At, ControlF, Flags
<1>2. Others'
  BY TypeParts DEF F2, At, ControlF, Others, Answers, Steps, Shell
<1> QED BY <1>1, <1>2, TypeParts

LEMMA TypeF3 == ASSUME TypeInv, F3, UNCHANGED <<pc, corridorVars>> PROVE TypeInv'
<1>1. Flags'
  BY TypeParts DEF F3, At, Stay, Become, Flags
<1>2. Others'
  BY TypeParts DEF F3, At, Stay, Become, Others, Answers, Steps, Shell
<1> QED BY <1>1, <1>2, TypeParts

LEMMA TypeUpdateCdTail ==
    ASSUME TypeInv, UpdateCdTail, UNCHANGED <<pc, corridorVars>>
    PROVE  TypeInv'
<1>1. Flags'
  BY TypeParts DEF UpdateCdTail, ControlF, Flags
<1>2. Others'
  BY TypeParts DEF UpdateCdTail, ControlF, Others, Answers, Steps, Shell
<1> QED BY <1>1, <1>2, TypeParts

LEMMA TypeLidClose == ASSUME TypeInv, LidClose, UNCHANGED <<pc, corridorVars>> PROVE TypeInv'
<1>1. Flags'
  BY TypeParts DEF LidClose, ElseUnchanged, Flags
<1>2. Others'
  BY TypeParts DEF LidClose, ElseUnchanged, Others
<1> QED BY <1>1, <1>2, TypeParts

LEMMA TypeAnswer == ASSUME TypeInv, Answer, UNCHANGED <<pc, corridorVars>> PROVE TypeInv'
<1>1. Flags'
  BY TypeParts DEF Answer, ElseUnchanged, Flags
<1>2. Others'
  BY TypeParts DEF Answer, ElseUnchanged, Others, Answers
<1> QED BY <1>1, <1>2, TypeParts

LEMMA TypeVabSent == ASSUME TypeInv, VabSent, UNCHANGED <<pc, corridorVars>> PROVE TypeInv'
<1>1. Flags'
  BY TypeParts DEF VabSent, ElseUnchanged, Flags
<1>2. Others'
  BY TypeParts DEF VabSent, ElseUnchanged, Others
<1> QED BY <1>1, <1>2, TypeParts

LEMMA TypeEnterCorridor == ASSUME TypeInv, EnterCorridor PROVE TypeInv'
<1>1. Flags'
  BY TypeParts DEF EnterCorridor, NoRequest, Flags
<1>2. Others'
  BY TypeParts DEF EnterCorridor, Game, NoRequest, Others, Pcs, Zones, LeftEdge, RightEdge
<1> QED BY <1>1, <1>2, TypeParts

LEMMA TypePrepareNextStage == ASSUME TypeInv, PrepareNextStage PROVE TypeInv'
<1>1. Flags'
  BY TypeParts DEF PrepareNextStage, NoRequest, Flags
<1>2. Others'
  BY TypeParts DEF PrepareNextStage, Game, NoRequest, Others, Pcs
<1> QED BY <1>1, <1>2, TypeParts

LEMMA TypeLeaveRight == ASSUME TypeInv, LeaveRight PROVE TypeInv'
<1>1. Flags'
  BY TypeParts DEF LeaveRight, NoRequest, Flags
<1>2. Others'
  BY TypeParts DEF LeaveRight, Game, NoRequest, Others, Pcs
<1> QED BY <1>1, <1>2, TypeParts

LEMMA TypeEnterRoom == ASSUME TypeInv, EnterRoom PROVE TypeInv'
<1>1. Flags'
  BY TypeParts DEF EnterRoom, NoRequest, Flags
<1>2. Others'
  BY TypeParts DEF EnterRoom, Game, NoRequest, Others, Pcs
<1> QED BY <1>1, <1>2, TypeParts

LEMMA TypeWarp == ASSUME TypeInv, Warp PROVE TypeInv'
<1>1. Flags'
  BY TypeParts , ChrAssumption DEF Warp, NoRequest, Flags
<1>2. Others'
  BY TypeParts , ChrAssumption DEF Warp, Game, NoRequest, Others, Pcs
<1> QED BY <1>1, <1>2, TypeParts

LEMMA TypeLoadStageChr == ASSUME TypeInv, LoadStageChr PROVE TypeInv'
<1>1. Flags'
  BY TypeParts DEF LoadStageChr, Request, NoRequest, Flags
<1>2. Others'
  BY TypeParts
  DEF LoadStageChr, Game, Request, NoRequest, Others, Steps, Loading, Requests, Files, Pcs
<1> QED BY <1>1, <1>2, TypeParts

LEMMA TypeWaitStageChr == ASSUME TypeInv, WaitStageChr PROVE TypeInv'
<1>1. Flags'
  BY TypeParts DEF WaitStageChr, NoRequest, Wait, Flags
<1>2. Others'
  BY TypeParts DEF WaitStageChr, Game, NoRequest, Wait, Others, Pcs
<1> QED BY <1>1, <1>2, TypeParts

LEMMA TypeLoadStageSfx == ASSUME TypeInv, LoadStageSfx PROVE TypeInv'
<1>1. Flags'
  BY TypeParts DEF LoadStageSfx, Request, Flags
<1>2. Others'
  BY TypeParts DEF LoadStageSfx, Game, Request, Others, Steps, Loading, Requests, Files, Pcs
<1> QED BY <1>1, <1>2, TypeParts

LEMMA TypeWaitStageSfx == ASSUME TypeInv, WaitStageSfx PROVE TypeInv'
<1>1. Flags'
  BY TypeParts DEF WaitStageSfx, NoRequest, Wait, Flags
<1>2. Others'
  BY TypeParts DEF WaitStageSfx, Game, NoRequest, Wait, Others, Pcs
<1> QED BY <1>1, <1>2, TypeParts

LEMMA TypeLoadStagePrg == ASSUME TypeInv, LoadStagePrg PROVE TypeInv'
<1>1. Flags'
  BY TypeParts DEF LoadStagePrg, Request, Flags
<1>2. Others'
  BY TypeParts DEF LoadStagePrg, Game, Request, Others, Steps, Loading, Requests, Files, Pcs
<1> QED BY <1>1, <1>2, TypeParts

LEMMA TypeWaitStagePrg == ASSUME TypeInv, WaitStagePrg PROVE TypeInv'
<1>1. Flags'
  BY TypeParts DEF WaitStagePrg, NoRequest, Wait, Flags
<1>2. Others'
  BY TypeParts DEF WaitStagePrg, Game, NoRequest, Wait, Others, Pcs
<1> QED BY <1>1, <1>2, TypeParts

LEMMA TypeNowLoading == ASSUME TypeInv, NowLoading PROVE TypeInv'
<1>1. Flags'
  BY TypeParts DEF NowLoading, NoRequest, Wait, Flags
<1>2. Others'
  BY TypeParts DEF NowLoading, Game, NoRequest, Wait, Others, Pcs
<1> QED BY <1>1, <1>2, TypeParts

LEMMA TypeNowPrepare == ASSUME TypeInv, NowPrepare PROVE TypeInv'
<1>1. Flags'
  BY TypeParts DEF NowPrepare, Request, Flags
<1>2. Others'
  BY TypeParts
  DEF NowPrepare, Game, Request, Others, Steps, Loading, Requests, Files, Pcs
<1> QED BY <1>1, <1>2, TypeParts

LEMMA TypeSoftReset == ASSUME TypeInv, SoftReset PROVE TypeInv'
<1>1. Flags'
  BY TypeParts DEF SoftReset, Flags
<1>2. Others'
  BY TypeParts, LoadAssumption DEF SoftReset, Others, Steps, Pcs
<1> QED BY <1>1, <1>2, TypeParts

LEMMA TypeCorridor == ASSUME TypeInv, Corridor PROVE TypeInv'
<1>1. Flags'
  <2>1. UNCHANGED <<using, again, vab, lid, shell, reading, seen, spoiled>>
    BY
    DEF Corridor, Request, NoRequest, CorridorStop, CorridorPrefetch, CorridorLoad,
        CorridorNothing
  <2>2. hooked' = hooked \/ hooked' = FALSE
    BY DEF Corridor, NoRequest, CorridorStop, CorridorPrefetch, CorridorLoad, CorridorNothing
  <2> QED BY <2>1, <2>2, TypeParts DEF Flags
<1>2. Others'
  BY TypeParts
  DEF Corridor, Game, Request, NoRequest, Move, CorridorStop, CorridorPrefetch, CorridorLoad,
      CorridorNothing, Others, Steps, Loading, Requests, Files
<1> QED BY <1>1, <1>2, TypeParts

LEMMA TypeSetPos == ASSUME TypeInv, Quiet, SetPos, UNCHANGED <<pc, corridorVars>> PROVE TypeInv'
<1>1. FileOf(loadFile) \in Files /\ (loadFile # "Prefetch" => loadFile \in Files)
  BY DEF Quiet, SetPos, At, FileOf, TypeInv, TypeOK, Requests, Files, Shell
<1>2. Flags'
  BY TypeParts DEF SetPos, At, Stay, Control, Flags
<1>3. Others'
  <2>1. CASE polled = "NoIntr"
    BY <2>1, TypeParts DEF SetPos, At, Stay, Others, Answers
  <2>2. CASE polled # "NoIntr"
    <3>1. cb' \in Files /\ left' \in Nat /\ status' = "busy"
      BY <1>1, <2>2, LoadAssumption DEF SetPos
    <3>2. mem' \in [Files -> Stages \cup {Junk}] /\ missed' \in SUBSET Files
      BY <2>2, TypeParts DEF SetPos, Others
    <3>3. sync' \in Answers /\ pending' \in {"none", "Nop", "Done"}
      BY <2>2, TypeParts DEF SetPos, Control, Others, Answers
    <3>4. pos' \in [file : Files, stage : Stages]
      BY <1>1, <2>2, TypeParts DEF SetPos, Others
    <3>5. step' \in Steps
      BY <2>2, TypeParts DEF SetPos, Advance, At, Steps, Loading
    <3>6. /\ UNCHANGED <<ovl, stage, lba, faults, loadFile>>
          /\ phase' = "tail" /\ polled' = "Complete"
      BY <2>2 DEF SetPos, At
    <3> QED BY <3>1, <3>2, <3>3, <3>4, <3>5, <3>6, TypeParts DEF Others, Answers
  <2> QED BY <2>1, <2>2
<1> QED BY <1>2, <1>3, TypeParts

\* A block keeps the transfer well typed.
LEMMA TypeDeliver ==
  ASSUME TypeInv, Quiet, NEW n \in {0, 1}, faults + n <= MaxFaults, Deliver(n)
  PROVE  /\ left' \in Nat /\ hooked' \in BOOLEAN /\ vab' \in BOOLEAN /\ spoiled' \in BOOLEAN
         /\ status' \in {"busy", "done", "late", "header", "body"}
         /\ mem' \in [Files -> Stages \cup {Junk}]
         /\ missed' \subseteq Files /\ faults' \in 0..MaxFaults
<1> USE LoadAssumption DEF Others, Flags
<1>1. faults' \in 0..MaxFaults
  <2>1. Works(n) \/ Fails(n)
    BY DEF Deliver, CopyBlock, CopyVabHead, TransferVabBody
  <2>2. faults \in Nat /\ n \in Nat
    BY TypeParts
  <2> QED BY <2>1, <2>2 DEF Works, Fails
<1>2. left' \in Nat
  BY TypeParts DEF Deliver, CopyBlock, CopyVabHead, TransferVabBody, Copied, Quiet
<1>3. mem' \in [Files -> Stages \cup {Junk}]
  BY TypeParts DEF Deliver, CopyBlock, CopyVabHead, TransferVabBody, Copied
<1>4. status' \in {"busy", "done", "late", "header", "body"} /\ missed' \subseteq Files
  BY TypeParts DEF Deliver, CopyBlock, CopyVabHead, TransferVabBody
<1>5. hooked' \in BOOLEAN /\ vab' \in BOOLEAN /\ spoiled' \in BOOLEAN
  BY TypeParts DEF Deliver, CopyBlock, CopyVabHead, TransferVabBody, Copied
<1> QED BY <1>1, <1>2, <1>3, <1>4, <1>5

LEMMA TypeSector == ASSUME TypeInv, Quiet, Sector, UNCHANGED <<pc, corridorVars>> PROVE TypeInv'
<1>1. faults + 0 <= MaxFaults /\ Deliver(0)
  BY TypeParts DEF Sector, Others
<1>2. Flags'
  BY <1>1, TypeDeliver, TypeParts DEF Sector, ElseUnchanged, Flags
<1>3. Others'
  BY <1>1, TypeDeliver, TypeParts DEF Sector, ElseUnchanged, Others
<1> QED BY <1>2, <1>3, TypeParts

LEMMA TypeReadError ==
  ASSUME TypeInv, Quiet, ReadError, UNCHANGED <<pc, corridorVars>> PROVE TypeInv'
<1>1. faults + 1 <= MaxFaults /\ Deliver(1)
  BY TypeParts, LoadAssumption DEF ReadError, Others
<1>2. Flags'
  BY <1>1, TypeDeliver, TypeParts DEF ReadError, ElseUnchanged, Flags
<1>3. Others'
  BY <1>1, TypeDeliver, TypeParts DEF ReadError, ElseUnchanged, Others, Answers
<1> QED BY <1>2, <1>3, TypeParts

LEMMA TypeLidOpen ==
  ASSUME TypeInv, Quiet, LidOpen, UNCHANGED <<pc, corridorVars>> PROVE TypeInv'
<1>1. CASE reading /\ sync' = "DiskError" /\ seen' = TRUE /\ Deliver(1)
  <2>1. faults + 1 <= MaxFaults
    BY TypeParts, LoadAssumption DEF LidOpen, Others
  <2>2. Flags'
    BY <1>1, <2>1, TypeDeliver, TypeParts DEF LidOpen, ElseUnchanged, Flags
  <2>3. Others'
    BY <1>1, <2>1, TypeDeliver, TypeParts DEF LidOpen, ElseUnchanged, Others, Answers
  <2> QED BY <2>2, <2>3, TypeParts
<1>2. CASE Works(1) /\ UNCHANGED <<sync, seen, xferVars, spoiled, missed>>
  <2>1. Flags'
    BY <1>2, TypeParts DEF LidOpen, ElseUnchanged, Flags
  <2>2. Others'
    BY <1>2, LoadAssumption, TypeParts DEF LidOpen, ElseUnchanged, Works, Others
  <2> QED BY <2>1, <2>2, TypeParts
<1> QED BY <1>1, <1>2 DEF LidOpen

(***************************************************************************)
(* Quiet: requests and the loader's own steps.                             *)
(***************************************************************************)
LEMMA QuietUpdateCdHead ==
    ASSUME TypeInv, Quiet, UpdateCdHead, UNCHANGED <<pc, corridorVars>>
    PROVE  Quiet'
  BY DEF UpdateCdHead, Quiet

LEMMA QuietNone == ASSUME TypeInv, Quiet, None, UNCHANGED <<pc, corridorVars>> PROVE Quiet'
  BY DEF None, At, Stay, Quiet

LEMMA QuietLoadInit ==
    ASSUME TypeInv, Quiet, LoadInit, UNCHANGED <<pc, corridorVars>>
    PROVE  Quiet'
  BY DEF LoadInit, At, Stay, Become, Advance, Quiet

LEMMA QuietSetSpeed ==
    ASSUME TypeInv, Quiet, SetSpeed, UNCHANGED <<pc, corridorVars>>
    PROVE  Quiet'
  BY DEF SetSpeed, At, Stay, Advance, Quiet, Shell

LEMMA QuietSeek == ASSUME TypeInv, Quiet, Seek, UNCHANGED <<pc, corridorVars>> PROVE Quiet'
  BY DEF Seek, At, Stay, Advance, Quiet, TypeInv, TypeOK, Files

LEMMA QuietStep5 == ASSUME TypeInv, Quiet, Step5, UNCHANGED <<pc, corridorVars>> PROVE Quiet'
  BY DEF Step5, At, Stay, Abandon, Advance, Quiet, Files

LEMMA QuietStep6 == ASSUME TypeInv, Quiet, Step6, UNCHANGED <<pc, corridorVars>> PROVE Quiet'
  BY DEF Step6, At, Abandon, Advance, Quiet, Files

LEMMA QuietComplete ==
    ASSUME TypeInv, Quiet, Complete, UNCHANGED <<pc, corridorVars>>
    PROVE  Quiet'
  BY DEF Complete, At, Stay, Abandon, Quiet

LEMMA QuietError == ASSUME TypeInv, Quiet, Error, UNCHANGED <<pc, corridorVars>> PROVE Quiet'
  BY DEF Error, At, Become, Quiet, Errors

LEMMA QuietRetry == ASSUME TypeInv, Quiet, Retry, UNCHANGED <<pc, corridorVars>> PROVE Quiet'
  BY DEF Retry, At, CdInit, Quiet

LEMMA QuietRetryXa ==
    ASSUME TypeInv, Quiet, RetryXa, UNCHANGED <<pc, corridorVars>>
    PROVE  Quiet'
  BY DEF RetryXa, At, CdInit, Quiet

LEMMA QuietCdShellOpenErr ==
    ASSUME TypeInv, Quiet, CdShellOpenErr, UNCHANGED <<pc, corridorVars>>
    PROVE  Quiet'
  BY DEF CdShellOpenErr, At, Quiet, Shell

LEMMA QuietF1 == ASSUME TypeInv, Quiet, F1, UNCHANGED <<pc, corridorVars>> PROVE Quiet'
  BY DEF F1, At, Stay, Become, Quiet, Shell

LEMMA QuietF2 == ASSUME TypeInv, Quiet, F2, UNCHANGED <<pc, corridorVars>> PROVE Quiet'
  BY DEF F2, At, Quiet, Shell

LEMMA QuietF3 == ASSUME TypeInv, Quiet, F3, UNCHANGED <<pc, corridorVars>> PROVE Quiet'
  BY DEF F3, At, Stay, Become, Quiet, Shell

LEMMA QuietUpdateCdTail ==
    ASSUME TypeInv, Quiet, UpdateCdTail, UNCHANGED <<pc, corridorVars>>
    PROVE  Quiet'
  BY DEF UpdateCdTail, Quiet, Shell

LEMMA QuietSetPos == ASSUME TypeInv, Quiet, SetPos, UNCHANGED <<pc, corridorVars>> PROVE Quiet'
  BY LoadAssumption
  DEF SetPos, At, Stay, Advance, FileOf, Quiet, TypeInv, TypeOK, Shell, Requests

\* After a block that is not the last there are more to come.
LEMMA QuietDeliver ==
  ASSUME TypeInv, Quiet, NEW n, Deliver(n)
  PROVE  (hooked' => hooked /\ left' # 0) /\ (left' = left \/ hooked)
<1>1. left \in Nat /\ BodyBlocks \in Nat \ {0}
  BY TypeParts, LoadAssumption DEF Others
<1>2. CASE hooked /\ CopyBlock(n)
  <2>1. hooked' => left # 1
    BY <1>2, Zenon DEF CopyBlock
  <2> QED BY <1>1, <1>2, <2>1 DEF CopyBlock, Copied
<1>3. CASE hooked /\ CopyVabHead(n)
  BY <1>1, <1>3 DEF CopyVabHead, Copied
<1>4. CASE hooked /\ TransferVabBody(n)
  <2>1. hooked' => left # 1 /\ left' = left - 1
    BY <1>4, Zenon DEF TransferVabBody, Copied
  <2> QED BY <1>1, <1>4, <2>1
<1> QED BY <1>2, <1>3, <1>4 DEF Deliver

LEMMA QuietSector == ASSUME TypeInv, Quiet, Sector, UNCHANGED <<pc, corridorVars>> PROVE Quiet'
  BY QuietDeliver DEF Sector, ElseUnchanged, Quiet

LEMMA QuietReadError ==
    ASSUME TypeInv, Quiet, ReadError, UNCHANGED <<pc, corridorVars>>
    PROVE  Quiet'
<1>1. (hooked' => hooked /\ left' # 0) /\ (left' = left \/ hooked)
  BY QuietDeliver DEF ReadError
<1> QED BY <1>1 DEF ReadError, ElseUnchanged, Quiet

LEMMA QuietLidOpen ==
    ASSUME TypeInv, Quiet, LidOpen, UNCHANGED <<pc, corridorVars>>
    PROVE  Quiet'
<1>1. (hooked' => hooked /\ left' # 0) /\ (left' = left \/ hooked)
  BY QuietDeliver DEF LidOpen, Quiet
<1> QED BY <1>1 DEF LidOpen, ElseUnchanged, Quiet

LEMMA QuietLidClose ==
    ASSUME TypeInv, Quiet, LidClose, UNCHANGED <<pc, corridorVars>>
    PROVE  Quiet'
  BY DEF LidClose, ElseUnchanged, Quiet

LEMMA QuietAnswer == ASSUME TypeInv, Quiet, Answer, UNCHANGED <<pc, corridorVars>> PROVE Quiet'
  BY DEF Answer, ElseUnchanged, Quiet

LEMMA QuietVabSent ==
    ASSUME TypeInv, Quiet, VabSent, UNCHANGED <<pc, corridorVars>>
    PROVE  Quiet'
  BY DEF VabSent, ElseUnchanged, Quiet

LEMMA QuietEnterCorridor == ASSUME TypeInv, Quiet, EnterCorridor PROVE Quiet'
  BY DEF EnterCorridor, Game, NoRequest, Quiet

LEMMA QuietPrepareNextStage == ASSUME TypeInv, Quiet, PrepareNextStage PROVE Quiet'
  BY DEF PrepareNextStage, Game, NoRequest, Quiet

LEMMA QuietLeaveRight == ASSUME TypeInv, Quiet, LeaveRight PROVE Quiet'
  BY DEF LeaveRight, Game, NoRequest, Quiet

LEMMA QuietEnterRoom == ASSUME TypeInv, Quiet, EnterRoom PROVE Quiet'
  BY DEF EnterRoom, Game, NoRequest, Quiet

LEMMA QuietWarp == ASSUME TypeInv, Quiet, Warp PROVE Quiet'
  BY DEF Warp, Game, NoRequest, Quiet

LEMMA QuietLoadStageChr == ASSUME TypeInv, Quiet, LoadStageChr PROVE Quiet'
  BY DEF LoadStageChr, Game, Request, NoRequest, Quiet

LEMMA QuietWaitStageChr == ASSUME TypeInv, Quiet, WaitStageChr PROVE Quiet'
  BY DEF WaitStageChr, Game, NoRequest, Wait, Quiet

LEMMA QuietLoadStageSfx == ASSUME TypeInv, Quiet, LoadStageSfx PROVE Quiet'
  BY DEF LoadStageSfx, Game, Request, Quiet, Files

LEMMA QuietWaitStageSfx == ASSUME TypeInv, Quiet, WaitStageSfx PROVE Quiet'
  BY DEF WaitStageSfx, Game, NoRequest, Wait, Quiet

LEMMA QuietLoadStagePrg == ASSUME TypeInv, Quiet, LoadStagePrg PROVE Quiet'
  BY DEF LoadStagePrg, Game, Request, Quiet, Files

LEMMA QuietWaitStagePrg == ASSUME TypeInv, Quiet, WaitStagePrg PROVE Quiet'
  BY DEF WaitStagePrg, Game, NoRequest, Wait, Quiet

LEMMA QuietNowLoading == ASSUME TypeInv, Quiet, NowLoading PROVE Quiet'
  BY DEF NowLoading, Game, NoRequest, Wait, Quiet

LEMMA QuietNowPrepare == ASSUME TypeInv, Quiet, NowPrepare PROVE Quiet'
  BY DEF NowPrepare, Game, Request, Quiet

LEMMA QuietSoftReset == ASSUME TypeInv, Quiet, SoftReset PROVE Quiet'
  BY DEF SoftReset, Quiet

LEMMA QuietCorridor == ASSUME TypeInv, Quiet, Corridor PROVE Quiet'
<1>1. unk2 \in 0..3 /\ unk2' \in 0..3
  BY TypeCorridor DEF TypeInv
<1>2. CASE NoRequest
  BY <1>1, <1>2
  DEF Corridor, Game, NoRequest, CorridorStop, CorridorPrefetch, CorridorLoad, CorridorNothing,
      Quiet
<1>3. CASE CorridorPrefetch
  BY <1>1, <1>3 DEF Corridor, Game, CorridorPrefetch, Request, Quiet, Shell
<1>4. CASE CorridorLoad(2, Left, dest)
  BY <1>1, <1>4 DEF Corridor, Game, CorridorLoad, Request, Quiet
<1>5. CASE CorridorLoad(3, Right, back)
  BY <1>1, <1>5 DEF Corridor, Game, CorridorLoad, Request, Quiet
<1> QED BY <1>2, <1>3, <1>4, <1>5 DEF Corridor, CorridorStop, CorridorNothing

(***************************************************************************)
(* Transfer.  Only the interrupts of a block and Step5 do anything to it;  *)
(* what the game does, it does between two transfers.                      *)
(***************************************************************************)
LEMMA TransferUpdateCdHead ==
  ASSUME TypeInv, Quiet, Transfer, UpdateCdHead, UNCHANGED <<pc, corridorVars>> PROVE Transfer'
  BY DEF UpdateCdHead, FileTable, NextFile, Transfer, Good, Reported, Target, Files

LEMMA TransferNone ==
  ASSUME TypeInv, Quiet, Transfer, None, UNCHANGED <<pc, corridorVars>> PROVE Transfer'
  BY DEF None, At, Stay, Transfer

LEMMA TransferLoadInit ==
  ASSUME TypeInv, Quiet, Transfer, LoadInit, UNCHANGED <<pc, corridorVars>> PROVE Transfer'
  BY DEF LoadInit, At, Stay, Become, Advance, Transfer

LEMMA TransferSetSpeed ==
  ASSUME TypeInv, Quiet, Transfer, SetSpeed, UNCHANGED <<pc, corridorVars>> PROVE Transfer'
  BY DEF SetSpeed, At, Stay, Advance, Transfer

LEMMA TransferSeek ==
  ASSUME TypeInv, Quiet, Transfer, Seek, UNCHANGED <<pc, corridorVars>> PROVE Transfer'
  BY DEF Seek, At, Stay, Advance, Transfer, Target

LEMMA TransferStep5 ==
  ASSUME TypeInv, Quiet, Transfer, Step5, UNCHANGED <<pc, corridorVars>> PROVE Transfer'
  BY DEF Step5, At, Stay, Abandon, Control, Advance, Dropped, Transfer, Good, Reported, Target

LEMMA TransferStep6 ==
  ASSUME TypeInv, Quiet, Transfer, Step6, UNCHANGED <<pc, corridorVars>> PROVE Transfer'
  BY DEF Step6, At, Abandon, Advance, NextFile, Transfer, Good, Target

LEMMA TransferComplete ==
  ASSUME TypeInv, Quiet, Transfer, Complete, UNCHANGED <<pc, corridorVars>> PROVE Transfer'
  BY DEF Complete, At, Stay, Abandon, Transfer

LEMMA TransferError ==
  ASSUME TypeInv, Quiet, Transfer, Error, UNCHANGED <<pc, corridorVars>> PROVE Transfer'
  BY DEF Error, At, Become, Transfer

LEMMA TransferRetry ==
  ASSUME TypeInv, Quiet, Transfer, Retry, UNCHANGED <<pc, corridorVars>> PROVE Transfer'
  BY DEF Retry, At, Transfer

LEMMA TransferRetryXa ==
  ASSUME TypeInv, Quiet, Transfer, RetryXa, UNCHANGED <<pc, corridorVars>> PROVE Transfer'
  BY DEF RetryXa, At, Transfer

LEMMA TransferCdShellOpenErr ==
  ASSUME TypeInv, Quiet, Transfer, CdShellOpenErr, UNCHANGED <<pc, corridorVars>>
  PROVE  Transfer'
  BY DEF CdShellOpenErr, At, Transfer

LEMMA TransferF1 ==
  ASSUME TypeInv, Quiet, Transfer, F1, UNCHANGED <<pc, corridorVars>> PROVE Transfer'
  BY DEF F1, At, Stay, Become, Transfer

LEMMA TransferF2 ==
  ASSUME TypeInv, Quiet, Transfer, F2, UNCHANGED <<pc, corridorVars>> PROVE Transfer'
  BY DEF F2, At, Transfer

LEMMA TransferF3 ==
  ASSUME TypeInv, Quiet, Transfer, F3, UNCHANGED <<pc, corridorVars>> PROVE Transfer'
  BY DEF F3, At, Stay, Become, Transfer

LEMMA TransferUpdateCdTail ==
  ASSUME TypeInv, Quiet, Transfer, UpdateCdTail, UNCHANGED <<pc, corridorVars>> PROVE Transfer'
  BY DEF UpdateCdTail, ControlF, Dropped, Transfer, Good, Reported, Target

LEMMA TransferSetPos ==
  ASSUME TypeInv, Quiet, Transfer, SetPos, UNCHANGED <<pc, corridorVars>> PROVE Transfer'
  BY
  DEF SetPos, At, Stay, Advance, FileOf, Quiet, Transfer, Target, TypeInv, TypeOK, Shell,
      Requests, Files

LEMMA TransferLidClose ==
  ASSUME TypeInv, Quiet, Transfer, LidClose, UNCHANGED <<pc, corridorVars>> PROVE Transfer'
  BY DEF LidClose, ElseUnchanged, Transfer, Good, Reported, Target

LEMMA TransferAnswer ==
  ASSUME TypeInv, Quiet, Transfer, Answer, UNCHANGED <<pc, corridorVars>> PROVE Transfer'
  BY DEF Answer, Dropped, ElseUnchanged, Transfer, Good, Reported, Target

LEMMA TransferVabSent ==
  ASSUME TypeInv, Quiet, Transfer, VabSent, UNCHANGED <<pc, corridorVars>> PROVE Transfer'
  BY DEF VabSent, ElseUnchanged, Transfer, Good, Reported, Target

LEMMA TransferEnterCorridor ==
  ASSUME TypeInv, Quiet, Transfer, EnterCorridor PROVE Transfer'
  BY DEF EnterCorridor, Game, NoRequest, Transfer, Good, Reported, Target

LEMMA TransferPrepareNextStage ==
  ASSUME TypeInv, Quiet, Transfer, Client, PrepareNextStage PROVE Transfer'
  BY
  DEF PrepareNextStage, Game, NoRequest, Client, Chr, Quiet, Transfer, Good, Reported, Target,
      Files

LEMMA TransferLeaveRight ==
  ASSUME TypeInv, Quiet, Transfer, LeaveRight PROVE Transfer'
  BY DEF LeaveRight, Game, NoRequest, Transfer, Good, Reported, Target

LEMMA TransferEnterRoom ==
  ASSUME TypeInv, Quiet, Transfer, EnterRoom PROVE Transfer'
  BY DEF EnterRoom, Game, NoRequest, Transfer, Good, Reported, Target

LEMMA TransferWarp ==
  ASSUME TypeInv, Quiet, Transfer, Warp PROVE Transfer'
  BY DEF Warp, Game, NoRequest, Quiet, Transfer, Files

LEMMA TransferLoadStageChr ==
  ASSUME TypeInv, Quiet, Transfer, LoadStageChr PROVE Transfer'
  BY DEF LoadStageChr, Game, Request, NoRequest, Transfer, Good, Reported, Target

LEMMA TransferWaitStageChr ==
  ASSUME TypeInv, Quiet, Transfer, WaitStageChr PROVE Transfer'
  BY DEF WaitStageChr, Game, NoRequest, Wait, Transfer, Good, Reported, Target

LEMMA TransferLoadStageSfx ==
  ASSUME TypeInv, Quiet, Transfer, LoadStageSfx PROVE Transfer'
  BY DEF LoadStageSfx, Game, Request, Transfer

LEMMA TransferWaitStageSfx ==
  ASSUME TypeInv, Quiet, Transfer, WaitStageSfx PROVE Transfer'
  BY DEF WaitStageSfx, Game, NoRequest, Wait, Transfer, Good, Reported, Target

LEMMA TransferLoadStagePrg ==
  ASSUME TypeInv, Quiet, Transfer, LoadStagePrg PROVE Transfer'
  BY DEF LoadStagePrg, Game, Request, Transfer

LEMMA TransferWaitStagePrg ==
  ASSUME TypeInv, Quiet, Transfer, WaitStagePrg PROVE Transfer'
  BY DEF WaitStagePrg, Game, NoRequest, Wait, Transfer, Good, Reported, Target

LEMMA TransferNowLoading ==
  ASSUME TypeInv, Quiet, Transfer, NowLoading PROVE Transfer'
  BY DEF NowLoading, Game, Wait, Transfer

LEMMA TransferNowPrepare ==
  ASSUME TypeInv, Quiet, Transfer, NowPrepare PROVE Transfer'
  BY DEF NowPrepare, Game, Request, Transfer

LEMMA TransferSoftReset ==
  ASSUME TypeInv, Quiet, Transfer, SoftReset PROVE Transfer'
  BY DEF SoftReset, Transfer

LEMMA TransferCorridor ==
  ASSUME TypeInv, Quiet, Transfer, Corridor PROVE Transfer'
  BY
  DEF Corridor, Game, Request, NoRequest, CorridorStop, CorridorPrefetch, CorridorLoad,
      CorridorNothing, Transfer, Good, Reported, Target


\* A block that completes the file completes it with what was asked for, or
\* the file was spoiled before; one that spoils it is followed by an error, was
\* refused by the library, or is the last and refused.
LEMMA TransferDeliver ==
  ASSUME TypeInv, Quiet, Transfer, ~Starting, NEW n \in {0, 1}, Deliver(n), hooked
  PROVE  /\ hooked' => status' = "busy"
         /\ status' = "done" => spoiled' \/ mem'[cb] = pos.stage
         /\ status' \in {"busy", "done"} /\ spoiled' => spoiled \/ n = 1 \/ cb \in missed'
         /\ missed \subseteq missed'
<1>1. step = "Step5" /\ status = "busy" /\ pos.file = cb /\ cb \in Files
  BY DEF Quiet, Transfer
<1>2. CASE CopyBlock(n)
  BY <1>1, <1>2, TypeParts DEF CopyBlock, Copied, Others
<1>3. CASE CopyVabHead(n)
  BY <1>1, <1>3, TypeParts DEF CopyVabHead, Copied
<1>4. CASE TransferVabBody(n)
  BY <1>1, <1>4, TypeParts DEF TransferVabBody, Copied, Others
<1> QED BY <1>2, <1>3, <1>4 DEF Deliver

LEMMA TransferSector ==
  ASSUME TypeInv, Quiet, Transfer, Sector, UNCHANGED <<pc, corridorVars>> PROVE Transfer'
<1> SUFFICES ASSUME ~Starting PROVE Transfer'
  BY DEF Transfer
<1>1. step = "Step5" /\ Deliver(0) /\ hooked
  BY DEF Sector, Quiet
<1> QED
  BY <1>1, TransferDeliver DEF Sector, ElseUnchanged, Transfer, Reported, Target

LEMMA TransferReadError ==
  ASSUME TypeInv, Quiet, Transfer, ReadError, UNCHANGED <<pc, corridorVars>> PROVE Transfer'
<1> SUFFICES ASSUME ~Starting PROVE Transfer'
  BY DEF Transfer
<1>1. CASE hooked
  <2>1. step = "Step5" /\ Deliver(1) /\ sync' = "DiskError"
    BY <1>1 DEF ReadError, Quiet
  <2> QED
    BY <1>1, <2>1, TransferDeliver DEF ReadError, ElseUnchanged, Transfer, Reported, Target
<1>2. CASE ~hooked
  BY <1>2 DEF ReadError, Deliver, ElseUnchanged, Transfer, Good, Reported, Target
<1> QED BY <1>1, <1>2

LEMMA TransferLidOpen ==
  ASSUME TypeInv, Quiet, Transfer, LidOpen, UNCHANGED <<pc, corridorVars>> PROVE Transfer'
<1> SUFFICES ASSUME ~Starting PROVE Transfer'
  BY DEF Transfer
<1>1. CASE hooked /\ sync' = "DiskError" /\ Deliver(1)
  <2>1. step = "Step5"
    BY <1>1 DEF Quiet
  <2> QED
    BY <1>1, <2>1, TransferDeliver DEF LidOpen, ElseUnchanged, Transfer, Reported, Target
<1>2. CASE ~hooked \/ UNCHANGED <<sync, seen, xferVars, spoiled, missed>>
  BY <1>2 DEF LidOpen, Deliver, ElseUnchanged, Transfer, Good, Reported, Target
<1> QED BY <1>1, <1>2 DEF LidOpen


(***************************************************************************)
(* The loader's part of Client: it touches no file but the one in hand,    *)
(* and leaves that in memory.                                              *)
(***************************************************************************)
Progress ==
    /\ UNCHANGED <<ovl, stage>>
    /\ \A f \in Files \ {loadFile} : mem'[f] = mem[f] /\ (f \in missed => f \in missed')
    /\ \/ loadFile' = loadFile
       \/ loadFile = "Prefetch" /\ loadFile' = "None"
       \/ /\ loadFile \in Files
          /\ mem'[loadFile] = Target(loadFile) \/ loadFile \in missed'
          /\ loadFile' = IF loadFile = "StagePrg" /\ stage \in SeqStages THEN "Seq" ELSE "None"

LEMMA DeliverProgress ==
  ASSUME TypeInv, Quiet, Transfer, ~Starting, NEW n, Deliver(n)
  PROVE  \A f \in Files \ {loadFile} : mem'[f] = mem[f] /\ (f \in missed => f \in missed')
<1>1. CASE hooked
  <2>1. cb = loadFile
    BY <1>1 DEF Quiet, Transfer
  <2>2. /\ mem' = mem \/ \E m : mem' = [mem EXCEPT ![cb] = m]
        /\ missed \subseteq missed'
    BY <1>1 DEF Deliver, CopyBlock, CopyVabHead, TransferVabBody, Copied
  <2> QED BY <2>1, <2>2, TypeParts DEF Others
<1>2. CASE ~hooked
  BY <1>2 DEF Deliver
<1> QED BY <1>1, <1>2

LEMMA DriveProgress ==
  ASSUME TypeInv, Quiet, Transfer, ~Starting, Drive
  PROVE  Progress
<1>1. CASE Sector
  BY <1>1, DeliverProgress DEF Sector, ElseUnchanged, Progress
<1>2. CASE ReadError
  BY <1>2, DeliverProgress DEF ReadError, ElseUnchanged, Progress
<1>3. CASE LidOpen
  BY <1>3, DeliverProgress DEF LidOpen, ElseUnchanged, Progress
<1>4. CASE LidClose
  BY <1>4 DEF LidClose, ElseUnchanged, Progress
<1>5. CASE Answer
  BY <1>5 DEF Answer, ElseUnchanged, Progress
<1>6. CASE VabSent
  BY <1>6 DEF VabSent, ElseUnchanged, Progress
<1> QED BY <1>1, <1>2, <1>3, <1>4, <1>5, <1>6 DEF Drive

LEMMA SwitchProgress ==
  ASSUME TypeInv, Quiet, Transfer, ~Starting, Switch
  PROVE  Progress
<1> USE DEF At, Stay, Become, Abandon, Progress
<1>1. CASE None \/ Error \/ F1 \/ F3
  BY <1>1 DEF None, Error, F1, F3
<1>2. CASE LoadInit \/ SetSpeed \/ Seek
  BY <1>2 DEF LoadInit, SetSpeed, Seek
<1>3. CASE SetPos
  BY <1>3, TypeParts DEF SetPos, Others
<1>4. CASE Step5
  BY <1>4 DEF Step5
<1>5. CASE Step6
  <2>1. loadFile \in Files /\ cb = loadFile /\ Good(cb, Target(loadFile))
    BY <1>5 DEF Step6, Quiet, Transfer
  <2> QED BY <1>5, <2>1 DEF Step6, NextFile, Good
<1>6. CASE Complete
  BY <1>6 DEF Complete, Quiet
<1>7. CASE Retry \/ RetryXa
  BY <1>7 DEF Retry, RetryXa, CdInit
<1>8. CASE CdShellOpenErr \/ F2
  BY <1>8 DEF CdShellOpenErr, F2
<1> QED BY <1>1, <1>2, <1>3, <1>4, <1>5, <1>6, <1>7, <1>8 DEF Switch

LEMMA LoaderProgress ==
  ASSUME TypeInv, Quiet, Transfer, ~Starting, UpdateCd \/ Drive
  PROVE  Progress
<1>1. CASE UpdateCdHead
  BY <1>1 DEF UpdateCdHead, Progress
<1>2. CASE UpdateCdTail
  BY <1>2 DEF UpdateCdTail, Progress
<1> QED BY <1>1, <1>2, SwitchProgress, DriveProgress DEF UpdateCd

LEMMA ClientLoader ==
  ASSUME TypeInv, Quiet, Transfer, Client, UpdateCd \/ Drive, UNCHANGED <<pc, corridorVars>>
  PROVE  Client'
<1> SUFFICES ASSUME ~Starting PROVE Client'
  BY DEF Client
<1>1. Progress
  BY LoaderProgress
<1> QED
  BY <1>1 DEF Progress, Client, Quiet, Chr, Rest, Good, FilesOf, Target, Files


(***************************************************************************)
(* The game's part of Client.                                              *)
(***************************************************************************)
LEMMA ClientEnterCorridor == ASSUME TypeInv, Quiet, Client, EnterCorridor PROVE Client'
  BY DEF EnterCorridor, Game, NoRequest, Quiet, Client, Chr, Rest, Good, Left, RightEdge

LEMMA ClientPrepareNextStage == ASSUME TypeInv, Quiet, Client, PrepareNextStage PROVE Client'
  BY DEF PrepareNextStage, Game, NoRequest, Client, Chr, Good, LeftEdge, Left

LEMMA ClientLeaveRight == ASSUME TypeInv, Quiet, Client, LeaveRight PROVE Client'
  BY DEF LeaveRight, Game, NoRequest, Client, Chr, Rest, Good, Right, RightEdge

LEMMA ClientEnterRoom == ASSUME TypeInv, Quiet, Client, EnterRoom PROVE Client'
  BY DEF EnterRoom, Game, NoRequest, Quiet, Client, Chr, Rest, Good

LEMMA ClientWarp == ASSUME TypeInv, Quiet, Client, Warp PROVE Client'
  BY DEF Warp, Game, NoRequest, Quiet, Client

LEMMA ClientLoadStageChr == ASSUME TypeInv, Quiet, Client, LoadStageChr PROVE Client'
  BY DEF LoadStageChr, Game, Request, NoRequest, Client, Chr, Good

LEMMA ClientWaitStageChr == ASSUME TypeInv, Quiet, Client, WaitStageChr PROVE Client'
  BY DEF WaitStageChr, Game, NoRequest, Wait, Quiet, Client, Chr, Good

LEMMA ClientLoadStageSfx == ASSUME TypeInv, Quiet, Client, LoadStageSfx PROVE Client'
  BY DEF LoadStageSfx, Game, Request, Client, Good

LEMMA ClientWaitStageSfx == ASSUME TypeInv, Quiet, Client, WaitStageSfx PROVE Client'
  BY DEF WaitStageSfx, Game, NoRequest, Wait, Quiet, Client, Good

LEMMA ClientLoadStagePrg == ASSUME TypeInv, Quiet, Client, LoadStagePrg PROVE Client'
  BY DEF LoadStagePrg, Game, Request, Client, Good

LEMMA ClientWaitStagePrg == ASSUME TypeInv, Quiet, Client, WaitStagePrg PROVE Client'
  BY DEF WaitStagePrg, Game, NoRequest, Wait, Quiet, Client, Rest, Good

LEMMA ClientNowLoading == ASSUME TypeInv, Quiet, Client, NowLoading PROVE Client'
  BY DEF NowLoading, Game, Wait, Client

LEMMA ClientNowPrepare == ASSUME TypeInv, Quiet, Client, NowPrepare PROVE Client'
  BY DEF NowPrepare, Request, Client, Chr, Rest, Good

LEMMA ClientSoftReset == ASSUME TypeInv, Quiet, Client, SoftReset PROVE Client'
  BY DEF SoftReset, Client

LEMMA ClientCorridor == ASSUME TypeInv, Quiet, Client, Corridor PROVE Client'
<1>1. /\ pc = "corridor" /\ pc' = "corridor"
      /\ UNCHANGED <<stage, dest, back, mem, missed>>
  BY
  DEF Corridor, Game, CorridorStop, CorridorPrefetch, CorridorLoad, CorridorNothing, Request,
      NoRequest
<1>2. /\ back = stage /\ Rest(back)
      /\ Chr(IF unk2 = 3 THEN dest ELSE back)
      /\ zone <= Left => unk2 = 3
      /\ zone >= Right => unk2 # 3
  BY <1>1 DEF Client
<1>3. Rest(back)'
  BY <1>1, <1>2 DEF Rest, Good
<1>4. Chr(IF unk2 = 3 THEN dest ELSE back)'
  BY <1>1, <1>2
  DEF Corridor, CorridorStop, CorridorPrefetch, CorridorLoad, CorridorNothing, Request,
      NoRequest, Chr, Good, Quiet
<1>5. (zone' <= Left => unk2' = 3) /\ (zone' >= Right => unk2' # 3)
  <2>1. /\ zone \in Zones /\ unk2 \in 0..3 /\ zone' \in Zones
        /\ zone' <= zone + 1 /\ zone <= zone' + 1
        /\ zone' <= Left => unk2 >= 2
    BY DEF Corridor, Move, TypeInv
  <2>2. CASE CorridorStop \/ CorridorPrefetch
    BY <1>2, <2>1, <2>2 DEF CorridorStop, CorridorPrefetch
  <2>3. CASE CorridorLoad(2, Left, dest) \/ CorridorLoad(3, Right, back)
    BY <2>1, <2>3 DEF CorridorLoad, Left, Right
  <2>4. CASE CorridorNothing
    <3>1. /\ unk2' = unk2
          /\ unk2 = 1 \/ (unk2 = 2 /\ zone' # 1) \/ (unk2 = 3 /\ zone' # 3)
      BY <2>4, Zenon DEF CorridorNothing, Left, Right
    <3>2. /\ zone \in 0..4 /\ zone' \in 0..4
          /\ (zone <= 1 => unk2 = 3) /\ (zone >= 3 => unk2 # 3)
      BY <1>2, <2>1 DEF Zones, LeftEdge, Left, Right, RightEdge
    <3>3. zone' <= zone + 1 /\ zone <= zone' + 1 /\ (zone' <= 1 => unk2 >= 2)
      BY <2>1, <3>2 DEF Left
    <3>4. zone' <= 1 => unk2 = 3
      <4>1. unk2 = 1 => ~(zone' <= 1)
        BY <3>3
      <4>2. unk2 = 2 /\ zone' <= 1 => zone' = 0
        BY <3>1, <3>2
      <4>3. zone' = 0 => unk2 = 3
        BY <3>2, <3>3
      <4> QED BY <3>1, <4>1, <4>2, <4>3
    <3>5. zone' >= 3 => unk2 # 3
      BY <3>1, <3>2, <3>3
    <3> QED BY <3>1, <3>4, <3>5 DEF Left, Right
  <2> QED BY <2>2, <2>3, <2>4 DEF Corridor
<1> QED BY <1>1, <1>2, <1>3, <1>4, <1>5 DEF Client


(***************************************************************************)
(* The invariant.                                                          *)
(***************************************************************************)
LEMMA InitIInv == Init => IInv
<1> SUFFICES ASSUME Init PROVE IInv
  OBVIOUS
<1> USE DEF Init, LoadInitState
<1>1. Flags
  BY DEF Flags
<1>2. Others
  BY LoadAssumption DEF Others, Steps, Requests, Files, Answers, Pcs, Zones, RightEdge, LeftEdge
<1>3. Quiet /\ Transfer /\ Client
  BY DEF Quiet, Transfer, Client
<1> QED BY <1>1, <1>2, <1>3, TypeParts DEF IInv

LEMMA LoaderIInv ==
  ASSUME IInv, UpdateCd \/ Drive, UNCHANGED <<pc, corridorVars>>
  PROVE  IInv'
<1> USE DEF IInv
<1>1. TypeInv'
  BY TypeUpdateCdHead, TypeNone, TypeLoadInit, TypeSetSpeed, TypeSetPos, TypeSeek, TypeStep5,
      TypeStep6, TypeComplete, TypeError, TypeRetry, TypeRetryXa, TypeCdShellOpenErr, TypeF1,
      TypeF2, TypeF3, TypeUpdateCdTail, TypeSector, TypeReadError, TypeLidOpen, TypeLidClose,
      TypeAnswer, TypeVabSent
  DEF UpdateCd, Switch, Drive
<1>2. Quiet'
  BY QuietUpdateCdHead, QuietNone, QuietLoadInit, QuietSetSpeed, QuietSetPos, QuietSeek,
      QuietStep5, QuietStep6, QuietComplete, QuietError, QuietRetry, QuietRetryXa,
      QuietCdShellOpenErr, QuietF1, QuietF2, QuietF3, QuietUpdateCdTail, QuietSector,
      QuietReadError, QuietLidOpen, QuietLidClose, QuietAnswer, QuietVabSent
  DEF UpdateCd, Switch, Drive
<1>3. Transfer'
  BY TransferUpdateCdHead, TransferNone, TransferLoadInit, TransferSetSpeed, TransferSetPos,
      TransferSeek, TransferStep5, TransferStep6, TransferComplete, TransferError,
      TransferRetry, TransferRetryXa, TransferCdShellOpenErr, TransferF1, TransferF2,
      TransferF3, TransferUpdateCdTail, TransferSector, TransferReadError, TransferLidOpen,
      TransferLidClose, TransferAnswer, TransferVabSent
  DEF UpdateCd, Switch, Drive
<1> QED BY <1>1, <1>2, <1>3, ClientLoader

LEMMA GameIInv == ASSUME IInv, GameFrame \/ SoftReset PROVE IInv'
<1> USE DEF IInv
<1>1. TypeInv'
  BY TypeEnterCorridor, TypeCorridor, TypePrepareNextStage, TypeLeaveRight, TypeEnterRoom,
      TypeWarp, TypeLoadStageChr, TypeWaitStageChr, TypeLoadStageSfx, TypeWaitStageSfx,
      TypeLoadStagePrg, TypeWaitStagePrg, TypeNowLoading, TypeNowPrepare, TypeSoftReset
  DEF GameFrame
<1>2. Quiet'
  BY QuietEnterCorridor, QuietCorridor, QuietPrepareNextStage, QuietLeaveRight, QuietEnterRoom,
      QuietWarp, QuietLoadStageChr, QuietWaitStageChr, QuietLoadStageSfx, QuietWaitStageSfx,
      QuietLoadStagePrg, QuietWaitStagePrg, QuietNowLoading, QuietNowPrepare, QuietSoftReset
  DEF GameFrame
<1>3. Transfer'
  BY TransferEnterCorridor, TransferCorridor, TransferPrepareNextStage, TransferLeaveRight,
      TransferEnterRoom, TransferWarp, TransferLoadStageChr, TransferWaitStageChr,
      TransferLoadStageSfx, TransferWaitStageSfx, TransferLoadStagePrg, TransferWaitStagePrg,
      TransferNowLoading, TransferNowPrepare, TransferSoftReset
  DEF GameFrame
<1>4. Client'
  BY ClientEnterCorridor, ClientCorridor, ClientPrepareNextStage, ClientLeaveRight,
      ClientEnterRoom, ClientWarp, ClientLoadStageChr, ClientWaitStageChr, ClientLoadStageSfx,
      ClientWaitStageSfx, ClientLoadStagePrg, ClientWaitStagePrg, ClientNowLoading, ClientNowPrepare,
      ClientSoftReset
  DEF GameFrame
<1> QED BY <1>1, <1>2, <1>3, <1>4

(***************************************************************************)
(* What the loader waits for.                                              *)
(***************************************************************************)
\* Where the loader waits for blocks, the callback is registered and the drive
\* reads, or what stopped it is on record; an error that is on record and is not
\* the lid's has spoiled the file.
Answered == sync = "NoIntr" => pending # "none"
Waits == step = "Step5" /\ status = "busy" /\ cb \notin missed
Stalls == Waits => /\ hooked
                   /\ reading \/ shell \/ Reported
                   /\ sync = "DiskError" /\ ~spoiled => seen /\ pending = "none"

\* No block that comes ends a wait without a trace.
LEMMA StallsDeliver ==
  ASSUME NEW n \in {0, 1}, Deliver(n), Waits => hooked, ElseUnchanged, Waits'
  PROVE  /\ Waits /\ hooked'
         /\ spoiled => spoiled'
         /\ n # 0 => spoiled'
<1>1. step = "Step5" /\ cb' = cb /\ status' = "busy" /\ cb \notin missed'
  BY DEF ElseUnchanged, Waits
<1>2. CASE hooked /\ CopyBlock(n)
  <2>1. status = "busy" /\ hooked' /\ missed' = missed /\ (spoiled \/ n # 0 => spoiled')
    BY <1>1, <1>2 DEF CopyBlock, Copied
  <2> QED BY <1>1, <2>1, Zenon DEF Waits
<1>3. CASE hooked /\ CopyVabHead(n)
  <2>1. status = "busy" /\ hooked' /\ missed' = missed /\ (spoiled \/ n # 0 => spoiled')
    BY <1>1, <1>3 DEF CopyVabHead, Copied
  <2> QED BY <1>1, <2>1, Zenon DEF Waits
<1>4. CASE hooked /\ TransferVabBody(n)
  <2>1. status = "busy" /\ hooked' /\ missed' = missed /\ (spoiled \/ n # 0 => spoiled')
    BY <1>1, <1>4 DEF TransferVabBody, Copied
  <2> QED BY <1>1, <2>1, Zenon DEF Waits
<1>5. CASE ~hooked
  <2>1. UNCHANGED <<status, hooked, missed>>
    BY <1>5 DEF Deliver
  <2> QED BY <1>1, <1>5, <2>1 DEF Waits
<1> QED BY <1>2, <1>3, <1>4, <1>5 DEF Deliver


\* The drive's own steps.
LEMMA StallsDrive ==
  ASSUME TypeInv, Quiet, Stalls, Drive PROVE Stalls'
<1> USE DEF ElseUnchanged, Waits, Stalls, Reported
<1>1. CASE Sector
  <2>1. Deliver(0) /\ UNCHANGED <<phase, polled>>
    BY <1>1 DEF Sector
  <2>2. Waits' => Waits /\ hooked' /\ (spoiled => spoiled')
    BY <1>1, <2>1, StallsDeliver DEF Sector
  <2> QED BY <1>1, <2>2 DEF Sector
<1>2. CASE ReadError
  <2>1. Waits' => Waits /\ hooked' /\ spoiled'
    BY <1>2, StallsDeliver DEF ReadError
  <2> QED BY <1>2, <2>1 DEF ReadError
<1>3. CASE LidOpen
  <2>1. CASE Deliver(1)
    <3>1. Waits' => Waits /\ hooked' /\ spoiled'
      BY <1>3, <2>1, StallsDeliver DEF LidOpen
    <3> QED BY <1>3, <3>1 DEF LidOpen
  <2>2. CASE UNCHANGED <<sync, seen, xferVars, spoiled, missed>>
    BY <1>3, <2>2 DEF LidOpen
  <2> QED BY <1>3, <2>1, <2>2 DEF LidOpen
<1>4. CASE LidClose
  BY <1>4 DEF LidClose
<1>5. CASE Answer
  <2>1. CASE shell
    BY <1>5, <2>1 DEF Answer
  <2>2. CASE ~shell
    <3>1. sync' = "Complete" /\ missed' = (IF Dropped THEN missed \cup {cb} ELSE missed)
      BY <1>5, <2>2 DEF Answer
    <3>2. Waits' => Waits /\ ~Dropped
      BY <1>5, <3>1 DEF Answer
    <3>3. Waits' => reading \/ (phase = "switch" /\ polled = "DiskError")
      BY <1>5, <2>2, <3>2 DEF Answer, Dropped
    <3> QED BY <1>5, <3>1, <3>2, <3>3 DEF Answer
  <2> QED BY <2>1, <2>2
<1>6. CASE VabSent
  BY <1>6 DEF VabSent
<1> QED BY <1>1, <1>2, <1>3, <1>4, <1>5, <1>6 DEF Drive

\* The loader begins to wait in one step only, with the drive reading.
LEMMA StallsSwitch ==
  ASSUME TypeInv, Quiet, Stalls, Switch PROVE Stalls'
<1> USE DEF Waits, Stalls, Reported, At
<1>1. CASE Seek
  <2>1. step' = "Step5" => ~lid /\ polled # "NoIntr"
    BY <1>1 DEF Seek, Stay, Advance
  <2>2. ~lid /\ polled # "NoIntr" => sync' = "Complete" /\ hooked' = ~lid /\ reading' = ~lid
    BY <1>1 DEF Seek, Stay, Control
  <2>3. step' = "Step5" => sync' = "Complete" /\ hooked' /\ reading'
    BY <2>1, <2>2, Zenon
  <2> QED BY <2>3
<1>2. CASE Step5
  <2>1. CASE polled # "DiskError" /\ status = "busy" /\ Stay
    BY <1>2, <2>1 DEF Step5, Stay
  <2>2. CASE step' = "Step5" => status' # "busy"
    BY <2>2
  <2> QED BY <1>2, <2>1, <2>2 DEF Step5, Abandon, Advance
<1>3. ASSUME step # "Seek", step # "Step5" PROVE step' # "Step5"
  BY <1>3 DEF Switch, None, Stay, Become, Abandon, LoadInit, SetSpeed, SetPos, Seek, Step5, Step6,
     Complete, Error, Retry, RetryXa, CdInit, CdShellOpenErr, F1, F2, F3, Advance
<1>4. (step = "Seek" => Seek) /\ (step = "Step5" => Step5)
  BY DEF Switch, None, LoadInit, SetSpeed, SetPos, Seek, Step5, Step6, Complete, Error, Errors,
     Retry, RetryXa, CdShellOpenErr, F1, F2, F3
<1> QED BY <1>1, <1>2, <1>3, <1>4

\* UpdateCd looks at what is on record, or leaves it there, or does not notice.
LEMMA StallsUpdateCd ==
  ASSUME TypeInv, Quiet, Stalls, UpdateCd PROVE Stalls'
<1> USE DEF Waits, Stalls, Reported
<1>1. CASE UpdateCdHead
  <2>1. step = "Step5" => Polls /\ ~Clears
    BY DEF Polls, Clears, Loading
  <2> QED BY <1>1, <2>1, TypeParts DEF UpdateCdHead, Flags
<1>2. CASE UpdateCdTail
  <2>1. CASE UNCHANGED <<step, hooked, driveVars, syncVars, missed>>
    BY <1>2, <2>1 DEF UpdateCdTail
  <2>2. CASE step' = "CdShellOpenErr"
    BY <2>2
  <2>3. CASE /\ sync # "NoIntr" /\ ~seen /\ ControlF("Nop")
             /\ missed' = IF Dropped THEN missed \cup {cb} ELSE missed
             /\ UNCHANGED <<step, hooked>>
    <3>1. UNCHANGED <<driveVars, status, cb>> /\ sync' = "NoIntr"
      BY <1>2, <2>3 DEF UpdateCdTail, ControlF
    <3>2. Waits' => Waits /\ ~Dropped
      BY <2>3, <3>1
    <3>3. Waits' => hooked /\ (reading \/ shell)
      BY <1>2, <2>3, <3>2 DEF UpdateCdTail, Dropped
    <3> QED BY <2>3, <3>1, <3>3
  <2> QED BY <1>2, <2>1, <2>2, <2>3 DEF UpdateCdTail
<1> QED BY <1>1, <1>2, StallsSwitch DEF UpdateCd

\* No request and no reset leaves a load in the middle of a file.
LEMMA StallsGame ==
  ASSUME TypeInv, Quiet, Stalls, GameFrame \/ SoftReset PROVE Stalls'
<1>1. \/ step' \in {"LoadInit", "None"}
      \/ /\ phase = "game"
         /\ UNCHANGED <<step, status, cb, missed, hooked, reading, shell, sync, spoiled, seen, pending, polled>>
  BY DEF GameFrame, EnterCorridor, Corridor, PrepareNextStage, LeaveRight, EnterRoom, Warp,
        LoadStageChr, WaitStageChr, LoadStageSfx, WaitStageSfx, LoadStagePrg, WaitStagePrg,
        NowLoading, NowPrepare, SoftReset, Wait, Request, NoRequest, CorridorStop, CorridorPrefetch,
        CorridorLoad, CorridorNothing, Game
<1> QED BY <1>1 DEF Stalls, Waits, Reported

\* The inductive invariant of loader, drive and clients together.
THEOREM StageChangeInvariant == Spec => []IInv
<1>1. IInv /\ [Next]_vars => IInv'
  <2> SUFFICES ASSUME IInv, [Next]_vars PROVE IInv'
    OBVIOUS
  <2>1. CASE UNCHANGED vars
    BY <2>1
    DEF IInv, TypeInv, TypeOK, Quiet, Transfer, Client, Chr, Rest, Good, Reported, Target
  <2>2. CASE Next
    BY <2>2, LoaderIInv, GameIInv DEF Next
  <2> QED BY <2>1, <2>2
<1> QED BY <1>1, InitIInv, PTL DEF Spec

\* Type correctness, for any stages, file lengths and number of faults.
THEOREM StageChangeTypeInv == Spec => []TypeInv
<1>1. IInv => TypeInv
  BY DEF IInv
<1> QED BY <1>1, StageChangeInvariant, PTL

\* A stage starts with its own files in memory, except those a fault was done
\* to that the code did not notice.
THEOREM StagesStartLoaded == Spec => []StageStartsLoaded
<1>1. IInv => StageStartsLoaded
  BY DEF IInv, Client, StageStartsLoaded, Rest, Good
<1> QED BY <1>1, StageChangeInvariant, PTL

\* g_IsUsingCd never says idle while a file is loaded.
THEOREM IdleMeansIdle == Spec => []IdleIsIdle
<1>1. IInv => IdleIsIdle
  BY DEF IInv, Quiet, IdleIsIdle
<1> QED BY <1>1, StageChangeInvariant, PTL

\* No callback is left behind that writes to memory while the game is told
\* that the CD is idle.
THEOREM IdleMemoryStays == Spec => IdleMemoryIsStable
<1>1. IInv /\ [Next]_vars => [mem' # mem => using]_vars
  <2> SUFFICES ASSUME IInv, Next, mem' # mem PROVE using
    OBVIOUS
  <2>1. CASE Drive
    <3>1. hooked
      BY <2>1 DEF Drive, Sector, ReadError, LidOpen, LidClose, Answer, VabSent, Deliver
    <3> QED BY <3>1, TypeParts DEF IInv, Quiet, Others
  <2>2. CASE UpdateCd
    <3>1. SetPos
      BY <2>2
      DEF UpdateCd, UpdateCdHead, UpdateCdTail, Switch, Stay, Become, Abandon, None, LoadInit,
          SetSpeed, Seek, Step5, Step6, Complete, Error, Retry, RetryXa, CdInit, CdShellOpenErr,
          F1, F2, F3
    <3> QED BY <3>1 DEF SetPos, At, IInv, Quiet
  <2>3. CASE GameFrame \/ SoftReset
    BY <2>3
    DEF GameFrame, EnterCorridor, Corridor, PrepareNextStage, LeaveRight, EnterRoom, Warp,
        LoadStageChr, WaitStageChr, LoadStageSfx, WaitStageSfx, LoadStagePrg, WaitStagePrg,
        NowLoading, NowPrepare, SoftReset, Wait, Request, NoRequest, CorridorStop, CorridorPrefetch,
        CorridorLoad, CorridorNothing
  <2> QED BY <2>1, <2>2, <2>3 DEF Next
<1> QED BY <1>1, StageChangeInvariant, PTL DEF Spec, IdleMemoryIsStable

\* libcd: an answer that is waited for is one that the drive still owes.
LEMMA AnsweredNext == ASSUME Answered, [Next]_vars PROVE Answered'
<1>1. CASE UNCHANGED <<sync, pending>>
  BY <1>1 DEF Answered
<1>2. CASE sync' # "NoIntr"
  BY <1>2 DEF Answered
<1>3. ASSUME NEW last, Control(last) PROVE Answered'
  BY <1>3 DEF Control, Answered
<1>4. ASSUME NEW com, com # "none", ControlF(com) PROVE Answered'
  BY <1>4 DEF ControlF, Answered
<1>5. CASE Drive
  BY <1>5 DEF Drive, Sector, ReadError, LidOpen, LidClose, Answer, VabSent, ElseUnchanged, Answered
<1>6. CASE UpdateCdHead
  BY <1>6 DEF UpdateCdHead, Answered
<1>7. CASE UpdateCdTail
  BY <1>1, <1>2, <1>4, <1>7 DEF UpdateCdTail
<1>8. CASE Switch
  <2>1. \/ UNCHANGED <<sync, pending>> \/ sync' # "NoIntr"
        \/ (\E last : Control(last)) \/ ControlF("Nop") \/ ControlF("Done")
    BY <1>8 DEF Switch, None, LoadInit, SetSpeed, SetPos, Seek, Step5, Step6, Complete, Error,
       Retry, RetryXa, CdShellOpenErr, F1, F2, F3, Stay, Become, Abandon, CdInit
  <2> QED BY <1>1, <1>2, <1>3, <1>4, <2>1
<1>9. CASE GameFrame \/ SoftReset
  <2>1. UNCHANGED <<sync, pending>>
    BY <1>9 DEF GameFrame, EnterCorridor, Corridor, PrepareNextStage, LeaveRight, EnterRoom, Warp,
       LoadStageChr, WaitStageChr, LoadStageSfx, WaitStageSfx, LoadStagePrg, WaitStagePrg,
       NowLoading, NowPrepare, SoftReset, Wait, Request, NoRequest, CorridorStop, CorridorPrefetch,
       CorridorLoad, CorridorNothing
  <2> QED BY <1>1, <2>1
<1>10. CASE UNCHANGED vars
  BY <1>1, <1>10
<1> QED BY <1>5, <1>6, <1>7, <1>8, <1>9, <1>10 DEF Next, UpdateCd

\* UpdateCd and its clients: whenever the loader waits, an answer, a block, or
\* the trace of what stopped the blocks is there to end the wait, and a request
\* is not forgotten.  It is the safety half of WaitEnds.
THEOREM WaitsAreForSomething == Spec => []WaitIsForSomething
<1>1. Init => Answered /\ Stalls
  BY DEF Init, LoadInitState, Answered, Stalls, Waits
<1>2. Answered /\ [Next]_vars => Answered'
  BY AnsweredNext
<1>3. IInv /\ Stalls /\ [Next]_vars => Stalls'
  <2> SUFFICES ASSUME IInv, Stalls, [Next]_vars PROVE Stalls'
    OBVIOUS
  <2>1. CASE UNCHANGED vars
    BY <2>1 DEF Stalls, Waits, Reported
  <2>2. CASE Next
    BY <2>2, StallsDrive, StallsUpdateCd, StallsGame DEF Next, IInv
  <2> QED BY <2>1, <2>2
<1>4. IInv /\ Answered /\ Stalls => WaitIsForSomething
  BY DEF IInv, Quiet, Answered, Stalls, Waits, Reported, WaitIsForSomething
<1> QED BY <1>1, <1>2, <1>3, <1>4, StageChangeInvariant, PTL DEF Spec
=============================================================================
