------------------------------- MODULE CdLoad -------------------------------
(***************************************************************************)
(* The CD file loader of the game: UpdateCd of src/dra/cd.c, the callbacks *)
(* the CD interrupt runs while a file is read, and what libcd and the      *)
(* drive do between two calls.                                             *)
(*                                                                         *)
(* UpdateCd runs once a frame, after the game's own code, and walks a file *)
(* request through g_CdStep.  Three things happen behind its back: the     *)
(* interrupt of a sector copies it to the file's area of memory, an        *)
(* interrupt of the drive rewrites the one status word CdSync reads (and   *)
(* CdSync forgets what it has reported), and the lid opens.  A frame is    *)
(* cut where that matters: the game's code, the poll of CdSync with which  *)
(* a step begins, the rest of the step, and func_801073E8 at the end.      *)
(*                                                                         *)
(* The bytes are abstracted: an area of memory holds the whole file of one *)
(* stage or Junk, which stands for a partial file and for a file with a    *)
(* block that was not read.                                                *)
(***************************************************************************)
EXTENDS Naturals

CONSTANTS
    Stages,      \* the stages there are files for
    SeqStages,   \* those with a sequence file, chained after the program
    Blocks,      \* the sectors of each file
    BodyBlocks,  \* how many of the sound file's are the body of the VAB
    Junk,        \* what an area holds when it holds no whole file
    MaxFaults    \* read errors, openings of the lid, failures of the sound
                 \* library and resets in a behaviour

\* g_LoadFile: no file, the four files of a stage, and the graphics file
\* with the prefetch flag 0x8000, which only moves the head.
Files == {"StageChr", "StageSfx", "StagePrg", "Seq"}
Requests == Files \cup {"None", "Prefetch"}

ASSUME LoadAssumption ==
    /\ Stages # {} /\ SeqStages \subseteq Stages /\ Junk \notin Stages
    /\ Blocks \in [Files -> Nat \ {0}]
    /\ BodyBlocks \in Nat \ {0} /\ BodyBlocks < Blocks["StageSfx"]
    /\ MaxFaults \in Nat

VARIABLES
    step, loadFile, ovl, stage,  \* g_CdStep, g_LoadFile, g_LoadOvlIdx, g_StageId
    using,       \* g_IsUsingCd # 0: the copy of g_CdStep the game reads
    again,       \* D_800ACD7C: the file must be loaded once more
    lba,         \* the stage whose file each CdFile entry locates
    cb, left, status,            \* g_CdCallback, blocks to come, D_80137F78
    hooked,      \* the data callback is registered
    vab,         \* a block of a VAB is on its way to the sound memory
    mem,         \* the contents of each file's area
    lid, shell,  \* the lid is open; the drive's flag that it is or was
    reading, pos,                \* the drive reads, and which file
    sync, seen, pending,         \* Intr.sync, the flag in the last result, the
                                 \* answer of the drive that is still to come
    phase, polled,               \* where in the frame; what CdSync reported
    spoiled,     \* history: a block of this transfer was not read
    missed,      \* history: areas a fault was done to that nobody noticed
    faults       \* history: how many faults there were so far

clientVars == <<step, loadFile, ovl, stage>>
fileVars  == <<lba, cb>>
xferVars  == <<left, status, hooked, vab, mem>>
driveVars == <<lid, shell, reading, pos>>
syncVars  == <<sync, seen, pending>>
histVars  == <<spoiled, missed, faults>>
loadVars  == <<clientVars, using, again, fileVars, xferVars, driveVars, syncVars,
               phase, polled, histVars>>

Loading == {"LoadInit", "SetSpeed", "SetPos", "Seek", "Step5", "Step6", "Complete"}
Errors  == {"DmaErr", "SdHeaderErr", "DiskErr"}
Shell   == {"CdShellOpenErr", "F1", "F2", "F3"}
Steps   == {"None", "Retry", "RetryXa"} \cup Loading \cup Errors \cup Shell

Answers == {"NoIntr", "Complete", "DiskError"}

TypeOK ==
    /\ step \in Steps /\ loadFile \in Requests /\ ovl \in Stages /\ stage \in Stages
    /\ using \in BOOLEAN /\ again \in BOOLEAN
    /\ lba \in [Files -> Stages] /\ cb \in Files /\ left \in Nat
    /\ status \in {"busy", "done", "late", "header", "body"}
    /\ hooked \in BOOLEAN /\ vab \in BOOLEAN
    /\ mem \in [Files -> Stages \cup {Junk}]
    /\ lid \in BOOLEAN /\ shell \in BOOLEAN /\ reading \in BOOLEAN
    /\ pos \in [file : Files, stage : Stages]
    /\ sync \in Answers /\ seen \in BOOLEAN /\ pending \in {"none", "Nop", "Done"}
    /\ phase \in {"game", "poll", "switch", "tail"} /\ polled \in Answers
    /\ spoiled \in BOOLEAN /\ missed \subseteq Files
    /\ faults \in 0..MaxFaults

LoadInitState ==
    /\ step = "None" /\ loadFile = "None" /\ ovl \in Stages /\ stage \in Stages
    /\ using = FALSE /\ again = FALSE
    /\ lba = [f \in Files |-> ovl] /\ cb = "StageChr" /\ left = 0
    /\ status = "busy" /\ hooked = FALSE /\ vab = FALSE
    /\ mem = [f \in Files |-> Junk]
    /\ lid = FALSE /\ shell = FALSE /\ reading = FALSE
    /\ pos = [file |-> "StageChr", stage |-> ovl]
    /\ sync = "Complete" /\ seen = FALSE /\ pending = "none"
    /\ phase = "game" /\ polled = "Complete"
    /\ spoiled = FALSE /\ missed = {} /\ faults = 0

(***************************************************************************)
(* libcd.  A command waits for the drive to answer the one before it,      *)
(* whose answer it drops, and is tried four times; the Nop it sends        *)
(* between two tries clears the shell flag of a drive that is closed.      *)
(* Pause and Seek are acknowledged at once and report their end later, and *)
(* CdSync says NoIntr until then.  ControlF does not wait.                 *)
(***************************************************************************)
Control(last) ==
    /\ sync' = IF lid THEN "DiskError" ELSE IF last = "Done" THEN "NoIntr" ELSE "Complete"
    /\ pending' = IF lid THEN "none" ELSE last
    /\ seen' = lid
    /\ shell' = lid
    /\ UNCHANGED lid

ControlF(com) ==
    /\ sync' = "NoIntr" /\ pending' = com
    /\ UNCHANGED <<seen, driveVars>>

\* A fault of the transfer whose only trace is a status that is dropped.
Dropped == step = "Step5" /\ spoiled /\ sync = "DiskError"

\* CdInit: all callbacks are cleared and the drive is reset.  It fails while
\* the lid is open, and its callers call it until it does not.
CdInit ==
    /\ ~lid
    /\ hooked' = FALSE /\ reading' = FALSE /\ shell' = FALSE
    /\ sync' = "Complete" /\ seen' = FALSE /\ pending' = "none"
    /\ UNCHANGED <<left, status, vab, mem, lid, pos>>

(***************************************************************************)
(* The interrupts of the drive.                                            *)
(***************************************************************************)
\* A block goes through the callback of the file, good or not.  The last one
\* completes the file.
Copied(good, end) ==
    /\ left' = left - 1
    /\ spoiled' = (spoiled \/ ~good)
    /\ mem' = [mem EXCEPT ![cb] =
          IF end /\ ~spoiled' /\ pos.file = cb THEN pos.stage ELSE Junk]

\* A failure of the sound library, and none, in a step with n other faults.
Fails(n) == faults + n < MaxFaults /\ faults' = faults + n + 1
Works(n) == faults' = faults + n

CopyBlock(n) ==
    /\ cb # "StageSfx"
    /\ Works(n) /\ Copied(n = 0, left = 1)
    /\ hooked' = (left # 1)
    /\ status' = IF left = 1 THEN "done" ELSE status
    /\ UNCHANGED <<vab, missed>>

\* The head of a VAB: after its last block the library opens it, which may
\* fail, and the blocks of the body go to the next callback.
CopyVabHead(n) ==
    /\ cb = "StageSfx" /\ left > BodyBlocks
    /\ Copied(n = 0, FALSE)
    /\ \/ Works(n) /\ hooked' = TRUE /\ UNCHANGED status
       \/ Fails(n) /\ left = BodyBlocks + 1 /\ hooked' = FALSE /\ status' = "header"
    /\ UNCHANGED <<vab, missed>>

\* A block of the body is handed to the sound library, unless it has not sent
\* the one before it.  A refusal of the last block is reported and at once
\* overwritten by the end of the file.
TransferVabBody(n) ==
    /\ cb = "StageSfx" /\ left <= BodyBlocks
    /\ \/ /\ Fails(n) /\ vab /\ left < BodyBlocks
          /\ hooked' = FALSE /\ status' = "late"
          /\ UNCHANGED <<left, vab, mem, spoiled, missed>>
       \/ /\ Works(n) /\ ~vab
          /\ Copied(n = 0, left = 1)
          /\ hooked' = (left # 1)
          /\ status' = IF left = 1 THEN "done" ELSE status
          /\ vab' = TRUE
          /\ UNCHANGED missed
       \/ /\ Fails(n) /\ ~vab
          /\ Copied(FALSE, FALSE)
          /\ hooked' = FALSE
          /\ status' = IF left = 1 THEN "done" ELSE "body"
          /\ missed' = IF left = 1 THEN missed \cup {cb} ELSE missed
          /\ UNCHANGED vab

\* A block arrives that n faults were done to.
Deliver(n) ==
    \/ hooked /\ (CopyBlock(n) \/ CopyVabHead(n) \/ TransferVabBody(n))
    \/ ~hooked /\ Works(n) /\ UNCHANGED <<xferVars, spoiled, missed>>

ElseUnchanged == UNCHANGED <<clientVars, using, again, fileVars, phase, polled>>

Sector ==
    /\ reading /\ hooked
    /\ Deliver(0)
    /\ ElseUnchanged /\ UNCHANGED <<driveVars, syncVars>>

\* The drive could not read: it reports an error, and the ready callback,
\* which does not look at what is reported, takes a block all the same.  It
\* may go on with the next block or stop.
ReadError ==
    /\ reading /\ faults < MaxFaults
    /\ reading' \in BOOLEAN
    /\ sync' = "DiskError" /\ seen' = FALSE
    /\ Deliver(1)
    /\ ElseUnchanged /\ UNCHANGED <<lid, shell, pos, pending>>

\* The drive stops; if it was reading it may report that it did.
LidOpen ==
    /\ ~lid /\ faults < MaxFaults
    /\ lid' = TRUE /\ shell' = TRUE /\ reading' = FALSE
    /\ \/ /\ reading
          /\ sync' = "DiskError" /\ seen' = TRUE
          /\ Deliver(1)
       \/ Works(1) /\ UNCHANGED <<sync, seen, xferVars, spoiled, missed>>
    /\ ElseUnchanged /\ UNCHANGED <<pos, pending>>

LidClose ==
    /\ lid /\ lid' = FALSE
    /\ ElseUnchanged
    /\ UNCHANGED <<xferVars, shell, reading, pos, syncVars, histVars>>

\* getintr: the answer to a Nop, with the shell flag, which it clears in a
\* closed drive, and the end of a Pause or a Seek.  Either replaces whatever
\* CdSync had not yet reported.
Answer ==
    /\ pending # "none" /\ pending' = "none"
    /\ sync' = IF shell THEN "DiskError" ELSE "Complete"
    /\ seen' = shell
    /\ shell' = IF pending = "Nop" THEN lid ELSE shell
    /\ missed' = IF Dropped /\ ~shell THEN missed \cup {cb} ELSE missed
    /\ ElseUnchanged
    /\ UNCHANGED <<xferVars, lid, reading, pos, spoiled, faults>>

\* The sound library has sent a block.
VabSent ==
    /\ vab /\ vab' = FALSE
    /\ ElseUnchanged
    /\ UNCHANGED <<left, status, hooked, mem, driveVars, syncVars, histVars>>

(***************************************************************************)
(* UpdateCd.  First the copy of g_CdStep and the entries of the file table *)
(* that depend on the stage, and the poll of the steps that begin with it. *)
(***************************************************************************)
NextFile(f) == IF f = "StagePrg" /\ stage \in SeqStages THEN "Seq" ELSE "NoNext"
FileOf(request) == IF request = "Prefetch" THEN "StageChr" ELSE request

FileTable == [f \in Files |->
    IF f = loadFile /\ f \in {"StageChr", "StageSfx"} THEN ovl
    ELSE IF loadFile = "StagePrg" /\ f \in {"StagePrg", NextFile("StagePrg")} THEN stage
    ELSE lba[f]]

Clears == step = "LoadInit" /\ loadFile # "None"
Polls == Clears \/ step \in (Loading \ {"LoadInit"}) \cup {"F1", "F3"}

UpdateCdHeadByFile ==
    /\ phase = "poll" /\ phase' = "switch"
    /\ using' = (loadFile # "None")
    /\ lba' = FileTable
    /\ hooked' = (hooked /\ ~Clears)
    /\ \/ Polls /\ polled' = sync /\ sync' = IF sync = "NoIntr" THEN sync ELSE "Complete"
       \/ ~Polls /\ UNCHANGED <<polled, sync>>
    /\ UNCHANGED <<clientVars, again, cb, left, status, vab, mem, driveVars,
                   seen, pending, histVars>>

UpdateCdHead ==
    /\ phase = "poll" /\ phase' = "switch"
    /\ using' = (step # "None")
    /\ lba' = FileTable
    /\ hooked' = (hooked /\ ~Clears)
    /\ \/ Polls /\ polled' = sync /\ sync' = IF sync = "NoIntr" THEN sync ELSE "Complete"
       \/ ~Polls /\ UNCHANGED <<polled, sync>>
    /\ UNCHANGED <<clientVars, again, cb, left, status, vab, mem, driveVars,
                   seen, pending, histVars>>

(***************************************************************************)
(* The switch, a case at a time.                                           *)
(***************************************************************************)
At(s) ==
    /\ phase = "switch" /\ phase' = "tail" /\ step = s
    /\ polled' = "Complete"
    /\ UNCHANGED <<ovl, stage, using, lba, faults>>

Stay == UNCHANGED <<step, loadFile, again, cb, xferVars, driveVars, syncVars, spoiled, missed>>
Become(s) ==
    /\ step' = s
    /\ UNCHANGED <<loadFile, again, cb, xferVars, driveVars, syncVars, spoiled, missed>>
\* func_8010838C, which clears the callbacks as well
Abandon(s) ==
    /\ step' = s /\ hooked' = FALSE
    /\ UNCHANGED <<loadFile, again, cb, left, status, vab, mem, driveVars, syncVars,
                   spoiled, missed>>
Advance(s) == step' = IF lid THEN step ELSE s

None == At("None") /\ Stay

LoadInit ==
    /\ At("LoadInit")
    /\ \/ loadFile = "None" /\ Become("None")
       \/ loadFile # "None" /\ polled = "NoIntr" /\ Stay
       \/ /\ loadFile # "None" /\ polled # "NoIntr"
          /\ Control("Done") /\ Advance("SetSpeed")
          /\ reading' = FALSE
          /\ UNCHANGED <<loadFile, again, cb, xferVars, pos, spoiled, missed>>

SetSpeed ==
    /\ At("SetSpeed")
    /\ \/ polled = "NoIntr" /\ Stay
       \/ /\ polled # "NoIntr"
          /\ Control("none") /\ Advance("SetPos")
          /\ UNCHANGED <<loadFile, again, cb, xferVars, reading, pos, spoiled, missed>>

\* A sound file first closes the bank it replaces, and waits until nothing is
\* on its way to the sound memory.
SetPos ==
    /\ At("SetPos")
    /\ \/ polled = "NoIntr" /\ Stay
       \/ /\ polled # "NoIntr"
          /\ cb' = FileOf(loadFile)
          /\ left' = Blocks[FileOf(loadFile)] /\ status' = "busy" /\ spoiled' = FALSE
          /\ mem' = IF loadFile = "StageSfx" THEN [mem EXCEPT !["StageSfx"] = Junk] ELSE mem
          /\ \/ /\ loadFile = "Prefetch"
                /\ Control("Done") /\ Advance("Complete")
                /\ UNCHANGED <<pos, missed>>
             \/ /\ loadFile = "StageSfx" /\ vab
                /\ UNCHANGED <<step, syncVars, lid, shell, pos, missed>>
             \/ /\ loadFile # "Prefetch" /\ ~(loadFile = "StageSfx" /\ vab)
                /\ Control("none") /\ Advance("Seek")
                /\ pos' = IF lid THEN pos ELSE [file |-> loadFile, stage |-> lba[loadFile]]
                /\ missed' = IF lid THEN missed ELSE missed \ {loadFile}
          /\ UNCHANGED <<loadFile, again, hooked, vab, reading>>

Seek ==
    /\ At("Seek")
    /\ \/ polled = "NoIntr" /\ Stay
       \/ /\ polled # "NoIntr"
          /\ Control("none") /\ Advance("Step5")
          /\ hooked' = ~lid /\ reading' = ~lid
          /\ UNCHANGED <<loadFile, again, cb, left, status, vab, mem, pos, spoiled, missed>>

\* Nothing bounds the frames this step waits for the end of the file.
Step5 ==
    /\ At("Step5")
    /\ \/ polled = "DiskError" /\ Abandon("DiskErr")
       \/ polled # "DiskError" /\ status = "busy" /\ Stay
       \/ polled # "DiskError" /\ status \in {"late", "body"} /\ Abandon("DmaErr")
       \/ polled # "DiskError" /\ status = "header" /\ Abandon("SdHeaderErr")
       \/ /\ polled # "DiskError" /\ status = "done"
          /\ Control("Done") /\ Advance("Step6")
          /\ hooked' = FALSE /\ reading' = FALSE
          /\ missed' = IF Dropped /\ ~lid THEN missed \cup {cb} ELSE missed
          /\ UNCHANGED <<loadFile, again, cb, left, status, vab, mem, pos, spoiled>>

\* The file is in memory; its last blocks must have reached the sound memory.
\* After an error the whole file is loaded once more, else the file chained
\* to it, if there is one.
Step6 ==
    /\ At("Step6")
    /\ \/ polled = "DiskError" /\ Abandon("DiskErr")
       \/ /\ polled # "DiskError" /\ (cb = "StageSfx" => ~vab)
          /\ \/ /\ again
                /\ again' = FALSE /\ step' = "LoadInit"
                /\ UNCHANGED <<loadFile, driveVars, syncVars>>
             \/ /\ ~again /\ NextFile(loadFile) # "NoNext"
                /\ loadFile' = NextFile(loadFile) /\ step' = "LoadInit"
                /\ UNCHANGED <<again, driveVars, syncVars>>
             \/ /\ ~again /\ NextFile(loadFile) = "NoNext"
                /\ Control("Done") /\ Advance("None")
                /\ loadFile' = IF lid THEN loadFile ELSE "None"
                /\ UNCHANGED <<again, reading, pos>>
          /\ UNCHANGED <<cb, xferVars, spoiled, missed>>

Complete ==
    /\ At("Complete")
    /\ \/ polled = "DiskError" /\ Abandon("DiskErr")
       \/ polled = "NoIntr" /\ Stay
       \/ /\ polled = "Complete"
          /\ loadFile' = "None" /\ step' = "None"
          /\ UNCHANGED <<again, cb, xferVars, driveVars, syncVars, spoiled, missed>>

Error == \E e \in Errors : At(e) /\ Become("Retry")

Retry ==
    /\ At("Retry")
    /\ CdInit
    /\ step' = "LoadInit" /\ again' = TRUE
    /\ UNCHANGED <<loadFile, cb, spoiled, missed>>

RetryXa ==
    /\ At("RetryXa")
    /\ CdInit
    /\ step' = "None" /\ again' = TRUE
    /\ UNCHANGED <<loadFile, cb, spoiled, missed>>

CdShellOpenErr ==
    /\ At("CdShellOpenErr")
    /\ ControlF("Nop") /\ step' = "F1"
    /\ UNCHANGED <<loadFile, again, cb, xferVars, spoiled, missed>>

F1Waits ==
    /\ At("F1")
    /\ IF polled = "Complete" /\ ~seen THEN Become("F2") ELSE Stay

\* The branch for a disk error compares a truth value with 5: it is never
\* taken, and the answer that carried the shell flag is seen a frame later.
F1 ==
    /\ At("F1")
    /\ \/ polled # "Complete" /\ Stay
       \/ polled = "Complete" /\ Become(IF seen THEN "CdShellOpenErr" ELSE "F2")

F2 ==
    /\ At("F2")
    /\ ControlF("Done") /\ step' = "F3"
    /\ UNCHANGED <<loadFile, again, cb, xferVars, spoiled, missed>>

\* Without a file to load, the music is started again if there should be any.
F3 ==
    /\ At("F3")
    /\ \/ polled # "Complete" /\ Stay
       \/ polled = "Complete" /\ seen /\ Become("CdShellOpenErr")
       \/ polled = "Complete" /\ ~seen /\ Become("Retry")
       \/ polled = "Complete" /\ ~seen /\ loadFile = "None" /\ Become("RetryXa")

Switch ==
    \/ None \/ LoadInit \/ SetSpeed \/ SetPos \/ Seek \/ Step5 \/ Step6 \/ Complete
    \/ Error \/ Retry \/ RetryXa \/ CdShellOpenErr \/ F1 \/ F2 \/ F3

\* func_801073E8, not called while an error is handled: it takes the last
\* answer, whatever it is, and looks only for the shell flag in it.
UpdateCdTail ==
    /\ phase = "tail" /\ phase' = "game"
    /\ \/ /\ step \notin Loading \cup {"None"} \/ sync = "NoIntr"
          /\ UNCHANGED <<step, hooked, driveVars, syncVars, missed>>
       \/ /\ step \in Loading \cup {"None"} /\ sync # "NoIntr" /\ seen
          /\ step' = "CdShellOpenErr" /\ hooked' = FALSE /\ sync' = "Complete"
          /\ UNCHANGED <<driveVars, seen, pending, missed>>
       \/ /\ step \in Loading \cup {"None"} /\ sync # "NoIntr" /\ ~seen
          /\ ControlF("Nop")
          /\ missed' = IF Dropped THEN missed \cup {cb} ELSE missed
          /\ UNCHANGED <<step, hooked>>
    /\ UNCHANGED <<loadFile, ovl, stage, using, again, fileVars, left, status, vab, mem,
                   polled, spoiled, faults>>

UpdateCd == UpdateCdHead \/ Switch \/ UpdateCdTail
Drive == Sector \/ ReadError \/ LidOpen \/ LidClose \/ Answer \/ VabSent
=============================================================================
