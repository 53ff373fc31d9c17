# A verification project for sotn-decomp

The repository is a matching decompilation of *Castlevania: Symphony of the
Night*. It holds two programs that are worth a formal model:

- **the automation** (`automation/`): a fleet of worker processes that claim
  functions from a shared queue, put generated C into the one source tree,
  build it, and keep what matches byte for byte. Its state is files, its
  processes are killed at any moment, and its correctness argument is spread
  over comments, docstrings and past incidents;
- **the game** (`src/`): about 3000 files of entity code stepped once a frame.
  Nearly all of it is sequential. Three parts are protocols: the CD sound driver
  (`src/dra/sound.c`), with its request ring, command queue, coroutines that
  share one step counter, a drive that refuses, and callers that wait; the
  CD file loader (`src/dra/cd.c`), a state machine of one step a frame against
  the drive's interrupts, with the code that changes the stage as its client;
  and saving (`src/save_mgr.h`, `src/dra/62DEC.c`), steps that are polled once a
  frame against the events of the BIOS, and screens that start them.

Paths below are relative to the root of the repository; where the project's
`PROJECT.json` writes `src/<path>`, `src/` is that root.

## 1. Inventory

| component | state | operations | depends on |
|---|---|---|---|
| **Queue file transactions** `automation/scheduler.py` `Queue` | `queue.jsonl`, `queue.jsonl.lock`, a temporary file per process | `_read`, `_write`, `transaction` | flock, `os.replace` |
| **Work queue** `automation/scheduler.py` commands | a record per function: status, `claimed_from`, claims, handoff and its limit, search verdict, proof | `next` (pool and `--only`), `report`, `init`, `reclaim`, `prune`, `snapshot`, `restore`, `annotate` | queue file; called by every other part |
| **Build lock** `automation/win/worker_direct.py` `BuildLock` | `automation/.build.lock`: a pid and an age | `acquire` with stealing, `release` | taken by workers, permuter supervisor, dashboard, `fleet_stop` |
| **Fleet worker** `worker_direct.py` `process_one`, `main` | source tree, `automation/pending/<worker>.json` journals, `landings/`, module globals `_CURRENT_CLAIM`, `_CURRENT_SEED` | claim, generate, apply, build, restore, land, report, release, replay, signal handlers | queue, build lock |
| **Fleet control** `automation/mcp/commands_client.py` | pid files, hold file | `fleet_start`, `fleet_stop` | all of the above |
| **Detached jobs** `automation/mcp/jobs.py` | a directory per job: metadata, log, `.done` | `start`, `status`, `running_jobs`, `cancel` | the connector |
| **Permuter supervisor** `automation/permuter_supervisor.py` | checkpoints, search jobs | pick, search, `land_match` | queue, build lock, tree |
| **CD sound driver** `src/dra/sound.c`, frame loop in `src/dra/` | ring, command queue, step, flags, suspended tracks, volumes | `PlaySfx`, `MuteSound`, one frame of `func_801361F8`, the watchdog | the drive; called by game code |
| **CD file loader** `src/dra/cd.c`, libcd in `src/main/psxsdk/libcd/` | `g_CdStep`, `g_LoadFile`, `g_LoadOvlIdx`, the file table, the transfer under way, the two callbacks, the last answer of the drive | `UpdateCd`, the callback of each kind of file, `func_801073C0`, `func_801073E8`; `CdSync`, `CdControl`, `CdInit` | the drive, its lid, the sound memory |
| **Stage change** `src/dra/game_handlers.c`, `42398.c`, `5087C.c` | `g_GameStep`, the corridor's `D_8003C708`, `D_8003C710`, `D_8003C712` | `func_800E414C`, `HandlePlay`, `HandleNowLoading`, the way back into a room, the soft reset | CD file loader, by plain assignments and the copy `g_IsUsingCd` |
| **Memory card and save room** `src/save_mgr.h`, `src/dra/62DEC.c` | `g_MemcardStep`, `g_MemcardInfo`, `g_MemcardFd`; `D_80137E4C`, `g_MemCardRetryCount`, `D_80137E54`; `D_801379BC`; `D_80097924` and `D_8006C378`, the place of the last save, with copies of before | `func_800E9880`, `MemcardParse`, `MemcardWriteFile`, `MemcardClose`, `MemcardFormat`; `func_80103ED4`; `func_80105428`, `HandleSaveMenu` | the BIOS, by events; the cards; the player's hands |
| **Callers of the driver** cutscenes, menu | their own step, waiting for the driver's flags | request, wait | CD sound driver |
| Model clients, candidate review | none that outlives a call | | called by the worker |
| Analysis, audit, reporting, dashboard | none (they read) | | |
| Game engine, stages, bosses, weapons, servants | entity state, one frame at a time | | |
| PC port, SDK shims, Saturn/PSP variants, build tools | | | |

**How they interact.** Worker, operator and supervisor never talk to each
other. They share four things: the queue file (under flock, one transaction at
a time), the build lock (a file created with `O_EXCL`, stolen when old), the
source tree (written only under the build lock, with one exception below), and
the journals. `fleet_stop` acts on all four from outside. In the game, callers
and the driver share a ring and two flags. The stage change asks the loader for
a file by writing `g_CdStep` and `g_LoadFile`, whatever the loader is doing, and
learns that it is done from a copy of `g_CdStep` that is up to a frame old; the
loader learns of the drive through one status word that `CdSync` clears. The
save room's steps ask the BIOS and look for an event in later frames; the event
does not say which request it answers.

**What is hard.** Processes killed between two writes; a lock whose owner is
dead, or is its own signal handler; a decision taken from a read outside the
lock; a claim that outlives its worker; a whole-file restore that is older
than what others have landed since; in the driver, nine coroutines on one
counter while requests, loop ends, overflows and a watchdog change the queue
under them; in the loader, the same status word polled at two places of a frame,
loads that are cut short by the next, and callbacks that outlive their load; in
the save room, events that outlive their request, retries that rest on an old
listing, and menus left half way that leave a place behind.
`PROJECT.json` lists each hazard at its line, with the properties
that cover it, or the reason why none does yet.

**What makes each part correct**

- Queue file: no update is lost, no reader sees half a file, no command waits
  for a dead one; together, atomic durable transactions.
- Work queue: `matched` only with verified proof; a stranded claim goes back to
  where it came from; the circuit breaker bounds what one record can waste; a
  search verdict speaks of one deferral only; nothing starves.
- Build lock: one process inside; an abandoned lock does not wedge the fleet.
- Worker and control: a match is archived before the queue says so. Of a file
  that holds one of the functions: a candidate in it can be taken out, what is
  archived did match, a stop leaves it clean. One record, one worker. The code
  gives these under conditions, which the properties state: see `Fleet`.
- Driver: the counter belongs to the head of the queue; a started command is
  not thrown away; suspend and resume nest correctly; volume comes back;
  callers that wait are told.
- Loader and stage change: a stage starts with its own files in memory; "idle"
  is never said while a file is loaded, and memory is at rest then; a game that
  waits for the CD goes on.
- Memory card: what is said to be saved is on the card; no save is lost that the
  player did not give up; once nothing fails any more, the attempt ends.

## 2. Modules

| module | models | composes |
|---|---|---|
| `AtomicQueue` | abstract: transactions that are applied once, at once, and stay applied after they are acknowledged | |
| `QueueFile` | `Queue.transaction` step by step | implements `AtomicQueue` (`ImplementsAtomicQueue`) |
| `QueueRecords` | one record and what each command does to it, as operators | |
| `WorkQueue` | the scheduler's commands, workers of two tiers, an operator | extends `QueueRecords`; one transaction is one step, which `QueueFile` justifies |
| `ExclusiveLock` | abstract: a lock with one owner; who is inside owns it; one that was left behind is broken before it is taken again | |
| `BuildLock` | `class BuildLock` with crashes, SIGTERM, reused pids | implements `ExclusiveLock` when stealers are prompt (`ImplementsExclusiveLock`) |
| `Fleet` | `process_one`, journals, replay, handlers, writes that fail, `fleet_stop`, an operator's `reclaim` | uses the results of `WorkQueue` (a queue of statuses) and `BuildLock` (a lock that excludes, free when its owner is dead: `LockIsExclusive` shows that its lock is an `ExclusiveLock` too) |
| `CdSound` | the streamed-music half of `sound.c`, the frame loop's watchdog, the drive | |
| `CdLoad` | `UpdateCd` with its steps, the callbacks of a stage's four files, what libcd and the drive do between two calls | |
| `StageChange` | the corridor, the steps of `HandlePlay` and `HandleNowLoading`, the soft reset | extends `CdLoad` with its clients |
| `MemCard` | `save_mgr.h`: the driver of the memory cards; the BIOS, the cards and what can go wrong with them | |
| `SaveRoom` | `func_80103ED4`, the steps of a save, and the screens of `func_80105428` | extends `MemCard` with its client |
| `JobLife` | abstract: a job runs once, is settled once by its own wrapper, and only a cancel writes over that | |
| `Jobs` | `jobs.py`: start, the wrapper, status, cancel | implements `JobLife` (`ImplementsJobLife`) |
| `QueueFileProofs`, `WorkQueueProofs`, `BuildLockProofs`, `FleetProofs`, `CdSoundProofs`, `JobsProofs`, `StageChangeProofs`, `SaveRoomProofs` | theorems | |
| `MC*` | instances for TLC | |

`PROJECT.json` "map" gives for every definition the lines it stands for.

### QueueFile

A path names an inode; `flock` holds the inode that was opened, `os.replace`
changes which inode the path names. `pc[p]` walks through `transaction`: open
the lock file, lock, read, create the temporary file, write it, replace,
return. `Die` is possible after every step and drops the lock, as the kernel
does. The contents of an inode are the set of transactions it reflects. The
refinement mapping is `applied <- data[current]`, `acked <- the processes that
returned`: the linearization point is `os.replace`. Native Windows has no
`fcntl`; there the code takes no lock, and that path is not modelled.

### WorkQueue

A record keeps the fields that later commands branch on. `Next_Pool` is
`cmd_next` without `--only`: the breaker trips on every burned record of the
pool, then the best of the rest is claimed. `Next_Only` is `--only`, which
bypasses pool, ranking and breaker. `WorkerReport` lands whoever holds the
record, since `cmd_report` does not check. `prune` and `restore` read outside
their transaction and so take two steps. `Files` are the files that `init` and
`restore` may be given: besides bare ids they may hold complete records, whose
status, proof and claims both commands take as they are; a bare id and the
scheduler's own snapshot are the cases in which they are to be trusted. `home`,
`named` and `foreign` are history variables: `foreign` are the ids whose record
came from elsewhere and was not reported on since. `TrustInvariant` and
`VerdictOnlyOnDeferral` except them, and nothing else does; `StrandedGoesHome`
holds of them too. Left out: `annotate` (notes only), `make_worktree`,
`next --include-blocked`, `report --status claimed`, a seed record with a status
that the scheduler does not know (`init` does not look), the one-time migration
of the legacy file. Ties in the ranking are left open.

### BuildLock

`pc[p]` says whether p polls, has created the file but not yet written its
pid, is inside, or has judged a lock and will rename it. The age of the file
has three values: fresh, above 10 s, above `stale_after`. A holder leaves
before `stale_after` (a build is given 900 s, the lock 3600 s: guard of
`Tick`). `Sigterm` puts the handler, which takes the lock itself, on top of
whatever the process did. `PromptStealers` is a timing assumption as a
constant: nobody creates the file while another process stands between judging
and renaming. With it the lock excludes; without it TLC shows how two get in.
The refinement mapping to `ExclusiveLock` takes for the owner whoever created
the file at the path, and for inside whoever has created it and not yet left:
creating is `Acquire`, the rename of a judged file `Break`.

### Fleet

`pc[w]` follows `process_one`; from `edit` to `undone`, and in `restart` and
`rescue`, the worker is inside `with BuildLock` (`InLock`). A source file is the
functions in it, each a stub, a body that matches, differs or does not compile,
or `torn`, which is a file that was cut short. A journal is the text of one whole
file; `ReplayOne` and `WriteBack` write that whole text back. `Verdicts` reads
the tree as it is *now*, so a build can be misled by somebody else's restore.
`claim_next` and the setting of `_CURRENT_CLAIM` are two steps (`Claim`, `Hold`):
a signal between them strands the claim. `ClaimOnly` says what survives into a
signal handler: the global `_CURRENT_CLAIM`, and `_CURRENT_SEED`.

`apply_code` is `Journal`, `Truncate` (`open(path, "w")`), `Apply`. In the files
`BadFiles` writes may fail: `ApplyFails` leaves the file as it was, empty or cut
short, `process_one` has no original to restore, and the worker's next journal
replaces the only copy; `RestoreFails` leaves the `with`, and `Salvage` is the
second try of `except Exception`, outside the lock; a journal may refuse to be
disarmed.

`StopTerm`, `StopKill`, `StopClear`, `StopLock`, `ReplayOne(Stop, _)`, `StopDone`
are `fleet_stop` in its order; a worker's handler may be anywhere, also waiting
for the lock it holds itself, when kill -9 comes. `Seen` is `_fleet_pids_alive`:
the launcher lists the workers it starts, but one that is started by hand writes
its pid file only after the replay of its start, and a stop does not see it
before. `overlooked` remembers that a stop has gone on while such a worker lived;
it then loses its lock file, and its claims, like those of the dead. `Reclaim` is
`scheduler.py reclaim` on a running fleet: it goes by the age of the claim.
`PromptWorkers` is the assumption that no worker lets its claim grow old enough
(60 minutes by default; waiting for the lock is not in a worker's budget), so that
it hits records of the dead only.

What the properties except, and why: nothing in the code prevents these cases.

- *Files of several functions* (`Alone`). A worker remembers and journals the text
  of the whole file, with what the others have in it. Two workers killed in one
  file leave journals of which the second holds the first's candidate, and
  the replay goes by their names; a Ctrl-C restores outside the lock, and puts
  another worker's stub back while that builds. Run `fleet_lost` shows a third
  way, with a journal over a match.
- *Files that cannot be written* (`Restorable`).
- *An overlooked worker* (`overlooked`): it replays without a lock, next to
  anybody's edit.
- *A worker that is slow* (`PromptWorkers`) and *a record its gate gives back*
  (`Gated`): two workers are on one record. Run `fleet_claim` shows the second.

`MatchedIsArchived` has none of these conditions.

Abstractions: only the todo pool is claimed from; `parked` stands for
escalated and deferred; a worker is known by its name, which is its own (reused
pids are in `BuildLock`); a lock with a dead owner is free, since `BuildLock`
shows that it is broken; saving a seed never fails, nor does writing a pid file;
the replay of one journal is one step that succeeds (one that fails leaves its
journal to the next replay; one that is killed midway leaves a file cut short
and the journal that repairs it); nobody starts a worker while a stop is under
way (`fleet_start` does refuse during the hold, which is set last: see the
hazards); reviews and prompts are the choice of a kind of body, or `Reject`; a
build that takes too long is `failed`, whatever the body.

### CdSound

A frame is `StartFrame`, one request action per ring entry, `LoopEnds` or
`NoLoop`, `CdFrame`, perhaps `Watchdog`; `PlaySfx` and `MuteSound` come
between frames. Each handler is one operator with a disjunct per case of its
`switch`. The drive answers `done`, `refused` (`DoCdCommand` returned
non-zero) or, in the cases that wait for a seek, `seeking`. The real frame
runs to its end with no interleaving; its parts are actions of their own only
so that each can be read against the function it models, and `phase` forbids
any other order.

Abstractions: sequenced (SEQ) music, sound effects, voices, reverb, stereo
settings and the nesting of `SET_SOUND_WAIT` (no caller) are left out.
`SET_UNK_81..84` and `91..94` are `80` and `90` at other rates; the `FADE_OUT_2`
of `SET_UNK_0B` is that of `SET_STOP_MUSIC`. Volume is counted in frames of a
fade (`Full`). The table of tracks is extracted game data that the repository
does not hold, so its mode bytes are the constants `XaMode`, `XaNextMode`. The
slots of suspended tracks are a stack, and the track being loaded is forgotten
when its command ends. COMMAND_10's countdown is written as steps 3 to 5.

### CdLoad

`step` is `g_CdStep`, `loadFile` is `g_LoadFile`; the flag `0x8000` on a stage's
graphics is the request `Prefetch`, which only moves the head. A frame is
`phase`: the game's code, `UpdateCdHead` (the copy for the game, the file
table, the poll of `CdSync` with which most steps begin), one case of the
switch, and `UpdateCdTail` (`func_801073E8`). The cuts are where an interrupt
makes a difference; between them `Sector`, `ReadError`, `LidOpen`, `Answer` and
`VabSent` may come any number of times. `Control` and `ControlF` are the two
ways to give the drive a command: the first waits for the answer to the one
before, which it thereby drops, and tries four times. `sync` is the one word
`Intr.sync`, `seen` the shell flag in the last result, `pending` an answer that
is still to come. `mem[f]` is the stage whose whole file is in the area of
`f`, or `Junk`.

Two findings of the reading are in the model as they are in the code. A read
error is reported in the same word as the answers of the drive, and
`func_801073E8` and every later answer overwrite it: the file then ends with a
bad block, or `Step5` waits for a sector that never comes. And the refusal of
the last block of a sound file is overwritten by the end of the file. `missed`
is the set of areas such an unnoticed fault was done to; the properties speak of
the others, and say so.

Left out: the other files (the game's own, weapons, servants, monsters), which
take the same steps with other callbacks; the music driver's own commands to the
drive; the timer of libcd, whose expiry counts as a drive that does not answer;
`D_8003C728`. `g_UseDisk` is 1. Collapsed: `LoadInit`'s own `CdlNop`, after which it
waits while the drive seeks (711-714), is part of the wait for an answer before
the pause; the look for a disk error right after a command (720, 736, 790, 808) is
the one at the next poll, which takes the same way back; in `F3` the motor is
taken to turn again once the lid is closed (the standby bit of 996).

### StageChange

`pc` is `g_GameStep` as far as it has to do with loading; `zone` is the player's
place in the corridor, in the five parts the code tells apart, for the
direction in which the corridor is entered from the right (`flags == 0x40`; the
other is its mirror image). `Corridor` is one frame: the player moves by at
most one zone, then `func_800E414C` runs. `Request` is what every client does to
the loader. `Move` assumes that the music has stopped before the player passes
the middle of the corridor: the code does not tie the two together, and a player who
were faster would reach the next stage without its graphics having been
asked for. `LoadStageChr` loads the graphics of the stages in `ChrStages`; the
fixed destinations of the warps (`D_8006C374`) are stages of that set.
`SoftReset` comes after `UpdateCd` in any state, clears the callbacks and the
step, and leaves `g_LoadFile` and `D_800ACD7C`.

### MemCard

`busy` is what the BIOS was asked for and has not answered, `events` the events
that are up. A test of an event takes it down (`Polled`), whoever asked for it.
The actions are the steps of `func_800E9880`, one call of `MemcardParse`, and the
ways in which the other functions return. `files[p]` is the card that belongs to
port p: a name holds nothing, a save from before this visit (`old`), the save of
this attempt (`new`), or a file that was created or begun and not completed
(`part`). The functions of the BIOS are external, and what is assumed of them is
written at their definitions: a request made while one is under way is refused,
and the driver does not look (`Ask`); `open` fails to create a file that exists;
a card that was put in answers `New` until it is cleared. Everything else that can
go wrong counts against `MaxFaults`: an error, an event left up by a call that had
ended, an answer later than the polls wait, a listing that stops early, an open
that fails, a card pulled out. The same card is put back.

Left out: reading and erasing (their only client is the file select), the port
of `g_MemcardInfo` (a client lists a card before it reads the list), and
`D_8006C3AC`, which nothing reads.

### SaveRoom

`saveStep` is `D_80137E4C`, `saveMode` is `D_80137E54`, `screen` names the values
of `D_801379BC` that decide something; cases that only turn the coffin are one.
`port` and `block` are `D_80097924` and `D_8006C378`, `wasPort` and `wasBlock` their
copies from when the coffin was touched. Steps and screens run in the same frame,
but a screen lasts for many, so they interleave. A retry count that wraps is -1.
`short` remembers that a listing of this attempt missed a file: then the code
cannot know better, and `KeepsOtherSaves` does not ask it to. It is the US
version; the coffins that are warps, and a save room the player arrives in from a
loaded game, are left out. `saveMode` 3 ("No game data found") is in `SaveParsed`
and is not reached: the card that was saved to still holds a save, so a listing
without it is short and leaves a block free, or it was formatted since and has
room. It takes another card in the port.

### Jobs

A job is two processes, the wrapper shell (`shell`) and what it runs
(`command`), and two files (`meta`, `done`). `call[p]` is the function of
`jobs.py` that process p is inside and how far it has got. `start` is cut
between its look at the running jobs, `Popen` and the metadata; `status`
between the metadata, the sentinel and the pid; `cancel` between SIGTERM, its
look at the pid, SIGKILL, the sentinel and the flag. `write_text` empties a file
before it writes it, so sentinel and flag are two steps each (`EmptySentinel`,
`WriteSentinel`, `EmptyMeta`, `WriteFlag`). A caller and a wrapper may die between
any two. `cancels` is a history variable that counts the calls of `cancel` that
have signalled a job: a second one empties the sentinel again, and if it dies
there, a cancelled job reads as exit code 1, the crash. `CancelIsNotACrash` excepts
that case and no other. Of all the pids only the wrapper's is known to `jobs.py`,
so its command may outlive it: SIGTERM is `ShellDies`, which leaves the command
alone. Ids are used once and pids are not reused; 143 and 137 are one code, and
an action or a work directory is a key. `LifeOf` maps the four to one of the
states of `JobLife`: what the files say of the job and, as long as they say
nothing, whether its wrapper lives. A job whose sentinel was begun and never
written counts as failed, as `status` reads it.

### Alternative definitions

Beside some definitions stands a second one of the same shape that `Next`
never uses: `LockTargetIsQueue`, `ReplaceEarly`, `BurnedLate`,
`BreakableWhenOld`, `ReportEarly`, `PushOverHead`, `MasterLeft`, `F1Waits`,
`ClearEventButEnd` and so on. Each
is the code with one plausible mistake, several of them mistakes the comments
say it once had. Put in place of the real definition it makes TLC find the
property it is listed with (`PROJECT.json` "mutants") violated: that property
depends on that piece of code.

## 3. Runs

| run | instance | states | shows |
|---|---|---|---|
| `queue_file` | 3 processes | 1 240 | no lost update, whole files, commands end, refinement of `AtomicQueue`, with kills anywhere |
| `queue` | 2 workers (tiers 1 and 2, one with an allowlist), 2 records, one of them blocked, `MAX_CLAIMS` 2, one operator command | 215 130 | trust invariant, stranded claims, breaker, verdicts, no starvation |
| `queue_prune` | same | violation | `prune` deletes a record that was claimed or matched after it looked |
| `build_lock` | 3 processes, prompt stealers | 8 089 | exclusion; abandoned locks are broken; refinement of `ExclusiveLock` |
| `build_lock_steal` | 3 processes, any timing | violation | a late stealer renames the winner's fresh lock |
| `fleet` | 2 workers, one of them started by hand, 2 functions in files of their own, one of which may fail when it is written; all kinds of bodies; one attempt; prompt workers | 687 071 | archive, recovery, genuine landings, clean stop; one worker per record; refinement of `ExclusiveLock` |
| `fleet_claim` | one function gated, no Ctrl-C, no write fails | violation | a blocked shim is reported `todo` while the work goes on: two workers on one record |
| `fleet_lost` | both functions in one file, no Ctrl-C, no write fails | violation | a dead worker's journal overwrites what another has landed in that file |
| `cd_sound` | one piece of music, one line of dialogue, all eight kinds of requests | 1 737 404 | counter, started command, suspended tracks, master volume; whoever waits for a suspend, a resume or a fade has a command on its way, and the wait ends |
| `jobs` | 2 callers, 2 jobs, one work directory | 543 525 | ok is the command's, a cancelled job keeps its code, keys become free; refinement of `JobLife` |
| `stage_change` | 2 stages, one with music in a file of its own, one with graphics loaded by `HandlePlay`; files of 1 to 3 sectors; one fault | 593 482 | stages start loaded, idle is idle, memory is at rest, waits end |
| `memory_card` | 2 ports, 2 names for saves, one file of another game, cards of 2 blocks: one full, one not formatted; two faults; one retry | 1 157 343 | what is said to be saved is on the card, other saves are kept, the steps end once nothing fails any more |

The four violations are disagreements between the code and what a docstring
or comment of it says; `PROJECT.json` "findings" quotes both sides with their
lines.

**Bounds, and why they are enough.**

- *QueueFile*: a lost update needs two writers and a third process that reads
  the result. One transaction per process: a process keeps nothing from one to
  the next.
- *WorkQueue*: two tiers make a handoff; two records make the ranking and the
  blocked rule matter; `MaxClaims = 2` separates "at the limit" from "one
  below". `MaxOps = 1` allows one operator command (reclaim, seed and the
  commit of a two-step command are not counted); a command's interleaving with
  two workers needs no second one. `MCFiles` are two files for `init` and `restore`: bare
  ids, and a file from elsewhere with a claimed record, claims and search verdict
  included, and a matched one without proof; taking that file is an operator
  command and counts. The safety results hold for every value of
  these constants (section 5).
- *BuildLock*: one that leaves a lock behind and two that race to steal it. Each
  may be terminated, die and have its pid reused once.
- *Fleet*: two workers and two functions are the least for one's restore to
  disturb the other's build, or its file. Attempts after the first begin in the
  same state but for the count and the seed, which no property reads. One worker is
  started by hand, so that a stop may overlook it and Ctrl-C reach it, and the
  other is not. The constraint `NobodyOverlooked` ends the search at the first
  state after a stop that has overlooked somebody: of what comes later only
  `MatchedIsArchived` is claimed, and that is proved without it (section 5). The
  two violation runs have no worker by hand and no file that fails: they do not
  need either. No function is gated in `fleet`: both are then asked of every
  property. With one gated it has 1 862 547 states, two bodies instead of three,
  and passes as well, but takes too long to be repeated with every change.
- *CdSound*: `MaxSnd = 3` makes the queue overflow after two commands
  (the code has 0x100; what an overflow does depends on the head and the new
  command only). `RingBound = 1` request per
  frame; any number over the run. `Full = 1` frame per fade keeps both cases of
  the fade, `MaxFails = 1` instead of 900 frames. A full ring that looks empty
  (256 requests in a frame) is not reached.

- *StageChange*: two stages are what a corridor has, and from each of them the
  player reaches the other again, so files of an older visit are in memory. Two
  sectors make a file that is half loaded, three a sound file with a head and
  two blocks of body. `MaxFaults = 1` counts read errors, openings of the lid,
  failures of the sound library and resets together; any of them may come at
  any point of any load, and what it leaves behind (`again`, `loadFile`) lasts
  through all that follows. The safety properties and their invariant hold with two faults as
  well (5 254 435 states), and by the proofs with any number.
- *SaveRoom*: with two names a block can be taken for the other; a file of another
  game fills the card without being a save; two ports let an attempt on one card
  follow one on the other. Attempts follow each other without end. `MaxFaults = 2`
  lets a write fail after an error that was retried, or a card come back after
  it was pulled out; `Polls = 0` waits one frame instead of 128, since what a
  late answer does depends only on its being late. One retry has the last one and
  the one before. The safety results hold for every value (section 5).
- *Jobs*: two callers race each other, two jobs race for one key. A caller keeps
  nothing from one call to the next.

`CHECK_DEADLOCK FALSE` in the queue and lock runs: a queue whose records are
all matched, or processes that are all dead, may stop. The other systems never
do: a finished `QueueFile` idles explicitly, a worker can be started again, and
frames go on.

## 4. Fairness

- `QueueFile`: weak fairness of each process that has opened the lock file
  (`Advance`). flock need not be fair: every holder gives the lock up and never
  comes back.
- `WorkQueue`: a worker without a claim asks again (`main`'s loop), and an
  attempt ends, in a report or a death. Nothing of the operator. That is what
  `NoStarvation` rests on; that the breaker escalates a record that keeps
  killing its workers is what makes it true.
- `BuildLock`: time passes; who polls keeps polling (the loop of `acquire`); who is
  inside gets out (builds have a timeout). Nobody has to want the lock or to
  die.
- `Jobs`: a command ends (builds do; a permuter search is cancelled at its
  iteration cap) and a living wrapper goes on after it. Nobody has to poll, to
  cancel or to reap.
- `Fleet`: none. Its properties are safety; kills may happen for ever.
- `CdSound`: frames go on (weak fairness of `Frame`), and a seek ends (strong
  fairness of the completion of a seek step, since other frames come between).
  Nothing is assumed of a drive that refuses: the watchdog covers it, and the
  two liveness properties hold although it may refuse for ever. Both except an
  overflow of the command queue, which drops commands and with them the fall
  of a flag; the code only records it in a debug counter.
- `SaveRoom`: frames go on (weak fairness of `SaveStep`), and the BIOS ends what it
  was asked for (weak fairness of `BiosAnswers`), which `MemcardClose` needs: it
  waits without a limit. Nothing of the player. Faults are finite in number, and
  an event that comes after the polls is one of them. That they are is needed: the
  step that starts the write sets its count of retries to 10 again (`62DEC.c` 726),
  so a card on which every write ends with an error is tried for ever.
- `StageChange`: frames go on; a drive that reads delivers sectors; the sound
  memory takes what it is sent; the player closes a lid that is open. Faults
  are finite in number. An answer of the drive comes in the end between two
  frames (strong fairness of `phase = "game" /\ Answer`): a frame lasts for 16
  ms, `UpdateCd` for a small part of one. A drive whose every answer came just
  between the poll and the next command would be asked again for ever.

## 5. Proofs

TLAPS proves, for every value of the constants that the modules' `ASSUME`s
allow:

| module | theorems | argument |
|---|---|---|
| `QueueFileProofs` | `QueueFileTypeOK`, `TransactionsLoseNoUpdate`, `ReadersSeeWholeFiles`, `TransactionsAreAtomic` | Between lock and return a process owns the lock file's inode, so nobody else replaces the file; what it read is what the file holds; its temporary file holds that and itself. The invariant says so step by step. Refinement: `Replace` is `Apply`, `Return` is `Ack`, every other step stutters |
| `WorkQueueProofs` | `UndisturbedPruneIsSafe`, assuming `PruneIsUndisturbed` (nobody writes the queue between the two halves of a prune) | What was listed is still todo (`ListedIsTodo`). Together with run `queue_prune`: the look outside the lock breaks the docstring's promise, and nothing else does |
| `WorkQueueProofs` | `WorkQueueTypeOK`, `MatchedIsProved`, `ClaimsRememberHome`, `CircuitBreakerBounds`, `VerdictsStayOnDeferrals` | One predicate `Good` for a record, kept by each operator of `QueueRecords` (a lemma per operator), and asked of the snapshot too, since `restore` brings its records back. Of any record it asks that a reclaim leads home; of one that is not `foreign`, that a match is proved and a search verdict where it belongs. `AdmitGood`: what `init` and `restore` take from a file from elsewhere is `foreign`, and a report makes it sound |
| `BuildLockProofs` | `BuildLockTypeOK`, `BuildLockExcludes`, both assuming `PromptStealers` | Whoever is inside created the file at the path; while someone stands before the rename, the file at the path is abandoned, or gone. A breakable lock is abandoned: its owner is dead, or it is older than any section |
| `BuildLockProofs` | `BuildLockIsExclusive`, assuming `PromptStealers` | Every step maps to a step of `ExclusiveLock` or a stutter, with the same invariant: a rename finds a file that nobody inside created, or none, so it is `Break` and never somebody's `Release` |
| `FleetProofs` | `FleetTypeOK`, `MatchesAreArchived` | `MatchInv`: from the archiving of a body to the report of its match the job's body is in the archive, and nobody reports a match from anywhere else |
| `FleetProofs` | `FleetLockIsExclusive` | `OwnerInv`: as long as no stop has overlooked a worker, who is in a section owns the lock (`LockInv`), and between the kills of a stop and its end no worker runs (`StoppedInv`). So the lock file that `fleet_stop` removes is that of nobody inside. Workers and `fleet_stop` use no more of the lock than `BuildLockIsExclusive` provides |
| `FleetProofs` | `UngatedClaimsAreExclusive`, assuming `PromptWorkers` | `ExclusiveInv`: a worker between its claim and its last report owns the record, a record has one owner, who forgets it in the step that gives it back; a reclaim finds records of the dead only. A gate that returns the record and lets the attempt go on is excepted, and run `fleet_claim` shows why |
| `FleetProofs` | `EditsAreRecoverable`, `StopsLeaveCleanTree` | `CleanInv`, function by function, for those with a writable file to themselves and whatever the other files hold: no text that anybody remembers or journals speaks of the function but that of its own job, and there it is a stub (`TextInv`); a journal outside the edit is disarmed; what it covers differs from a stub by the owner's own candidate at most. With `StoppedInv`, a stop replays every journal there is |
| `FleetProofs` | `LandingsAreVerified`, assuming `PromptWorkers` | `VerifiedInv` adds to `TextInv` and `ExclusiveInv` that a candidate stays in the tree from its edit to the verdict: who restores without the lock restores another file, and who replays holds the lock. Needs no writable file: a build of a file that was cut short is no match |
| `CdSoundProofs` | `CdSoundTypeOK`, `StepsBelongToTheHead`, `SavedTracksNest`, `MasterVolumeIsRestored`, `StartedCommandsStay` | Each handler leaves the counter at a step of its own or ends and leaves it at 0, and between frames only the part of the queue behind the head changes. `TrackInv`, `StartedInv`, `VolumeInv` and `FailsInv` say what each step implies for the saved tracks, the started flag, the volumes and the watchdog's count |
| `CdSoundProofs` | `WaitersHaveACommand` | A raised flag has a command that lowers it in the ring, in the queue or running; a handler that ends lowers the flag first, one that is silenced or started again stays in the queue; only an overflow drops one, and it is excepted. It is the safety half of `SuspendEnds` and `FadeIsOver` |
| `StageChangeProofs` | `StageChangeInvariant`, `StageChangeTypeInv`, `StagesStartLoaded`, `IdleMeansIdle`, `IdleMemoryStays` | `Quiet`: what each step and each callback that is registered says of the transfer; no callback outside a transfer. `Transfer`: as long as no block was lost, an area that is complete holds the file the head was moved to. `Client`: in each step of the game, which of the stage's files are in memory or on their way there, a load that was cut short included. A lemma per action and conjunct |
| `StageChangeProofs` | `WaitsAreForSomething` | `Stalls`: where the loader waits for the blocks of a file, the callback is registered, and the drive reads, or the lid's flag or an error is still to be looked at; an error that is not the lid's has spoiled a block, so the step that drops it makes the file one of `missed`. `Answered`: CdSync says `NoIntr` only while an answer is owed |
| `SaveRoomProofs` | `TypeCorrect`, `SavedIsSaved`, `OthersAreKept` | A screen tells how far the steps are (`ScreenInv`). Between a good verdict and the write the BIOS is idle, so the write is not refused (`IdleInv`); the events are cleared after `open`, so the next `End` is the write's (`WriteInv`). As long as no listing fell short, the block of an attempt that is no overwrite is not one of an old save (`OwnInv`). No card is assumed formatted, present or free of errors |
| `JobsProofs` | `JobsTypeOK`, `CancelledJobsAreNotCrashes`, `OkIsTheCommands` | Who may still write the sentinel: the wrapper while it lives, and a cancel only once it has seen the wrapper dead or killed it. So a cancel is the last writer, and an ok is the wrapper's |
| `JobsProofs` | `JobsHaveOneLife` | Every step of `start`, the wrapper, `status` and `cancel` maps to a step of `JobLife` or a stutter. `WrapperInv`: until the wrapper has ended, nobody else has touched the sentinel; `ListInv`: a job is listed by the one caller that launched it, and cancelled only then |
| `JobsProofs` | `SerialStartsExclude`, assuming `StartsAreSerial` (no two callers are inside `start` for one key) | What is running and listed has its key to itself, and the caller that has looked found none. Nothing in the code sees to the assumption; the theorem says that there is no other way to two running jobs of a key: not through a cancel, a shell that is killed, or a caller that dies before it has listed its job |

None of the invariants is inductive as it stands: no lost update depends on who
owns the lock, exclusion on who judged which file, recovery on what a handler
still remembers, a job's end on whether its wrapper may still write. The strengthenings stand at the head of each proof module.

**Only model-checked**: every liveness property (`CommandsEnd`,
`NoStarvation`, `AbandonedLockIsBroken`, `SuspendEnds`, `FadeIsOver`,
`KeyIsFreed`, `WaitEnds`, `SaveEnds`), since liveness under fairness and `ENABLED` are out of this
prover's reach. `WaitersHaveACommand`, `WaitsAreForSomething`, `CircuitBreakerBounds` and
`BuildLockExcludes`
are safety results that `SuspendEnds` and `FadeIsOver`, `WaitEnds`, `NoStarvation` and
`AbandonedLockIsBroken` rest on. Conversely, the type invariants of
`QueueFile`, `WorkQueue`, `BuildLock`, `Fleet`, `CdSound`, `Jobs`, `StageChange` and
`SaveRoom` are proved and no longer asked of the runs. The four violations are
counterexamples of TLC. No module uses a `RECURSIVE` operator.

## 6. Not modelled

- Text of prompts, model clients, candidate review, m2c, the reading of build
  output: only which of the outcomes the loop acts on.
- Analysis, audit, dashboard: they read.
- The permuter supervisor's own state, dialogue and menu as
  clients of the driver: planned, below. The supervisor appears as the operator
  report that lands a match (`WorkQueue`) and as a process (`BuildLock`).
- Of the memory card: the file select (`src/st/sel/32D6C.c`), with copying, erasing
  and loading; the PSP version; the exchange of a card for another.
- Of the connector (`commands_client.py`) all but `fleet_start`/`fleet_stop`.
- Stages, bosses, weapons, servants, the PC port, psxsdk and pspsdk headers,
  the Saturn and PSP variants, `tools/` and the build: sequential game code,
  libraries and translation, with no protocol of their own.
- Native Windows without `fcntl` (see `QueueFile`).

## 7. Plan

In this order:

1. done: queue file, work queue, build lock, fleet, sound driver, jobs, the CD
   file loader with the stage change, the memory card with the save room, a
   proof module for each, and the abstract lock and the abstract job with the
   proofs that what `BuildLock`, `Fleet` and `Jobs` do implements them;
2. `Dialogue`: a cutscene that suspends the music, plays its line, and resumes,
   composed with `CdSound`. It states whose flag a waiter saw, and settles what
   no text of the driver does: a track that runs out in the frame in which
   another was requested starts again (`sound.c` 904), a track requested while
   its own fade-out is queued is ignored (1266), the stop queued at the end of a
   fade hits a track started meanwhile (1008), `COMMAND_6` behind a fade sets
   the playing id again (1296);
3. the permuter supervisor's `land_match` as one more actor in `Fleet`, with
   `fleet_stop` removing the lock under it;
4. what the docstrings of `jobs.py` say beyond run `jobs`, as violation runs: two
   starts of one key that both saw it free; a command that outlives the wrapper
   whose pid `cancel` watches before it escalates; a status that read the
   metadata before the cancel and the sentinel after it; one that saw no sentinel
   and then a dead process, the job having ended in between, which it calls vanished;
   a second cancel that dies while it writes the sentinel. Likewise for `Fleet`: the
   two journals of one file, the worker that a stop overlooks, the slow worker
   whose record is reclaimed;
5. reports that time out and land later; journals whose owner's pid is reused;
6. the other files of the CD loader (game, weapons, servants, monsters) and their
   clients; the sound driver's commands to the drive, which the loader's poll
   of `CdSync` may consume;
7. the file select over `MemCard`: both cards listed at once, copied and erased; and
   the exchange of cards, for which `DataSaved` needs to say which card.
8. further proofs: the safety halves of the liveness properties that have none
   yet (whose turn it is in `CommandsEnd`, what each retry of `SaveEnds` uses up).
