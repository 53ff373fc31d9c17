------------------------------ MODULE SaveRoom ------------------------------
(***************************************************************************)
(* Saving in a save room: the steps of func_80103ED4, which saves through  *)
(* the memory-card driver, and the screens of func_80105428, which ask the *)
(* player where to save, start the steps and say how they ended.  Both run *)
(* once a frame.  A screen lasts some frames, so the order of the two in a *)
(* frame does not matter.  This is the code of the US version.             *)
(***************************************************************************)
EXTENDS MemCard

CONSTANTS
    CardRetries,    \* 4, errors of an examination that are tried again
    WriteRetries,   \* 10, errors of a write that are tried again
    FormatRetries,  \* 4
    StartCards      \* cards the ports may hold when the game starts

ASSUME SaveRoomAssumption ==
    /\ CardRetries \in Nat /\ WriteRetries \in Nat /\ FormatRetries \in Nat
    /\ StartCards \subseteq [Ports -> Card]

VARIABLES
    saveStep,      \* D_80137E4C: 6 saved, 7 to 11 why not
    retry,         \* g_MemCardRetryCount, -1 for the value it wraps to
    saveMode,      \* D_80137E54: 0 none, 1 new file, 2 overwrite, 3 nothing to overwrite
    screen,        \* D_801379BC
    port, block,   \* D_80097924, D_8006C378: where the game was saved or loaded last
    wasPort, wasBlock  \* D_80137EF0, D_80137EF4: the same before this attempt

steps == <<saveStep, retry, saveMode>>
place == <<port, block, wasPort, wasBlock>>
vars == <<cardVars, steps, screen, place>>

Saved == 6
NoCard == 7
Defective == 8
Unformatted == 9
Full == 10
FormatError == 11

Screens == {"rest", "approach", "overwrite", "otherCard", "chooseCard", "leave", "spin",
            "coffin", "message", "done", "askFormat", "format", "formatting",
            "formatError", "away", "again"}

TypeInv ==
    /\ TypeOK
    /\ saveStep \in 0..FormatError /\ retry \in Nat \cup {-1} /\ saveMode \in 0..3
    /\ screen \in Screens
    /\ port \in Ports \cup {NoPort} /\ block \in Blocks \cup {NoBlock}
    /\ wasPort \in Ports \cup {NoPort} /\ wasBlock \in Blocks \cup {NoBlock}

\* A game is begun, with or without a card in mind, or loaded from a card.
Init ==
    /\ \E card \in StartCards : Begins(card)
    /\ saveStep = 0 /\ retry = 0 /\ saveMode = 0 /\ screen = "rest"
    /\ port \in Ports \cup {NoPort} /\ block \in Blocks \cup {NoBlock}
    /\ block # NoBlock => (port # NoPort /\ files[port][block] = "old")
    /\ wasPort = port /\ wasBlock = block

(***************************************************************************)
(* func_80103ED4.  An error is tried again until the count runs out, and   *)
(* the step after that differs.                                            *)
(***************************************************************************)
Saving == saveMode # 0 /\ saveStep < Saved
Step(s) == Saving /\ saveStep = s /\ UNCHANGED <<screen, port, wasPort, wasBlock>>

RetryForever(again, after) ==
    /\ retry' = retry /\ saveStep' = again
Retry(again, after) ==
    /\ retry' = retry - 1
    /\ saveStep' = IF retry = 0 THEN after ELSE again

SaveInit ==
    /\ Step(0) /\ saveStep' = 1 /\ retry' = CardRetries
    /\ MemcardInit
    /\ UNCHANGED <<cards, busy, events, polls, unk258, found, dir, fd, short, faults>>
    /\ UNCHANGED <<saveMode, block>>

SaveExamine ==
    /\ Step(1) /\ Examining(port) /\ UNCHANGED <<steps, block>>

SaveExamined ==
    /\ Step(1) /\ Examined
    /\ \/ unk258 = -1 /\ Retry(1, NoCard)
       \/ unk258 = -3 /\ Retry(1, Defective)
       \/ unk258 = -2 /\ saveStep' = Unformatted /\ UNCHANGED retry
       \/ unk258 > 0 /\ saveStep' = 2 /\ UNCHANGED retry
    /\ UNCHANGED <<cards, busy, events, polls, unk258, found, dir, fd, short, faults>>
    /\ UNCHANGED <<saveMode, block>>

SaveParse == Step(2) /\ ListMore(port) /\ UNCHANGED <<steps, block>>

SaveParsed ==
    /\ Step(2) /\ ListEnd
    /\ retry' = WriteRetries
    /\ saveStep' = IF block = NoBlock THEN 3 ELSE 4
    /\ saveMode' = IF saveMode = 2 /\ block # NoBlock /\ found \cap Blocks = {} /\ Free(found) = 0
                   THEN 3 ELSE saveMode
    /\ UNCHANGED <<cards, busy, events, cardStep, polls, unk258, found, fd, short, faults, block>>

Unlisted == {b \in Blocks : ~MemcardDetectSave(dir, b)}

SavePick ==
    /\ Step(3)
    /\ \/ /\ Unlisted = {} \/ Free(dir) = 0
          /\ saveStep' = Full /\ UNCHANGED block
       \/ /\ Free(dir) # 0 /\ saveStep' = 4
          /\ block' \in Unlisted /\ \A b \in Unlisted : block' <= b
    /\ UNCHANGED <<cardVars, retry, saveMode>>

Create == ~MemcardDetectSave(dir, block)

SaveNoRoom ==
    /\ Step(4) /\ Create /\ Free(dir) = 0
    /\ saveStep' = Full
    /\ UNCHANGED <<cardVars, retry, saveMode, block>>

SaveWrite ==
    /\ Step(4) /\ (Create => Free(dir) # 0)
    /\ \/ WriteStarts(port, block, Create) /\ saveStep' = 5 /\ retry' = WriteRetries
       \/ WriteFails(port, block, Create) /\ Retry(4, 0)
    /\ UNCHANGED <<saveMode, block>>

SaveClose ==
    /\ Step(5) /\ Closing
    /\ IF Written THEN saveStep' = Saved /\ UNCHANGED retry ELSE Retry(4, 0)
    /\ UNCHANGED <<cards, busy, driver, short, saveMode, block>>

SaveStep ==
    \/ SaveInit \/ SaveExamine \/ SaveExamined \/ SaveParse \/ SaveParsed
    \/ SavePick \/ SaveNoRoom \/ SaveWrite \/ SaveClose

(***************************************************************************)
(* func_80105428 and the answers the player gives in HandleSaveMenu.       *)
(***************************************************************************)
On(s) == screen = s /\ UNCHANGED cardVars
Goes(s) == screen' = s
Starts(mode) == saveMode' = mode /\ Goes("spin")

Restore == port' = wasPort /\ block' = wasBlock

\* The coffin opens: what follows is an attempt of its own.
Activate ==
    /\ screen = "rest" /\ Goes("approach")
    /\ wasPort' = port /\ wasBlock' = block
    /\ short' = FALSE
    /\ UNCHANGED <<cards, busy, events, driver, faults, steps, port, block>>

Approach ==
    /\ On("approach")
    /\ \/ port # NoPort /\ block = NoBlock /\ Starts(1) /\ UNCHANGED port
       \/ port # NoPort /\ block # NoBlock /\ Goes("overwrite") /\ UNCHANGED <<saveMode, port>>
       \/ port = NoPort /\ port' = 0 /\ Goes("chooseCard") /\ UNCHANGED saveMode
    /\ UNCHANGED <<saveStep, retry, block, wasPort, wasBlock>>

Overwrite ==
    /\ On("overwrite")
    /\ \/ Starts(2)
       \/ Goes("otherCard") /\ UNCHANGED saveMode
    /\ UNCHANGED <<saveStep, retry, place>>

OtherCard ==
    /\ On("otherCard")
    /\ \/ port' = 0 /\ Goes("chooseCard") /\ UNCHANGED block
       \/ Restore /\ Goes("leave")
    /\ UNCHANGED <<steps, wasPort, wasBlock>>

ConfirmKeepingBlock ==
    /\ On("chooseCard")
    /\ port' \in Ports /\ UNCHANGED block
    /\ Starts(1)
    /\ UNCHANGED <<saveStep, retry, wasPort, wasBlock>>
Confirm ==
    /\ On("chooseCard")
    /\ port' \in Ports /\ block' = NoBlock
    /\ Starts(1)
    /\ UNCHANGED <<saveStep, retry, wasPort, wasBlock>>

Cancel ==
    /\ On("chooseCard")
    /\ port' = NoPort /\ Goes("leave")
    /\ UNCHANGED <<steps, block, wasPort, wasBlock>>

\* The places are put back only while a button is pressed.
Leave ==
    /\ On("leave")
    /\ \/ Restore /\ UNCHANGED screen
       \/ Goes("rest") /\ UNCHANGED <<port, block>>
    /\ UNCHANGED <<steps, wasPort, wasBlock>>

Spin == On("spin") /\ saveStep >= 4 /\ Goes("coffin") /\ UNCHANGED <<steps, place>>
Coffin == On("coffin") /\ saveStep >= Saved /\ Goes("message") /\ UNCHANGED <<steps, place>>

Message ==
    /\ On("message") /\ saveStep >= Saved
    /\ \/ saveStep = Saved /\ Goes("done") /\ UNCHANGED port
       \/ saveStep = Unformatted /\ Goes("askFormat") /\ UNCHANGED port
       \/ saveStep \notin {Saved, Unformatted} /\ port' = NoPort /\ Goes("away")
    /\ UNCHANGED <<steps, block, wasPort, wasBlock>>

AskFormat ==
    /\ On("askFormat")
    /\ \/ block' = NoBlock /\ Goes("format") /\ UNCHANGED port
       \/ port' = NoPort /\ Goes("away") /\ UNCHANGED block
    /\ UNCHANGED <<steps, wasPort, wasBlock>>

\* MemCardInitAndFormat; the count is compared after it is decremented.
FormatInit ==
    /\ screen = "format" /\ Goes("formatting")
    /\ MemcardInit /\ retry' = FormatRetries
    /\ UNCHANGED <<cards, busy, events, polls, unk258, found, dir, fd, short, faults>>
    /\ UNCHANGED <<saveStep, saveMode, place>>

Format ==
    /\ screen = "formatting"
    /\ \/ Formatted(port) /\ Goes("again") /\ UNCHANGED <<saveStep, retry>>
       \/ /\ FormatFails(port) /\ retry' = retry - 1
          /\ IF retry = 0 THEN saveStep' = FormatError /\ Goes("formatError")
             ELSE UNCHANGED <<saveStep, screen>>
    /\ UNCHANGED <<busy, driver, short, saveMode, place>>

FormatErrorShown ==
    /\ On("formatError") /\ port' = NoPort /\ Goes("away")
    /\ UNCHANGED <<steps, block, wasPort, wasBlock>>

\* func_80103EAC
Forget == saveStep' = 0 /\ saveMode' = 0 /\ dir' = {}

Away ==
    /\ screen = "away" /\ Goes("rest") /\ Forget /\ Restore
    /\ UNCHANGED <<cards, busy, events, cardStep, polls, unk258, found, fd, short, faults>>
    /\ UNCHANGED <<retry, wasPort, wasBlock>>

Again ==
    /\ screen = "again" /\ Goes("approach") /\ Forget
    /\ UNCHANGED <<cards, busy, events, cardStep, polls, unk258, found, fd, short, faults>>
    /\ UNCHANGED <<retry, place>>

\* The player leaves the room and comes to another (func_801042C4).
EnterRoom ==
    /\ screen \in {"rest", "done"} /\ Goes("rest") /\ Forget
    /\ files' = [p \in Ports |-> [n \in Names |->
                   IF files[p][n] = "new" THEN "old" ELSE files[p][n]]]
    /\ UNCHANGED <<inside, fresh, formatted, busy, events, cardStep, polls, unk258, found, fd>>
    /\ UNCHANGED <<short, faults, retry, place>>

Screen ==
    \/ Activate \/ Approach \/ Overwrite \/ OtherCard \/ Confirm \/ Cancel \/ Leave
    \/ Spin \/ Coffin \/ Message \/ AskFormat \/ FormatInit \/ Format \/ FormatErrorShown
    \/ Away \/ Again \/ EnterRoom

Next == SaveStep \/ Screen \/ (World /\ UNCHANGED <<steps, screen, place>>)

Spec == Init /\ [][Next]_vars

\* A frame runs the steps, and the BIOS ends what it began.
FairSpec == Spec /\ WF_vars(SaveStep)
                 /\ WF_vars(BiosAnswers /\ UNCHANGED <<steps, screen, place>>)

(***************************************************************************)
(* Properties.                                                             *)
(***************************************************************************)
\* "Data saved." is shown (saveStep 6) only when the card holds, whole, the
\* save of this attempt where the game will look for it: no event of an
\* earlier request is ever taken for the end of the write.
DataSaved ==
    saveMode # 0 /\ saveStep = Saved =>
        port \in Ports /\ block \in Blocks /\ files[port][block] = "new"

\* A file made before is lost only where the player agreed to it, overwriting
\* that save or formatting that card, unless a listing missed a file: no error,
\* no retry and no menu left half way makes the steps write over another one.
KeepsOtherSaves ==
    [][\A p \in Ports : \A n \in Names :
        files[p][n] = "old" /\ files'[p][n] # "old" =>
            \/ p = port /\ n = block /\ saveMode = 2
            \/ p = port /\ screen = "formatting"
            \/ short]_vars

\* The steps come to an end, saved or not, once the card no longer fails: neither
\* a retry, nor the way round again in func_80103ED4, nor an event that was missed
\* keeps them going by itself.  That the faults are finite in number (MaxFaults) is
\* needed: the step that starts a write sets the count of retries to 10 again, so
\* a card on which every write starts and ends in an error is tried for ever.
SaveEnds == Saving ~> ~Saving
=============================================================================
