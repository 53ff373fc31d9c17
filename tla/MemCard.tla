------------------------------- MODULE MemCard -------------------------------
(***************************************************************************)
(* The memory-card driver of save_mgr.h, and the BIOS and the cards below  *)
(* it.  The driver is polled: a client calls it once a frame, a call asks  *)
(* the BIOS for something or looks whether what was asked has ended.  The  *)
(* BIOS tells of an end by an event, a flag that stays up until somebody   *)
(* tests it, whoever that is.                                              *)
(*                                                                         *)
(* Nothing in the code reads D_8006C3AC, so it is left out, and so is the  *)
(* port in g_MemcardInfo: a client lists a card before it reads the list,  *)
(* in one attempt, on one port.                                            *)
(***************************************************************************)
EXTENDS Integers, FiniteSets, FiniteSetsExt

CONSTANTS
    PortCount,   \* ports a card can be in
    BlockCount,  \* saves of this game a card can hold, one block each
    Others,      \* files of other games, one block each
    BlockPerCard,
    Polls,       \* 0x80, the frames an examination waits
    MaxFaults    \* bound: what may go wrong in a run

ASSUME MemCardAssumption ==
    /\ PortCount \in Nat \ {0} /\ BlockCount \in Nat \ {0} /\ BlockPerCard \in Nat
    /\ Polls \in Nat /\ MaxFaults \in Nat
    /\ Others \cap Int = {}

Ports == 0..(PortCount - 1)
Blocks == 0..(BlockCount - 1)
Names == Blocks \cup Others
NoPort == -1
NoBlock == -1

\* What _peek_event returns for each event; it tests the smallest first.
End == 1
Err == 2
Tmo == 3
New == 4
Events == End..New

\* What a card holds under a name: nothing, a save made before, the save of
\* this attempt, or a file whose writing was begun and not completed.
Contents == {"none", "old", "new", "part"}

VARIABLES
    inside,      \* is there a card in the port
    fresh,       \* has the card been put in since it was last cleared
    formatted,
    files,       \* the contents of the card that belongs to the port
    busy,        \* what the BIOS was asked for and has not answered
    events,      \* events that are up
    cardStep,    \* g_MemcardStep
    polls,       \* g_MemcardRetryCount
    unk258,      \* the verdict of the examination that is being made
    found,       \* entries g_MemcardBlockRead counts
    dir,         \* entries nBlockUsed counts
    fd,          \* g_MemcardFd: port and block of the file being written
    short,       \* history: a listing of this attempt missed a file
    faults       \* history: what has gone wrong so far

cards == <<inside, fresh, formatted, files>>
driver == <<cardStep, polls, unk258, found, dir, fd>>
cardVars == <<cards, busy, events, driver, short, faults>>

Requests == {"info", "load", "write"}
Idle == [request |-> "none", port |-> 0]

TypeOK ==
    /\ inside \in [Ports -> BOOLEAN] /\ fresh \in [Ports -> BOOLEAN]
    /\ formatted \in [Ports -> BOOLEAN] /\ files \in [Ports -> [Names -> Contents]]
    /\ busy \in [request : Requests, port : Ports] \cup {Idle} /\ events \subseteq Events
    /\ cardStep \in 0..4 /\ polls \in -2..Polls /\ unk258 \in -3..2
    /\ found \subseteq Names /\ dir \subseteq Names /\ fd \in Ports \X Blocks
    /\ short \in BOOLEAN /\ faults \in 0..MaxFaults

Held(p) == {n \in Names : files[p][n] # "none"}
Ready(p) == inside[p] /\ ~fresh[p] /\ formatted[p]

Blame(n) == faults' = faults + n /\ faults' <= MaxFaults
NoFault == UNCHANGED faults

(***************************************************************************)
(* External: the BIOS, on one bus.  It refuses what is asked while it is   *)
(* busy, and the driver does not look whether it did.                      *)
(***************************************************************************)
Ask(request, p) ==
    busy' = IF busy = Idle THEN [request |-> request, port |-> p] ELSE busy

\* A call that returns when it has ended may leave an event up.
Noise == {{}} \cup {{e} : e \in Events}
Cost(noise) == IF noise = {} THEN 0 ELSE 1
Leaves(up) == \E noise \in Noise : events' = up \cup noise /\ Blame(Cost(noise))

\* The answer a card gives.  A card that was put in answers so until it is
\* cleared; loading the directory of one that is not formatted gives the same.
Answer(request, p) ==
    IF ~inside[p] THEN Tmo
    ELSE IF fresh[p] \/ (request = "load" /\ ~formatted[p]) THEN New
    ELSE End

BiosAnswers ==
    /\ busy # Idle
    /\ busy' = Idle
    /\ \E e \in Events :
        /\ \/ e = Answer(busy.request, busy.port) /\ NoFault
           \/ e = Err /\ Blame(1)
        /\ events' = events \cup {e}
        /\ IF busy.request # "write" THEN UNCHANGED files
           ELSE \E c \in IF e = End THEN {"new"} ELSE {"part", files[fd[1]][fd[2]]} :
                   files' = [files EXCEPT ![fd[1]][fd[2]] = c]
    /\ UNCHANGED <<inside, fresh, formatted, driver, short>>

\* The player takes the card out of a port, and puts the same card back.
TakeOut(p) ==
    /\ inside[p] /\ inside' = [inside EXCEPT ![p] = FALSE]
    /\ Blame(1)
    /\ UNCHANGED <<fresh, formatted, files, busy, events, driver, short>>
PutIn(p) ==
    /\ ~inside[p] /\ inside' = [inside EXCEPT ![p] = TRUE]
    /\ fresh' = [fresh EXCEPT ![p] = TRUE]
    /\ UNCHANGED <<formatted, files, busy, events, driver, short, faults>>

World == BiosAnswers \/ \E p \in Ports : TakeOut(p) \/ PutIn(p)

(***************************************************************************)
(* func_800E9880 examines a card in five steps.  It returns 0 in the first *)
(* four, and its verdict in the last: -1 no card, -2 not formatted,        *)
(* -3 error, 1 or 2 a card.                                                *)
(***************************************************************************)
MemcardInit == cardStep' = 0

PeekEvent == IF events = {} THEN 0 ELSE Min(events)
PeekEventWithRetry == IF events = {} /\ polls < 0 THEN Err ELSE PeekEvent
ClearEventButEnd(up) == up \ {Err, Tmo, New}
ClearEvent(up) == {}

\* An event is taken down by the test that sees it.  Assumed of the BIOS: it
\* answers before the polls run out, but for the faults.
Polled ==
    /\ events' = events \ {PeekEvent}
    /\ polls' = IF events = {} THEN polls - 1 ELSE polls
    /\ IF events = {} /\ polls < 0 THEN Blame(1) ELSE NoFault

ExamineInfo(p) ==
    /\ cardStep = 0 /\ cardStep' = 1
    /\ Ask("info", p) /\ polls' = Polls
    /\ UNCHANGED <<cards, events, unk258, faults>>

Verdict(e) == IF e = Tmo THEN -1 ELSE IF e = New THEN -2 ELSE -3

\* _card_clear writes to the card; what its event says is not looked at.
ExamineInfoEnd(p) ==
    LET e == PeekEventWithRetry IN
    /\ cardStep = 1 /\ Polled
    /\ \/ e = 0 /\ UNCHANGED <<cardStep, unk258, fresh>>
       \/ e = End /\ unk258' = 1 /\ cardStep' = 2 /\ UNCHANGED fresh
       \/ e = New /\ unk258' = 2 /\ cardStep' = 2
                  /\ fresh' = [fresh EXCEPT ![p] = @ /\ ~inside[p]]
       \/ e \in {Err, Tmo} /\ unk258' = Verdict(e) /\ cardStep' = 4 /\ UNCHANGED fresh
    /\ UNCHANGED <<inside, formatted, files, busy>>

ExamineLoad(p) ==
    /\ cardStep = 2 /\ cardStep' = 3
    /\ events' = ClearEvent(events)
    /\ Ask("load", p) /\ polls' = Polls
    /\ UNCHANGED <<cards, unk258, faults>>

ExamineLoadEnd ==
    LET e == PeekEventWithRetry IN
    /\ cardStep = 3 /\ Polled
    /\ cardStep' = IF e = 0 THEN 3 ELSE 4
    /\ unk258' = IF e \in {0, End} THEN unk258 ELSE Verdict(e)
    /\ UNCHANGED <<cards, busy>>

Examining(p) ==
    /\ ExamineInfo(p) \/ ExamineInfoEnd(p) \/ ExamineLoad(p) \/ ExamineLoadEnd
    /\ UNCHANGED <<found, dir, fd, short>>
Examined == cardStep = 4 /\ cardStep' = 0

(***************************************************************************)
(* MemcardParse lists one file a call.  A call that fails ends the list,   *)
(* whatever made it fail.                                                  *)
(***************************************************************************)
ListMore(p) ==
    /\ cardStep \in {0, 1}
    /\ LET listed == IF cardStep = 0 THEN {} ELSE found IN
       \/ \E n \in Held(p) \ listed :
            /\ found' = listed \cup {n} /\ cardStep' = 1
            /\ UNCHANGED <<short, faults>>
       \/ /\ found' = listed /\ cardStep' = 2
          /\ short' = (short \/ Held(p) # listed)
          /\ IF Ready(p) /\ Held(p) # listed THEN Blame(1) ELSE NoFault
    /\ UNCHANGED <<cards, busy, events, polls, unk258, dir, fd>>

ListEnd == cardStep = 2 /\ dir' = found

Free(listed) == BlockPerCard - Cardinality(listed)
MemcardDetectSave(listed, b) == b \in listed

(***************************************************************************)
(* MemcardWriteFile.  Creating a file fails when it exists or the card is  *)
(* full, opening one fails when it does not exist; either may just fail.   *)
(***************************************************************************)
CanOpen(p, b, create) ==
    /\ Ready(p)
    /\ IF create THEN b \notin Held(p) /\ Cardinality(Held(p)) < BlockPerCard
                 ELSE b \in Held(p)

Created(p, b) == [files EXCEPT ![p][b] = "part"]

WriteStarts(p, b, create) ==
    /\ CanOpen(p, b, create)
    /\ files' = IF create THEN Created(p, b) ELSE files
    /\ fd' = <<p, b>>
    /\ \E noise \in Noise :
         events' = ClearEvent(events \cup noise) /\ Blame(Cost(noise))
    /\ Ask("write", p)
    /\ UNCHANGED <<inside, fresh, formatted, cardStep, polls, unk258, found, dir, short>>

WriteFails(p, b, create) ==
    /\ \/ ~CanOpen(p, b, create) /\ UNCHANGED files /\ Leaves(events)
       \/ /\ CanOpen(p, b, create) /\ Blame(1)
          /\ \E noise \in Noise : events' = events \cup noise
          /\ files' \in {files} \cup (IF create THEN {Created(p, b)} ELSE {})
    /\ UNCHANGED <<inside, fresh, formatted, busy, driver, short>>

\* MemcardClose waits without a limit.  It returns 1 or, for any other event, -3.
Written == PeekEvent = End
Closing == PeekEvent # 0 /\ Leaves(events \ {PeekEvent})

\* MemcardFormat waits for its end within the call.
Formatted(p) ==
    /\ inside[p]
    /\ formatted' = [formatted EXCEPT ![p] = TRUE]
    /\ files' = [files EXCEPT ![p] = [n \in Names |-> "none"]]
    /\ Leaves(events)
    /\ UNCHANGED <<inside, fresh>>
FormatFails(p) ==
    /\ IF inside[p] THEN Blame(1) ELSE NoFault
    /\ UNCHANGED <<cards, events>>

Card == [inside : BOOLEAN, formatted : BOOLEAN, files : [Names -> {"none", "old"}]]

Begins(card) ==
    /\ inside = [p \in Ports |-> card[p].inside]
    /\ fresh = [p \in Ports |-> card[p].inside]
    /\ formatted = [p \in Ports |-> card[p].formatted]
    /\ files = [p \in Ports |-> card[p].files]
    /\ busy = Idle /\ events = {}
    /\ cardStep = 0 /\ polls = 0 /\ unk258 = 0 /\ found = {} /\ dir = {}
    /\ fd = <<0, 0>>
    /\ short = FALSE /\ faults = 0
=============================================================================
