--------------------------- MODULE SaveRoomProofs ---------------------------
(***************************************************************************)
(* Proofs about saving in a save room, for any number of ports, saves,     *)
(* other files, retries and faults: the type invariant, that what is said  *)
(* to be saved is on the card, and that other files are kept.              *)
(***************************************************************************)
EXTENDS SaveRoom, TLAPS

(***************************************************************************)
(* The inductive invariant.  A screen tells how far the steps are; between *)
(* a good verdict and the write the BIOS is idle, so the write is not      *)
(* refused and the next event is its own; and what is known of the card    *)
(* stays true as long as no listing missed a file.                         *)
(***************************************************************************)
Asking == {"rest", "approach", "overwrite", "otherCard", "chooseCard", "leave"}

ScreenInv ==
    /\ saveMode = 0 <=> screen \in Asking
    /\ saveMode = 0 => saveStep = 0
    /\ screen = "message" => saveStep >= Saved
    /\ screen = "done" => saveStep = Saved
    /\ screen \in {"askFormat", "format", "formatting", "again"} => saveStep = Unformatted
    /\ screen \in {"formatError", "away"} => saveStep > Saved
    /\ screen = "overwrite" => port # NoPort
    /\ saveMode # 0 /\ screen \notin {"formatError", "away"} => port # NoPort

CountInv ==
    /\ Saving /\ saveStep \in {1, 3, 4, 5} => retry \in Nat
    /\ screen = "formatting" => retry \in Nat
    /\ Saving /\ saveStep = 1 /\ cardStep \in {1, 3} => polls >= -1

IdleInv == Saving =>
    /\ saveStep = 1 /\ cardStep = 3 /\ busy # Idle => events = {}
    /\ saveStep = 1 /\ cardStep = 4 /\ unk258 > 0 => busy = Idle
    /\ saveStep \in 2..4 => busy = Idle
    /\ saveStep \in 4..5 => block # NoBlock

WriteInv ==
    /\ busy.request = "write" => Saving /\ saveStep = 5
    /\ Saving /\ saveStep = 5 =>
        /\ fd = <<port, block>>
        /\ busy # Idle => busy.request = "write" /\ events = {}
        /\ End \in events => files[port][block] = "new"
    /\ saveMode # 0 /\ saveStep = Saved => block # NoBlock /\ files[port][block] = "new"

OwnInv == Saving /\ ~short =>
    /\ saveStep = 2 /\ cardStep = 2 => found = Held(port)
    /\ saveStep = 3 => dir = Held(port)
    /\ saveMode # 2 /\ block # NoBlock => files[port][block] # "old"

IInv == TypeInv /\ ScreenInv /\ CountInv /\ IdleInv /\ WriteInv /\ OwnInv

(***************************************************************************)
(* Facts about the operators.                                              *)
(***************************************************************************)
LEMMA PeekFacts ==
    ASSUME events \subseteq Events
    PROVE  /\ PeekEvent \in 0..New
           /\ PeekEvent = 0 <=> events = {}
           /\ PeekEvent # 0 => PeekEvent \in events
<1>1. CASE events = {}
  BY <1>1 DEF PeekEvent, New
<1>2. CASE events # {}
  <2>0. \A e \in events : e \in {1, 2, 3, 4}
    BY DEF Events, End, New
  <2>1. \E e \in events : \A f \in events : e <= f
    BY <1>2, <2>0
  <2>2. Min(events) \in events
    BY <2>1 DEF Min
  <2>3. PeekEvent \in events
    BY <1>2, <2>2 DEF PeekEvent
  <2>. QED  BY <1>2, <2>3 DEF Events, End, New
<1>. QED  BY <1>1, <1>2

(***************************************************************************)
(* Type correctness.                                                       *)
(***************************************************************************)
LEMMA TypeInit == Init => TypeInv
<1>. SUFFICES ASSUME Init PROVE TypeInv
  OBVIOUS
<1>. PICK card \in StartCards : Begins(card)
  BY DEF Init
<1>1. card \in [Ports -> Card]
  BY SaveRoomAssumption
<1>2. /\ inside \in [Ports -> BOOLEAN] /\ fresh \in [Ports -> BOOLEAN]
      /\ formatted \in [Ports -> BOOLEAN] /\ files \in [Ports -> [Names -> Contents]]
  BY <1>1 DEF Begins, Card, Contents
<1>3. 0 \in Ports /\ 0 \in Blocks
  BY MemCardAssumption DEF Ports, Blocks
<1>4. busy \in [request : Requests, port : Ports] \cup {Idle} /\ fd \in Ports \X Blocks
  BY <1>3 DEF Begins
<1>5. /\ cardStep \in 0..4 /\ polls \in -2..Polls /\ unk258 \in -3..2 /\ faults \in 0..MaxFaults
  BY MemCardAssumption DEF Begins
<1>6. /\ events \subseteq Events /\ found \subseteq Names /\ dir \subseteq Names /\ short \in BOOLEAN
  BY DEF Begins
<1>7. TypeOK
  BY <1>2, <1>4, <1>5, <1>6 DEF TypeOK
<1>. QED
  BY <1>7 DEF Init, TypeInv, Screens, FormatError

LEMMA BlameType ==
    ASSUME faults \in 0..MaxFaults, NEW n \in Nat, Blame(n)
    PROVE  faults' \in 0..MaxFaults
  BY MemCardAssumption DEF Blame

LEMMA LeavesType ==
    ASSUME faults \in 0..MaxFaults, NEW up \in SUBSET Events, Leaves(up)
    PROVE  events' \subseteq Events /\ faults' \in 0..MaxFaults
<1>. PICK noise \in Noise : events' = up \cup noise /\ Blame(Cost(noise))
  BY DEF Leaves
<1>1. Cost(noise) \in Nat
  BY DEF Cost
<1>. QED  BY <1>1, BlameType DEF Noise

LEMMA PolledType ==
    ASSUME TypeOK, Polled, polls >= -1
    PROVE  events' \subseteq Events /\ polls' \in -2..Polls /\ faults' \in 0..MaxFaults
  BY BlameType, MemCardAssumption DEF TypeOK, Polled, NoFault

LEMMA FileType ==
    ASSUME files \in [Ports -> [Names -> Contents]], NEW p \in Ports, NEW b \in Blocks,
           NEW c \in Contents, files' = [files EXCEPT ![p][b] = c]
    PROVE  files' \in [Ports -> [Names -> Contents]]
  BY DEF Names

LEMMA ExaminingType ==
    ASSUME TypeOK, NEW p \in Ports, Examining(p), cardStep \in {1, 3} => polls >= -1
    PROVE  TypeOK'
<1>0. UNCHANGED <<found, dir, fd, short>>
  BY DEF Examining
<1>1. CASE ExamineInfo(p)
  BY <1>0, <1>1, MemCardAssumption DEF ExamineInfo, TypeOK, Ask, Requests, cards
<1>2. CASE ExamineInfoEnd(p)
  <2>1. events' \subseteq Events /\ polls' \in -2..Polls /\ faults' \in 0..MaxFaults
    BY <1>2, PolledType DEF ExamineInfoEnd
  <2>2. cardStep' \in 0..4 /\ unk258' \in -3..2
    BY <1>2 DEF ExamineInfoEnd, TypeOK, Verdict
  <2>3. fresh' = fresh \/ fresh' = [fresh EXCEPT ![p] = @ /\ ~inside[p]]
    BY <1>2 DEF ExamineInfoEnd
  <2>4. fresh' \in [Ports -> BOOLEAN]
    BY <2>3 DEF TypeOK
  <2>. QED  BY <1>0, <1>2, <2>1, <2>2, <2>4 DEF ExamineInfoEnd, TypeOK
<1>3. CASE ExamineLoad(p)
  BY <1>0, <1>3, MemCardAssumption DEF ExamineLoad, TypeOK, Ask, Requests, cards, ClearEvent
<1>4. CASE ExamineLoadEnd
  <2>1. events' \subseteq Events /\ polls' \in -2..Polls /\ faults' \in 0..MaxFaults
    BY <1>4, PolledType DEF ExamineLoadEnd
  <2>2. cardStep' \in 0..4 /\ unk258' \in -3..2
    BY <1>4 DEF ExamineLoadEnd, TypeOK, Verdict
  <2>. QED  BY <1>0, <1>4, <2>1, <2>2 DEF ExamineLoadEnd, TypeOK, cards
<1>. QED  BY <1>1, <1>2, <1>3, <1>4 DEF Examining

LEMMA ListMoreType ==
    ASSUME TypeOK, NEW p \in Ports, ListMore(p)
    PROVE  TypeOK'
<1>1. found' \subseteq Names /\ cardStep' \in 0..4
  BY DEF ListMore, TypeOK, Held
<1>3. short' \in BOOLEAN
  BY DEF ListMore, TypeOK
<1>2. faults' \in 0..MaxFaults
  BY BlameType DEF ListMore, TypeOK, NoFault
<1>. QED  BY <1>1, <1>2, <1>3 DEF ListMore, TypeOK, cards

LEMMA WriteType ==
    ASSUME TypeOK, NEW p \in Ports, NEW b \in Blocks, NEW create \in BOOLEAN,
           WriteStarts(p, b, create) \/ WriteFails(p, b, create)
    PROVE  TypeOK'
<1>1. files' \in [Ports -> [Names -> Contents]]
  BY FileType DEF WriteStarts, WriteFails, Created, TypeOK, Contents
<1>2. CASE WriteStarts(p, b, create)
  <2>1. PICK noise \in Noise : /\ events' = ClearEvent(events \cup noise)
                               /\ Blame(Cost(noise))
    BY <1>2 DEF WriteStarts
  <2>2. events' \subseteq Events
    BY <2>1 DEF ClearEvent
  <2>3. faults' \in 0..MaxFaults
    BY <2>1, BlameType DEF Cost, TypeOK
  <2>4. busy' \in [request : Requests, port : Ports] \cup {Idle} /\ fd' \in Ports \X Blocks
    BY <1>2 DEF WriteStarts, Ask, TypeOK, Requests
  <2>. QED  BY <1>1, <1>2, <2>2, <2>3, <2>4 DEF WriteStarts, TypeOK
<1>3. CASE WriteFails(p, b, create)
  <2>1. events' \subseteq Events /\ faults' \in 0..MaxFaults
    BY <1>3, LeavesType, BlameType DEF WriteFails, TypeOK, Noise
  <2>. QED  BY <1>1, <1>3, <2>1 DEF WriteFails, TypeOK, driver
<1>. QED  BY <1>2, <1>3

LEMMA WorldType ==
    ASSUME TypeOK, World
    PROVE  TypeOK'
<1>1. CASE BiosAnswers
  <2>1. PICK e \in Events :
          /\ \/ e = Answer(busy.request, busy.port) /\ NoFault
             \/ e = Err /\ Blame(1)
          /\ events' = events \cup {e}
          /\ IF busy.request # "write" THEN UNCHANGED files
             ELSE \E c \in IF e = End THEN {"new"} ELSE {"part", files[fd[1]][fd[2]]} :
                     files' = [files EXCEPT ![fd[1]][fd[2]] = c]
    BY <1>1 DEF BiosAnswers
  <2>2. faults' \in 0..MaxFaults
    BY <2>1, BlameType DEF NoFault, TypeOK
  <2>3. fd[1] \in Ports /\ fd[2] \in Blocks /\ files[fd[1]][fd[2]] \in Contents
    BY DEF TypeOK, Names
  <2>4. files' \in [Ports -> [Names -> Contents]]
    BY <2>1, <2>3, FileType DEF TypeOK, Contents
  <2>. QED  BY <1>1, <2>1, <2>2, <2>4 DEF BiosAnswers, TypeOK, driver
<1>2. ASSUME NEW p \in Ports, TakeOut(p)
      PROVE  TypeOK'
  BY <1>2, BlameType DEF TakeOut, TypeOK, driver
<1>3. ASSUME NEW p \in Ports, PutIn(p)
      PROVE  TypeOK'
  BY <1>3 DEF PutIn, TypeOK, driver
<1>. QED  BY <1>1, <1>2, <1>3 DEF World

\* While the steps run the player waits, with a card chosen.
LEMMA SavingScreen ==
    ASSUME TypeInv, ScreenInv, Saving
    PROVE  screen \in {"spin", "coffin"} /\ port \in Ports
  BY DEF TypeInv, ScreenInv, Saving, Saved, Unformatted, Screens, Asking

LEMMA RetryType ==
    ASSUME retry \in Nat, NEW again \in 0..FormatError, NEW after \in 0..FormatError,
           Retry(again, after)
    PROVE  retry' \in Nat \cup {-1} /\ saveStep' \in 0..FormatError
  BY DEF Retry

LEMMA SaveTypeStep ==
    ASSUME TypeInv, ScreenInv, CountInv, IdleInv, SaveStep
    PROVE  TypeInv'
<1>0. Saving /\ UNCHANGED <<screen, port, wasPort, wasBlock>>
  BY DEF SaveStep, SaveInit, SaveExamine, SaveExamined, SaveParse, SaveParsed, SavePick,
         SaveNoRoom, SaveWrite, SaveClose, Step
<1>1. port \in Ports
  BY <1>0, SavingScreen
<1>2. CASE SaveInit
  <2>1. TypeOK'
    BY <1>2 DEF SaveInit, TypeInv, TypeOK, MemcardInit, cards
  <2>. QED  BY <1>0, <1>2, <2>1, SaveRoomAssumption DEF SaveInit, TypeInv, FormatError
<1>3. CASE SaveExamine
  <2>1. TypeOK'
    BY <1>0, <1>1, <1>3, ExaminingType DEF SaveExamine, Step, TypeInv, CountInv
  <2>. QED  BY <1>0, <1>3, <2>1 DEF SaveExamine, TypeInv, steps
<1>4. CASE SaveExamined
  <2>1. TypeOK'
    BY <1>4 DEF SaveExamined, TypeInv, TypeOK, Examined, cards
  <2>2. retry' \in Nat \cup {-1} /\ saveStep' \in 0..FormatError
    BY <1>0, <1>4, RetryType
    DEF SaveExamined, Step, TypeInv, CountInv, NoCard, Defective, Unformatted, FormatError
  <2>. QED  BY <1>0, <1>4, <2>1, <2>2 DEF SaveExamined, TypeInv
<1>5. CASE SaveParse
  BY <1>0, <1>1, <1>5, ListMoreType DEF SaveParse, TypeInv, steps
<1>6. CASE SaveParsed
  <2>1. TypeOK'
    BY <1>6 DEF SaveParsed, TypeInv, TypeOK, ListEnd, cards
  <2>. QED  BY <1>0, <1>6, <2>1, SaveRoomAssumption DEF SaveParsed, TypeInv, FormatError
<1>7. CASE SavePick
  <2>1. TypeOK'
    BY <1>7 DEF SavePick, TypeInv, TypeOK, cardVars, cards, driver
  <2>2. block' \in Blocks \cup {NoBlock} /\ saveStep' \in 0..FormatError
    BY <1>7 DEF SavePick, TypeInv, Unlisted, Full, FormatError
  <2>. QED  BY <1>0, <1>7, <2>1, <2>2 DEF SavePick, TypeInv
<1>8. CASE SaveNoRoom
  <2>1. TypeOK'
    BY <1>8 DEF SaveNoRoom, TypeInv, TypeOK, cardVars, cards, driver
  <2>. QED  BY <1>0, <1>8, <2>1 DEF SaveNoRoom, TypeInv, Full, FormatError
<1>9. CASE SaveWrite
  <2>1. block \in Blocks /\ retry \in Nat
    BY <1>0, <1>9 DEF SaveWrite, Step, TypeInv, IdleInv, CountInv
  <2>2. TypeOK'
    BY <1>1, <1>9, <2>1, WriteType DEF SaveWrite, TypeInv, Create, MemcardDetectSave
  <2>3. retry' \in Nat \cup {-1} /\ saveStep' \in 0..FormatError
    BY <1>9, <2>1, RetryType, SaveRoomAssumption DEF SaveWrite, FormatError
  <2>. QED  BY <1>0, <1>9, <2>2, <2>3 DEF SaveWrite, TypeInv
<1>10. CASE SaveClose
  <2>1. events' \subseteq Events /\ faults' \in 0..MaxFaults
    BY <1>10, LeavesType DEF SaveClose, Closing, TypeInv, TypeOK
  <2>2. TypeOK'
    BY <1>10, <2>1 DEF SaveClose, TypeInv, TypeOK, cards, driver
  <2>3. retry' \in Nat \cup {-1} /\ saveStep' \in 0..FormatError
    BY <1>0, <1>10, RetryType
    DEF SaveClose, Step, TypeInv, CountInv, Saved, FormatError
  <2>. QED  BY <1>0, <1>10, <2>2, <2>3 DEF SaveClose, TypeInv
<1>. QED
  BY <1>2, <1>3, <1>4, <1>5, <1>6, <1>7, <1>8, <1>9, <1>10 DEF SaveStep

LEMMA FormatType ==
    ASSUME TypeOK, NEW p \in Ports, Formatted(p) \/ FormatFails(p),
           UNCHANGED <<busy, driver, short>>
    PROVE  TypeOK'
<1>1. CASE Formatted(p)
  <2>1. formatted' \in [Ports -> BOOLEAN] /\ files' \in [Ports -> [Names -> Contents]]
    BY <1>1 DEF Formatted, TypeOK, Contents
  <2>2. events' \subseteq Events /\ faults' \in 0..MaxFaults
    BY <1>1, LeavesType DEF Formatted, TypeOK
  <2>. QED  BY <1>1, <2>1, <2>2 DEF Formatted, TypeOK, driver
<1>2. CASE FormatFails(p)
  <2>1. faults' \in 0..MaxFaults
    BY <1>2, BlameType DEF FormatFails, NoFault, TypeOK
  <2>. QED  BY <1>2, <2>1 DEF FormatFails, TypeOK, cards, driver
<1>. QED  BY <1>1, <1>2

\* Most screens leave the driver and the cards alone.
LEMMA IdleCard == ASSUME TypeOK, UNCHANGED cardVars PROVE TypeOK'
  BY DEF TypeOK, cardVars, cards, driver

LEMMA ScreenTypeStep ==
    ASSUME TypeInv, ScreenInv, CountInv, Screen
    PROVE  TypeInv'
<1>1. CASE Activate
  <2>1. TypeOK'
    BY <1>1 DEF Activate, TypeInv, TypeOK, cards, driver
  <2>. QED  BY <1>1, <2>1 DEF Activate, TypeInv, Goes, Screens, steps
<1>2. CASE Approach \/ Overwrite \/ OtherCard \/ Confirm \/ Cancel \/ Leave
  <2>1. TypeOK'
    BY <1>2, IdleCard
    DEF Approach, Overwrite, OtherCard, Confirm, Cancel, Leave, On, TypeInv
  <2>2. 0 \in Ports
    BY MemCardAssumption DEF Ports
  <2>. QED
    BY <1>2, <2>1, <2>2
    DEF Approach, Overwrite, OtherCard, Confirm, Cancel, Leave, On, TypeInv, Goes, Starts,
        Restore, Screens, steps, place
<1>3. CASE Spin \/ Coffin \/ Message \/ AskFormat \/ FormatErrorShown
  <2>1. TypeOK'
    BY <1>3, IdleCard DEF Spin, Coffin, Message, AskFormat, FormatErrorShown, On, TypeInv
  <2>. QED
    BY <1>3, <2>1
    DEF Spin, Coffin, Message, AskFormat, FormatErrorShown, On, TypeInv, Goes, Screens, steps,
        place
<1>4. CASE FormatInit
  <2>1. TypeOK'
    BY <1>4 DEF FormatInit, TypeInv, TypeOK, MemcardInit, cards
  <2>. QED
    BY <1>4, <2>1, SaveRoomAssumption DEF FormatInit, TypeInv, Goes, Screens, place
<1>5. CASE Format
  <2>1. port \in Ports /\ retry \in Nat
    BY <1>5 DEF Format, TypeInv, ScreenInv, CountInv, Asking
  <2>2. TypeOK'
    BY <1>5, <2>1, FormatType DEF Format, TypeInv
  <2>. QED
    BY <1>5, <2>1, <2>2 DEF Format, TypeInv, Goes, Screens, FormatError, place
<1>6. CASE Away \/ Again
  <2>1. TypeOK'
    BY <1>6 DEF Away, Again, Forget, TypeInv, TypeOK, cards
  <2>. QED
    BY <1>6, <2>1 DEF Away, Again, Forget, TypeInv, Goes, Restore, Screens, FormatError, place
<1>7. CASE EnterRoom
  <2>1. files' \in [Ports -> [Names -> Contents]]
    BY <1>7 DEF EnterRoom, TypeInv, TypeOK, Contents
  <2>2. TypeOK'
    BY <1>7, <2>1 DEF EnterRoom, Forget, TypeInv, TypeOK
  <2>. QED
    BY <1>7, <2>2 DEF EnterRoom, Forget, TypeInv, Goes, Screens, FormatError, place
<1>. QED
  BY <1>1, <1>2, <1>3, <1>4, <1>5, <1>6, <1>7 DEF Screen

LEMMA TypeStep ==
    ASSUME TypeInv, ScreenInv, CountInv, IdleInv, [Next]_vars
    PROVE  TypeInv'
<1>1. CASE World /\ UNCHANGED <<steps, screen, place>>
  BY <1>1, WorldType DEF TypeInv, steps, place
<1>2. CASE UNCHANGED vars
  BY <1>2, IdleCard DEF vars, TypeInv, steps, place
<1>. QED
  BY <1>1, <1>2, SaveTypeStep, ScreenTypeStep DEF Next

(***************************************************************************)
(* What an action can do to what the invariant speaks of.                  *)
(***************************************************************************)
\* A screen that starts the steps, and one that waits for them.
LEMMA ScreenFrame ==
    ASSUME TypeInv, ScreenInv, Screen
    PROVE  /\ UNCHANGED <<busy, fd>>
           /\ Saving' => \/ saveStep' = 0 /\ (saveMode' = 2 \/ block' = NoBlock)
                         \/ Saving /\ UNCHANGED <<cardVars, steps, port, block>>
<1>1. UNCHANGED <<busy, fd>>
  BY DEF Screen, Activate, Approach, Overwrite, OtherCard, Confirm, Cancel, Leave, Spin, Coffin,
         Message, AskFormat, FormatInit, Format, FormatErrorShown, Away, Again, EnterRoom, On,
         cardVars, driver
<1>2. CASE saveMode = 0
  BY <1>1, <1>2
  DEF ScreenInv, Asking, Screen, Activate, Approach, Overwrite, OtherCard, Confirm, Cancel, Leave,
      Spin, Coffin, Message, AskFormat, FormatInit, Format, FormatErrorShown, Away, Again,
      EnterRoom, On, Starts, Goes, Forget, Saving, steps
<1>3. CASE saveMode # 0 /\ saveStep < Saved
  <2>1. screen \in {"spin", "coffin"}
    BY <1>3, SavingScreen DEF Saving
  <2>2. Spin \/ Coffin
    BY <2>1
    DEF Screen, Activate, Approach, Overwrite, OtherCard, Confirm, Cancel, Leave, Message,
        AskFormat, FormatInit, Format, FormatErrorShown, Away, Again, EnterRoom, On
  <2>. QED  BY <1>1, <1>3, <2>2 DEF Spin, Coffin, On, Saving, steps, place
<1>4. CASE saveMode # 0 /\ saveStep >= Saved
  <2>1. screen \notin Asking
    BY <1>4 DEF ScreenInv
  <2>2. saveMode' = 0 \/ saveStep' >= Saved
    BY <1>4, <2>1
    DEF Asking, Screen, Activate, Approach, Overwrite, OtherCard, Confirm, Cancel, Leave,
        Spin, Coffin, Message, AskFormat, FormatInit, Format, FormatErrorShown, Away, Again,
        EnterRoom, On, Forget, steps, Saved, FormatError
  <2>3. ~Saving'
    <3>1. saveStep' \in 0..FormatError \/ saveMode' = 0
      BY <1>4, <2>1
      DEF Asking, Screen, Activate, Approach, Overwrite, OtherCard, Confirm, Cancel, Leave,
          Spin, Coffin, Message, AskFormat, FormatInit, Format, FormatErrorShown, Away, Again,
          EnterRoom, On, Forget, steps, TypeInv, FormatError
    <3>. QED  BY <2>2, <3>1 DEF Saving, Saved, FormatError
  <2>. QED  BY <1>1, <2>3
<1>. QED  BY <1>2, <1>3, <1>4 DEF TypeInv, Saved, FormatError

LEMMA SaveFrame ==
    ASSUME TypeInv, ScreenInv, SaveStep
    PROVE  /\ Saving /\ UNCHANGED <<screen, port>> /\ saveMode' # 0
           /\ short => short'
           /\ port \in Ports
<1>1. Saving /\ UNCHANGED <<screen, port>>
  BY DEF SaveStep, SaveInit, SaveExamine, SaveExamined, SaveParse, SaveParsed, SavePick,
         SaveNoRoom, SaveWrite, SaveClose, Step
<1>2. saveMode' # 0
  BY <1>1 DEF SaveStep, SaveInit, SaveExamine, SaveExamined, SaveParse, SaveParsed, SavePick,
         SaveNoRoom, SaveWrite, SaveClose, Saving, steps
<1>3. short => short'
  BY DEF SaveStep, SaveInit, SaveExamine, SaveExamined, SaveParse, SaveParsed, SavePick,
         SaveNoRoom, SaveWrite, SaveClose, Examining, ListMore, WriteStarts, WriteFails, cardVars
<1>. QED  BY <1>1, <1>2, <1>3, SavingScreen

\* Files change only in the write, by the BIOS or by create, in the format,
\* and in name when another room is entered.
LEMMA SaveFiles ==
    ASSUME TypeInv, SaveStep
    PROVE  \/ files' = files
           \/ saveStep = 4 /\ block \notin Held(port) /\ files' = Created(port, block)
<1>1. CASE SaveWrite
  BY <1>1 DEF SaveWrite, Step, WriteStarts, WriteFails, CanOpen
<1>2. CASE ~SaveWrite
  BY <1>2 DEF SaveStep, SaveInit, SaveExamine, SaveExamined, SaveParse, SaveParsed, SavePick,
         SaveNoRoom, SaveClose, Examining, ExamineInfo, ExamineInfoEnd, ExamineLoad,
         ExamineLoadEnd, ListMore, cardVars, cards
<1>. QED  BY <1>1, <1>2

LEMMA WorldFiles ==
    ASSUME TypeInv, ScreenInv, WriteInv, World
    PROVE  \/ files' = files
           \/ /\ Saving /\ saveStep = 5 /\ port \in Ports /\ block \in Blocks
              /\ \E c \in {"new", "part"} : files' = [files EXCEPT ![port][block] = c]
<1>1. CASE BiosAnswers /\ busy.request = "write"
  <2>1. Saving /\ saveStep = 5 /\ fd = <<port, block>>
    BY <1>1 DEF WriteInv
  <2>2. port \in Ports /\ block \in Blocks
    BY <2>1 DEF TypeInv, TypeOK
  <2>3. files' = [files EXCEPT ![port][block] = files[port][block]] => files' = files
    BY <2>2 DEF TypeInv, TypeOK
  <2>4. \E c \in {"new", "part", files[port][block]} : files' = [files EXCEPT ![port][block] = c]
    BY <1>1, <2>1 DEF BiosAnswers
  <2>. QED  BY <2>1, <2>2, <2>3, <2>4
<1>2. CASE ~(BiosAnswers /\ busy.request = "write")
  BY <1>2 DEF World, BiosAnswers, TakeOut, PutIn
<1>. QED  BY <1>1, <1>2


(***************************************************************************)
(* Each part of the invariant is kept by every step.                       *)
(***************************************************************************)
LEMMA StepCases ==
    ASSUME [Next]_vars
    PROVE  \/ SaveStep
           \/ Screen
           \/ World /\ UNCHANGED <<steps, screen, place>>
           \/ UNCHANGED vars
  BY DEF Next

LEMMA ScreenStep ==
    ASSUME TypeInv, ScreenInv, [Next]_vars
    PROVE  ScreenInv'
<1>1. CASE SaveStep
  <2>1. screen \in {"spin", "coffin"}
    BY <1>1, SaveFrame, SavingScreen
  <2>. QED  BY <1>1, <2>1, SaveFrame DEF ScreenInv, Asking, Ports, NoPort
<1>2. CASE Activate \/ Approach \/ Overwrite \/ OtherCard \/ Confirm \/ Cancel \/ Leave
  BY <1>2, MemCardAssumption
  DEF Activate, Approach, Overwrite, OtherCard, Confirm, Cancel, Leave, On, Starts, Goes, steps,
      place, ScreenInv, Asking, Ports, NoPort, Restore
<1>3. CASE Spin \/ Coffin \/ Message \/ AskFormat \/ FormatInit \/ FormatErrorShown
  BY <1>3
  DEF Spin, Coffin, Message, AskFormat, FormatInit, FormatErrorShown, On, Goes, steps, place,
      ScreenInv, TypeInv, Asking, Saved, Unformatted, FormatError
<1>4. CASE Format
  BY <1>4 DEF Format, Goes, place, ScreenInv, Asking, Saved, Unformatted, FormatError
<1>5. CASE Away \/ Again \/ EnterRoom
  BY <1>5 DEF Away, Again, EnterRoom, Goes, Forget, place, ScreenInv, Asking, Saved, Unformatted
<1>6. CASE World /\ UNCHANGED <<steps, screen, place>>
  BY <1>6 DEF steps, place, ScreenInv
<1>7. CASE UNCHANGED vars
  BY <1>7 DEF vars, steps, place, ScreenInv
<1>8. CASE Screen
  BY <1>2, <1>3, <1>4, <1>5, <1>8 DEF Screen
<1>. QED
  BY <1>1, <1>6, <1>7, <1>8, StepCases

LEMMA CountStep ==
    ASSUME TypeInv, ScreenInv, CountInv, [Next]_vars
    PROVE  CountInv'
<1>1. CASE SaveStep
  <2>0. screen' \notin {"formatting"}
    BY <1>1, SaveFrame, SavingScreen
  <2>1. CASE SaveInit \/ SaveExamined \/ SaveParsed \/ SavePick \/ SaveNoRoom \/ SaveClose
    BY <2>0, <2>1, SaveRoomAssumption
    DEF SaveInit, SaveExamined, SaveParsed, SavePick, SaveNoRoom, SaveClose, Step, MemcardInit,
        Examined, Retry, CountInv, TypeInv, Saving, Saved, NoCard, Defective, Unformatted, Full
  <2>2. CASE SaveWrite
    BY <2>0, <2>2, SaveRoomAssumption
    DEF SaveWrite, Step, Retry, CountInv, TypeInv, Saving, Saved
  <2>3. CASE SaveParse
    BY <2>0, <2>3 DEF SaveParse, Step, CountInv, Saving, steps
  <2>4. CASE SaveExamine
    <3>1. cardStep' \in {1, 3} => polls' >= -1
      <4>1. CASE ExamineInfo(port) \/ ExamineLoad(port)
        BY <4>1, MemCardAssumption DEF ExamineInfo, ExamineLoad
      <4>2. CASE ExamineInfoEnd(port) \/ ExamineLoadEnd
        BY <2>4, <4>2, PeekFacts
        DEF ExamineInfoEnd, ExamineLoadEnd, Polled, PeekEventWithRetry, SaveExamine, Step,
            CountInv, TypeInv, TypeOK, End, Err, Tmo, New
      <4>. QED  BY <2>4, <4>1, <4>2 DEF SaveExamine, Examining
    <3>. QED  BY <2>0, <2>4, <3>1 DEF SaveExamine, Step, CountInv, Saving, steps
  <2>. QED  BY <1>1, <2>1, <2>2, <2>3, <2>4 DEF SaveStep
<1>2. CASE Screen
  <2>1. screen' = "formatting" => retry' \in Nat
    BY <1>2, SaveRoomAssumption
    DEF Screen, Activate, Approach, Overwrite, OtherCard, Confirm, Cancel, Leave, Spin, Coffin,
        Message, AskFormat, FormatInit, Format, FormatErrorShown, Away, Again, EnterRoom, On,
        Starts, Goes, CountInv, TypeInv, Asking
  <2>. QED  BY <1>2, <2>1, ScreenFrame DEF CountInv, steps, cardVars, driver
<1>3. CASE World /\ UNCHANGED <<steps, screen, place>>
  BY <1>3 DEF World, BiosAnswers, TakeOut, PutIn, CountInv, Saving, steps, driver
<1>4. CASE UNCHANGED vars
  BY <1>4 DEF vars, cardVars, driver, steps, CountInv, Saving
<1>. QED  BY <1>1, <1>2, <1>3, <1>4, StepCases

LEMMA IdleStep ==
    ASSUME TypeInv, ScreenInv, CountInv, IdleInv, WriteInv, [Next]_vars
    PROVE  IdleInv'
<1>1. CASE SaveStep
  <2>1. CASE SaveInit \/ SaveExamined \/ SaveParsed \/ SavePick \/ SaveNoRoom
    BY <2>1
    DEF SaveInit, SaveExamined, SaveParsed, SavePick, SaveNoRoom, Step, MemcardInit, Examined,
        Retry, IdleInv, TypeInv, Saving, Saved, NoCard, Defective, Unformatted, Full, Unlisted,
        Blocks, NoBlock, cardVars
  <2>2. CASE SaveWrite
    BY <2>2
    DEF SaveWrite, WriteStarts, WriteFails, Step, Retry, IdleInv, TypeInv, Saving, Saved
  <2>3. CASE SaveParse
    BY <2>3 DEF SaveParse, ListMore, Step, IdleInv, Saving, steps
  <2>4. CASE SaveClose
    <3>1. busy = Idle
      BY <2>4, PeekFacts DEF SaveClose, Step, Closing, WriteInv, TypeInv, TypeOK
    <3>. QED  BY <2>4, <3>1 DEF SaveClose, Step, Retry, IdleInv, Saving, Saved
  <2>5. CASE SaveExamine
    <3>1. saveStep' = 1 /\ UNCHANGED saveMode
      BY <2>5 DEF SaveExamine, Step, steps
    <3>2. cardStep' = 3 /\ busy' # Idle => events' = {}
      BY <2>5, PeekFacts
      DEF SaveExamine, Step, Examining, ExamineInfo, ExamineInfoEnd, ExamineLoad, ExamineLoadEnd,
          PeekEventWithRetry, Polled, ClearEvent, IdleInv, TypeInv, TypeOK, Err
    <3>3. cardStep' = 4 /\ unk258' > 0 => busy' = Idle
      <4>1. CASE ExamineInfo(port) \/ ExamineLoad(port)
        BY <4>1 DEF ExamineInfo, ExamineLoad
      <4>2. CASE ExamineInfoEnd(port)
        BY <4>2 DEF ExamineInfoEnd, Verdict
      <4>3. CASE ExamineLoadEnd
        BY <2>5, <4>3, PeekFacts
        DEF ExamineLoadEnd, SaveExamine, Step, Verdict, PeekEventWithRetry, IdleInv, TypeInv,
            TypeOK, Err, End
      <4>. QED  BY <2>5, <4>1, <4>2, <4>3 DEF SaveExamine, Examining
    <3>. QED  BY <3>1, <3>2, <3>3 DEF IdleInv
  <2>. QED  BY <1>1, <2>1, <2>2, <2>3, <2>4, <2>5 DEF SaveStep
<1>2. CASE Screen
  BY <1>2, ScreenFrame DEF IdleInv, Saving, steps, cardVars, driver
<1>3. CASE World /\ UNCHANGED <<steps, screen, place>>
  BY <1>3 DEF World, BiosAnswers, TakeOut, PutIn, IdleInv, Saving, steps, driver, place
<1>4. CASE UNCHANGED vars
  BY <1>4 DEF vars, cardVars, driver, steps, place, IdleInv, Saving
<1>. QED  BY <1>1, <1>2, <1>3, <1>4, StepCases

LEMMA WriteStep ==
    ASSUME TypeInv, ScreenInv, IdleInv, WriteInv, [Next]_vars
    PROVE  WriteInv'
<1>1. CASE SaveStep
  <2>1. CASE SaveInit \/ SaveExamined \/ SaveParsed \/ SavePick \/ SaveNoRoom
    BY <2>1
    DEF SaveInit, SaveExamined, SaveParsed, SavePick, SaveNoRoom, Step, Retry, WriteInv, TypeInv,
        Saving, Saved, NoCard, Defective, Unformatted, Full, cardVars
  <2>2. CASE SaveWrite
    <3>1. Saving /\ saveStep = 4 /\ busy = Idle /\ block # NoBlock
      BY <2>2 DEF SaveWrite, Step, IdleInv
    <3>2. CASE WriteStarts(port, block, Create) /\ saveStep' = 5
      BY <2>2, <3>1, <3>2
      DEF SaveWrite, Step, WriteStarts, Ask, ClearEvent, WriteInv, Saving, Saved
    <3>3. CASE WriteFails(port, block, Create) /\ Retry(4, 0)
      BY <2>2, <3>1, <3>3
      DEF SaveWrite, Step, WriteFails, Retry, WriteInv, Saving, Saved, Idle
    <3>. QED  BY <2>2, <3>2, <3>3 DEF SaveWrite
  <2>3. CASE SaveParse
    BY <2>3 DEF SaveParse, ListMore, Step, WriteInv, Saving, Saved, steps
  <2>4. CASE SaveClose
    <3>1. busy = Idle
      BY <2>4, PeekFacts DEF SaveClose, Step, Closing, WriteInv, TypeInv, TypeOK
    <3>2. Written => files[port][block] = "new"
      BY <2>4, PeekFacts DEF SaveClose, Step, Written, WriteInv, TypeInv, TypeOK, End
    <3>. QED
      BY <2>4, <3>1, <3>2
      DEF SaveClose, Step, Retry, WriteInv, IdleInv, Saving, Saved, Idle, cards
  <2>5. CASE SaveExamine
    BY <2>5
    DEF SaveExamine, Step, Examining, ExamineInfo, ExamineInfoEnd, ExamineLoad, ExamineLoadEnd,
        Ask, WriteInv, Saving, Saved, steps
  <2>. QED  BY <1>1, <2>1, <2>2, <2>3, <2>4, <2>5 DEF SaveStep
<1>2. CASE Screen
  <2>1. busy'.request = "write" => Saving' /\ saveStep' = 5
    <3>1. SUFFICES ASSUME busy.request = "write" PROVE Saving' /\ saveStep' = 5
      BY <1>2, ScreenFrame
    <3>2. Saving /\ saveStep = 5 /\ screen \in {"spin", "coffin"}
      BY <3>1, SavingScreen DEF WriteInv
    <3>3. Spin
      BY <1>2, <3>2
      DEF Screen, Activate, Approach, Overwrite, OtherCard, Confirm, Cancel, Leave, Coffin,
          Message, AskFormat, FormatInit, Format, FormatErrorShown, Away, Again, EnterRoom, On,
          Saved
    <3>. QED  BY <3>2, <3>3 DEF Spin, steps, Saving
  <2>2. Saving' /\ saveStep' = 5 => Saving /\ UNCHANGED <<cardVars, steps, port, block>>
    BY <1>2, ScreenFrame
  <2>3. saveMode' # 0 /\ saveStep' = Saved => UNCHANGED <<files, saveMode, saveStep, port, block>>
    BY <1>2
    DEF ScreenInv, TypeInv, Asking, Screen, Activate, Approach, Overwrite, OtherCard, Confirm,
        Cancel, Leave, Spin, Coffin, Message, AskFormat, FormatInit, Format, FormatErrorShown,
        Away, Again, EnterRoom, On, Forget, Starts, Goes, Saved, Unformatted, FormatError, steps,
        place, cards, cardVars
  <2>. QED  BY <2>1, <2>2, <2>3 DEF WriteInv, Saving, steps, cardVars, cards, driver
<1>3. CASE World /\ UNCHANGED <<steps, screen, place>>
  <2>1. UNCHANGED <<saveStep, saveMode, port, block>> /\ (Saving <=> Saving')
    BY <1>3 DEF steps, place, Saving
  <2>2. busy'.request = "write" => busy.request = "write"
    BY <1>3 DEF World, BiosAnswers, TakeOut, PutIn, Idle
  <2>3. ASSUME Saving, saveStep = 5
        PROVE  /\ fd' = <<port, block>>
               /\ busy' # Idle => busy'.request = "write" /\ events' = {}
               /\ End \in events' => files'[port][block] = "new"
    <3>1. CASE BiosAnswers
      <4>1. busy.request = "write" /\ events = {} /\ fd = <<port, block>>
        BY <2>3, <3>1 DEF BiosAnswers, WriteInv
      <4>2. port \in Ports /\ block \in Blocks
        BY <4>1 DEF TypeInv, TypeOK
      <4>3. End \in events' => files' = [files EXCEPT ![port][block] = "new"]
        BY <3>1, <4>1 DEF BiosAnswers
      <4>. QED  BY <3>1, <4>1, <4>2, <4>3 DEF BiosAnswers, TypeInv, TypeOK, driver, Names
    <3>2. CASE \E p \in Ports : TakeOut(p) \/ PutIn(p)
      BY <2>3, <3>2 DEF TakeOut, PutIn, WriteInv, driver
    <3>. QED  BY <1>3, <3>1, <3>2 DEF World
  <2>4. saveMode # 0 /\ saveStep = Saved => files' = files
    BY <1>3, WorldFiles DEF Saved
  <2>. QED  BY <2>1, <2>2, <2>3, <2>4 DEF WriteInv
<1>4. CASE UNCHANGED vars
  BY <1>4 DEF vars, cardVars, cards, driver, steps, place, WriteInv, Saving
<1>. QED  BY <1>1, <1>2, <1>3, <1>4, StepCases

LEMMA OwnStep ==
    ASSUME TypeInv, ScreenInv, IdleInv, WriteInv, OwnInv, [Next]_vars
    PROVE  OwnInv'
<1>1. CASE SaveStep
  <2>0. /\ Saving /\ port' = port /\ port \in Ports
        /\ ~short' => ~short
    BY <1>1, SaveFrame
  <2>1. CASE SaveInit \/ SaveExamine \/ SaveExamined \/ SaveNoRoom \/ SaveClose
    <3>1. UNCHANGED <<files, block, saveMode>>
      BY <2>1
      DEF SaveInit, SaveExamine, SaveExamined, SaveNoRoom, SaveClose, Examining, ExamineInfo,
          ExamineInfoEnd, ExamineLoad, ExamineLoadEnd, cards, cardVars, steps
    <3>2. saveStep' # 3 /\ (saveStep' = 2 => cardStep' = 0)
      BY <2>1
      DEF SaveInit, SaveExamine, SaveExamined, SaveNoRoom, SaveClose, Step, Examined, Retry,
          steps, Saved, NoCard, Defective, Unformatted, Full
    <3>. QED  BY <2>0, <3>1, <3>2 DEF OwnInv
  <2>2. CASE SaveParse
    <3>1. UNCHANGED <<files, block, saveMode, saveStep>> /\ saveStep = 2
      BY <2>2 DEF SaveParse, Step, ListMore, cards, steps
    <3>2. ASSUME cardStep' = 2, ~short'
          PROVE  found' = Held(port)
      <4>1. PICK listed : found' = listed /\ short' = (short \/ Held(port) # listed)
        BY <2>2, <3>2 DEF SaveParse, ListMore
      <4>. QED  BY <3>2, <4>1
    <3>. QED  BY <2>0, <3>1, <3>2 DEF OwnInv, Held
  <2>3. CASE SaveParsed
    <3>1. /\ UNCHANGED <<files, block>> /\ saveStep = 2 /\ cardStep = 2 /\ dir' = found
          /\ saveStep' \in {3, 4}
      BY <2>3 DEF SaveParsed, Step, ListEnd, cards
    <3>2. ASSUME ~short, saveMode' # 2, block # NoBlock
          PROVE  files[port][block] # "old"
      <4>1. CASE saveMode = 2
        <5>1. found \cap Blocks = {} /\ found = Held(port)
          BY <2>0, <2>3, <3>1, <3>2, <4>1 DEF SaveParsed, OwnInv
        <5>2. block \in Blocks
          BY <3>2 DEF TypeInv
        <5>. QED  BY <5>1, <5>2 DEF Held, Names
      <4>2. CASE saveMode # 2
        BY <2>0, <3>2, <4>2 DEF OwnInv
      <4>. QED  BY <4>1, <4>2
    <3>. QED  BY <2>0, <3>1, <3>2 DEF OwnInv, Held
  <2>4. CASE SavePick
    <3>1. UNCHANGED <<files, saveMode>> /\ saveStep = 3 /\ saveStep' \in {4, Full}
      BY <2>4 DEF SavePick, Step, cardVars, cards
    <3>2. ~short /\ saveStep' = 4 => files[port][block'] # "old"
      <4>1. saveStep' = 4 => block' \in Blocks /\ block' \notin dir
        BY <2>4 DEF SavePick, Unlisted, MemcardDetectSave, Full
      <4>2. ~short => dir = Held(port)
        BY <2>0, <3>1 DEF OwnInv
      <4>. QED  BY <4>1, <4>2 DEF Held, Names
    <3>. QED  BY <2>0, <3>1, <3>2 DEF OwnInv, Saving, Full, Saved
  <2>5. CASE SaveWrite
    <3>1. UNCHANGED <<block, saveMode>> /\ saveStep' \in {0, 4, 5} /\ block \in Blocks
      BY <2>0, <2>5 DEF SaveWrite, Step, Retry, IdleInv, TypeInv
    <3>2. files[port][block] # "old" => files'[port][block] # "old"
      <4>1. files' = files \/ files' = Created(port, block)
        BY <1>1, SaveFiles
      <4>. QED  BY <2>0, <3>1, <4>1 DEF Created, TypeInv, TypeOK, Names
    <3>. QED  BY <2>0, <3>1, <3>2 DEF OwnInv
  <2>. QED  BY <1>1, <2>1, <2>2, <2>3, <2>4, <2>5 DEF SaveStep
<1>2. CASE Screen
  <2>1. CASE saveStep' = 0 /\ (saveMode' = 2 \/ block' = NoBlock)
    BY <2>1 DEF OwnInv
  <2>2. CASE Saving /\ UNCHANGED <<cardVars, steps, port, block>>
    BY <2>2 DEF OwnInv, Saving, Held, cardVars, cards, driver, steps
  <2>3. CASE ~Saving'
    BY <2>3 DEF OwnInv
  <2>. QED  BY <1>2, <2>1, <2>2, <2>3, ScreenFrame
<1>3. CASE World /\ UNCHANGED <<steps, screen, place>>
  <2>1. /\ UNCHANGED <<saveStep, saveMode, port, block>> /\ (Saving <=> Saving')
        /\ UNCHANGED <<short, cardStep, found, dir>>
    BY <1>3 DEF World, BiosAnswers, TakeOut, PutIn, driver, steps, place, Saving
  <2>2. CASE files' = files
    BY <2>1, <2>2 DEF OwnInv, Held
  <2>3. CASE /\ saveStep = 5 /\ port \in Ports /\ block \in Blocks
             /\ \E c \in {"new", "part"} : files' = [files EXCEPT ![port][block] = c]
    <3>1. files'[port][block] # "old"
      BY <2>3 DEF TypeInv, TypeOK, Names
    <3>. QED  BY <2>1, <2>3, <3>1 DEF OwnInv
  <2>. QED  BY <1>3, <2>2, <2>3, WorldFiles
<1>4. CASE UNCHANGED vars
  BY <1>4 DEF vars, cardVars, cards, driver, steps, place, OwnInv, Saving, Held
<1>. QED  BY <1>1, <1>2, <1>3, <1>4, StepCases

(***************************************************************************)
(* The theorems.                                                           *)
(***************************************************************************)
LEMMA InvInit == Init => IInv
<1>. SUFFICES ASSUME Init PROVE IInv
  OBVIOUS
<1>1. TypeInv
  BY TypeInit
<1>2. busy = Idle
  BY DEF Init, Begins
<1>. QED
  BY <1>1, <1>2
  DEF Init, IInv, ScreenInv, CountInv, IdleInv, WriteInv, OwnInv, Saving, Asking, Idle, Saved

LEMMA InvStep == IInv /\ [Next]_vars => IInv'
  BY TypeStep, ScreenStep, CountStep, IdleStep, WriteStep, OwnStep DEF IInv

LEMMA Invariance == Spec => []IInv
  BY InvInit, InvStep, PTL DEF Spec

LEMMA InvSaved == IInv => DataSaved
<1>. SUFFICES ASSUME IInv, saveMode # 0, saveStep = Saved
              PROVE  port \in Ports /\ block \in Blocks /\ files[port][block] = "new"
  BY DEF DataSaved
<1>1. port # NoPort
  BY DEF IInv, ScreenInv, Saved
<1>. QED  BY <1>1 DEF IInv, TypeInv, WriteInv

\* A file made before is lost by the write alone, by a format, or unlisted.
KeptOrAgreed ==
    \A p \in Ports : \A n \in Names :
        files[p][n] = "old" /\ files'[p][n] # "old" =>
            \/ p = port /\ n = block /\ saveMode = 2
            \/ p = port /\ screen = "formatting"
            \/ short

LEMMA InvKept == IInv /\ [Next]_vars => KeptOrAgreed
<1>. SUFFICES ASSUME IInv, [Next]_vars, NEW p \in Ports, NEW n \in Names,
                     files[p][n] = "old", files'[p][n] # "old"
              PROVE  \/ p = port /\ n = block /\ saveMode = 2
                     \/ p = port /\ screen = "formatting"
                     \/ short
  BY DEF KeptOrAgreed
<1>1. CASE SaveStep
  <2>1. port \in Ports /\ saveStep = 4 /\ block \notin Held(port) /\ files' = Created(port, block)
    BY <1>1, SaveFiles, SaveFrame DEF IInv
  <2>2. block \in Names /\ files[port][block] = "none"
    BY <1>1, <2>1, SaveFrame DEF IInv, IdleInv, TypeInv, Names, Held
  <2>3. p = port /\ n = block
    BY <2>1, <2>2 DEF Created, IInv, TypeInv, TypeOK
  <2>. QED  BY <2>2, <2>3
<1>2. CASE Screen
  <2>1. CASE Format
    BY <1>2, <2>1 DEF Format, Formatted, FormatFails, cards, IInv, TypeInv, TypeOK
  <2>2. CASE EnterRoom
    BY <2>2 DEF EnterRoom
  <2>. QED
    BY <1>2, <2>1, <2>2
    DEF Screen, Activate, Approach, Overwrite, OtherCard, Confirm, Cancel, Leave, Spin, Coffin,
        Message, AskFormat, FormatInit, FormatErrorShown, Away, Again, On, cardVars, cards
<1>3. CASE World /\ UNCHANGED <<steps, screen, place>>
  <2>1. /\ Saving /\ saveStep = 5 /\ port \in Ports /\ block \in Blocks
        /\ \E c \in {"new", "part"} : files' = [files EXCEPT ![port][block] = c]
    BY <1>3, WorldFiles DEF IInv
  <2>2. p = port /\ n = block
    BY <2>1 DEF IInv, TypeInv, TypeOK, Names
  <2>. QED  BY <2>1, <2>2 DEF IInv, OwnInv, Blocks, NoBlock
<1>4. CASE UNCHANGED vars
  BY <1>4 DEF vars, cardVars, cards
<1>. QED  BY <1>1, <1>2, <1>3, <1>4, StepCases

\* The variables of the driver, the steps and the screens hold values of their
\* kinds in every state: no count of retries runs past -1, no step past 11.
THEOREM TypeCorrect == Spec => []TypeInv
<1>1. IInv => TypeInv
  BY DEF IInv
<1>. QED  BY <1>1, Invariance, PTL

\* "Data saved." is shown only when the card holds the save, for any number of
\* retries and of faults: the event func_80103ED4 takes for the write's end is
\* the write's, because _clear_event is called after open and the BIOS is idle.
THEOREM SavedIsSaved == Spec => []DataSaved
  BY Invariance, InvSaved, PTL

\* No step of func_80103ED4 or of the screens, retried or left half way, loses
\* a file the player did not agree to lose, unless a listing missed it.
THEOREM OthersAreKept == Spec => KeepsOtherSaves
<1>1. IInv /\ [Next]_vars => [KeptOrAgreed]_vars
  BY InvKept
<1>2. Spec => [][KeptOrAgreed]_vars
  BY <1>1, Invariance, PTL DEF Spec
<1>. QED  BY <1>2 DEF KeepsOtherSaves, KeptOrAgreed

=============================================================================
