-------------------------- MODULE ConfigStoreProofs --------------------------
(***************************************************************************)
(* Theorems of ConfigStore, for any set of values and order of texts, any  *)
(* factory configuration and any number of commands, failures and resets.  *)
(***************************************************************************)
EXTENDS ConfigStore, TLAPS

-----------------------------------------------------------------------------
(* The page *)

\* Every field has its place among the Last ones.
LEMMA PlaceType == \A f \in Fields : Place[f] \in 1..Last
BY DEF Fields, Place, Last

\* Programming a step keeps the page a page.
LEMMA ProgramType ==
  ASSUME MemoryTypeOK, Program
  PROVE  page' \in Memory
BY DEF MemoryTypeOK, Memory, Program

\* When the last field has been programmed the page is the copy in RAM.
LEMMA ProgramWhole ==
  ASSUME MemoryTypeOK, Programmed, Program, ~(written + 1 < Last)
  PROVE  page' = ram
<1>1. page \in [Fields -> Values \cup {Blank}] /\ ram \in [Fields -> Values \cup {Blank}]
  BY DEF MemoryTypeOK, Memory
<1>2. written \in Int /\ written + 1 = Last
  BY DEF MemoryTypeOK, Programmed, Program, Last
<1>3. ASSUME NEW f \in Fields
      PROVE  page'[f] = ram[f]
  <2>1. Place[f] <= written \/ Place[f] = written + 1
    BY <1>2, PlaceType DEF Last
  <2>2. CASE Place[f] = written + 1
    BY <2>2 DEF Program
  <2>3. CASE Place[f] <= written
    BY <1>2, <2>3, PlaceType DEF Program, Programmed
  <2> QED BY <2>1, <2>2, <2>3
<1>4. page' = [f \in Fields |-> page'[f]] /\ ram = [f \in Fields |-> ram[f]]
  BY <1>1 DEF Program
<1> QED BY <1>3, <1>4

-----------------------------------------------------------------------------
(* Type correctness *)

\* The store starts well typed.
LEMMA StoreInit == Init => StoreInvariant
<1> SUFFICES ASSUME Init PROVE StoreInvariant
  OBVIOUS
<1> USE StoreConstantsOK DEF Init, StoreConstantsOK
<1>1. ControlTypeOK
  BY DEF ControlTypeOK
<1>2. MarkTypeOK
  BY DEF MarkTypeOK
<1>3. MemoryTypeOK
  BY DEF MemoryTypeOK, Memory, AllBlank, Last
<1>4. Ownership
  BY DEF Ownership
<1>5. Programmed /\ StoredWhenIdle /\ Whole
  BY DEF Programmed, StoredWhenIdle, Whole
<1> QED BY <1>1, <1>2, <1>3, <1>4, <1>5 DEF StoreInvariant, StoreTypeOK

\* A setter that finds the value it was called with changes nothing but the
\* command's remaining calls.
LEMMA UnchangedFrame ==
  ASSUME NEW f, NEW v, Unchanged(f, v)
  PROVE  /\ pc = "idle" /\ todo # <<>> /\ todo' = Tail(todo)
         /\ UNCHANGED <<mode, pc, after, ram, ramMark, page, pageMark, written,
                        history>>
BY DEF Unchanged, Call

\* A setter that finds another value stores a value.
LEMMA ChangeFrame ==
  ASSUME NEW f \in Fields, NEW v \in Values, Change(f, v)
  PROVE  /\ pc = "idle" /\ todo # <<>> /\ todo' = Tail(todo)
         /\ pc' = "erase" /\ after' \in {"goOn", "rebootIfStored"}
         /\ \E w \in Values : ram' = [ram EXCEPT ![f] = w]
         /\ UNCHANGED <<mode, ramMark, page, pageMark, written, history>>
<1>1. Readings(f, v) \subseteq Values
  BY DEF Readings, Texts
<1> QED BY <1>1 DEF Change, Call

\* A command is a sequence of setter calls.
LEMMA RequestsType == Requests \subseteq Seq(Calls)
<1> SUFFICES ASSUME NEW r \in Requests PROVE r \in Seq(Calls)
  OBVIOUS
<1>1. {"destIp", "destPort", "apSSID", "apPassword"} \subseteq Fields
  BY DEF Fields, Place
<1>2. ASSUME NEW f \in Fields, NEW v \in Values, r = << <<f, v>> >>
      PROVE  r \in Seq(Calls)
  BY <1>2 DEF Calls
<1>3. ASSUME NEW f \in Fields, NEW v \in Values, NEW g \in Fields, NEW w \in Values,
             r = << <<f, v>>, <<g, w>> >>
      PROVE  r \in Seq(Calls)
  BY <1>3 DEF Calls
<1>4. \/ \E f \in Fields, v \in Values : r = << <<f, v>> >>
      \/ \E f, g \in Fields, v, w \in Values : r = << <<f, v>>, <<g, w>> >>
  BY <1>1 DEF Requests, Single, Texts
<1> QED BY <1>2, <1>3, <1>4

\* The calls that remain are calls.
LEMMA TailCalls ==
  ASSUME todo \in Seq(Calls), todo # <<>>
  PROVE  Tail(todo) \in Seq(Calls)
OBVIOUS

\* Commands, failures and resets are counted within their bounds, and the control
\* of the store stays among its points.
LEMMA ControlStep == ControlTypeOK /\ [Next]_vars => ControlTypeOK'
<1> SUFFICES ASSUME ControlTypeOK, [Next]_vars PROVE ControlTypeOK'
  OBVIOUS
<1> USE StoreConstantsOK DEF StoreConstantsOK
<1>1. CASE LoadConfig
  BY <1>1 DEF ControlTypeOK, LoadConfig, history
<1>2. CASE Erase
  BY <1>2 DEF ControlTypeOK, Erase, history
<1>3. CASE EraseFails
  BY <1>3 DEF ControlTypeOK, EraseFails, Return
<1>4. CASE Program
  BY <1>4 DEF ControlTypeOK, Program, Return, history
<1>5. CASE ProgramFails
  BY <1>5 DEF ControlTypeOK, ProgramFails, Return
<1>6. CASE Command
  <2>1. todo' \in Seq(Calls)
    BY <1>6, RequestsType DEF Command
  <2> QED BY <1>6, <2>1 DEF ControlTypeOK, Command
<1>7. CASE SetReset
  BY <1>7 DEF ControlTypeOK, SetReset
<1>8. CASE Reboot
  BY <1>8 DEF ControlTypeOK, Reboot
<1>9. CASE Setter
  <2>1. PICK f \in Fields, v \in Values : Unchanged(f, v) \/ Change(f, v)
    BY <1>9 DEF Setter
  <2>2. CASE Unchanged(f, v)
    <3>1. todo' \in Seq(Calls)
      BY <2>2, UnchangedFrame, TailCalls DEF ControlTypeOK
    <3> QED BY <2>2, <3>1, UnchangedFrame DEF ControlTypeOK, history
  <2>3. CASE Change(f, v)
    <3>1. todo' \in Seq(Calls)
      BY <2>3, ChangeFrame, TailCalls DEF ControlTypeOK
    <3> QED BY <2>3, <3>1, ChangeFrame DEF ControlTypeOK, history
  <2> QED BY <2>1, <2>2, <2>3
<1>10. CASE ConsoleReset
  BY <1>10 DEF ControlTypeOK, ConsoleReset, Restart
<1>11. CASE OtherReset
  BY <1>11 DEF ControlTypeOK, OtherReset, Restart
<1>12. CASE UNCHANGED vars
  BY <1>12 DEF ControlTypeOK, vars, history
<1> QED BY <1>1, <1>2, <1>3, <1>4, <1>5, <1>6, <1>7, <1>8, <1>9, <1>10, <1>11,
      <1>12 DEF Next

\* A write once broken off stays so.
LEMMA TornStays ==
  ASSUME [Next]_vars, ~torn'
  PROVE  ~torn
<1>1. CASE LoadConfig \/ Erase \/ EraseFails \/ Program \/ ProgramFails
  BY <1>1 DEF LoadConfig, Erase, EraseFails, Program, ProgramFails, BreaksOff, history
<1>2. CASE Command \/ SetReset \/ Reboot
  BY <1>2 DEF Command, SetReset, Reboot
<1>3. CASE Setter
  BY <1>3 DEF Setter, Unchanged, Change, history
<1>4. CASE ConsoleReset \/ OtherReset
  BY <1>4 DEF ConsoleReset, OtherReset, BreaksOff
<1>5. CASE UNCHANGED vars
  BY <1>5 DEF vars, history
<1> QED BY <1>1, <1>2, <1>3, <1>4, <1>5 DEF Next

LEMMA NotTorn ==
  ASSUME BreaksOff, ~torn'
  PROVE  ~(pc = "write" /\ written > 0)
BY Zenon DEF BreaksOff

\* The watermark bytes stay either set or not, and so does the history.
LEMMA MarkStep == MarkTypeOK /\ [Next]_vars => MarkTypeOK'
<1> SUFFICES ASSUME MarkTypeOK, [Next]_vars PROVE MarkTypeOK'
  OBVIOUS
<1> USE DEF MarkTypeOK, history
<1>1. CASE LoadConfig \/ Erase \/ EraseFails \/ Program
  BY <1>1 DEF LoadConfig, Erase, EraseFails, Program
<1>2. CASE ProgramFails
  BY <1>2 DEF ProgramFails, BreaksOff
<1>3. CASE Command \/ SetReset \/ Reboot
  BY <1>3 DEF Command, SetReset, Reboot
<1>4. CASE Setter
  BY <1>4 DEF Setter, Unchanged, Change
<1>5. CASE ConsoleReset
  BY <1>5 DEF ConsoleReset, Restart
<1>6. CASE OtherReset
  BY <1>6 DEF OtherReset, Restart, BreaksOff
<1>7. CASE UNCHANGED vars
  BY <1>7 DEF vars
<1> QED BY <1>1, <1>2, <1>3, <1>4, <1>5, <1>6, <1>7 DEF Next

\* RAM and page hold values or blanks; programming ends at the last field.
LEMMA MemoryStep ==
  MemoryTypeOK /\ Programmed /\ [Next]_vars => MemoryTypeOK'
<1> SUFFICES ASSUME MemoryTypeOK, Programmed, [Next]_vars PROVE MemoryTypeOK'
  OBVIOUS
<1>0. AllBlank \in Memory /\ Default \in Memory
  BY StoreConstantsOK DEF StoreConstantsOK, AllBlank, Memory
<1> USE DEF MemoryTypeOK
<1>1. CASE LoadConfig
  BY <1>0, <1>1 DEF LoadConfig
<1>2. CASE Erase
  BY <1>0, <1>2 DEF Erase, Last
<1>3. CASE EraseFails \/ ProgramFails
  BY <1>3 DEF EraseFails, ProgramFails
<1>4. CASE Program
  <2>1. written' \in 0..Last
    BY <1>4 DEF Program, Programmed, Last
  <2> QED BY <1>4, <2>1, ProgramType DEF Program
<1>5. CASE Command \/ SetReset \/ Reboot
  BY <1>5 DEF Command, SetReset, Reboot
<1>6. CASE Setter
  <2>1. PICK f \in Fields, v \in Values : Unchanged(f, v) \/ Change(f, v)
    BY <1>6 DEF Setter
  <2>2. CASE Unchanged(f, v)
    BY <2>2, UnchangedFrame
  <2>3. CASE Change(f, v)
    BY <2>3, ChangeFrame DEF Memory
  <2> QED BY <2>1, <2>2, <2>3
<1>7. CASE ConsoleReset \/ OtherReset
  BY <1>0, <1>7 DEF ConsoleReset, OtherReset, Restart, Last
<1>8. CASE UNCHANGED vars
  BY <1>8 DEF vars
<1> QED BY <1>1, <1>2, <1>3, <1>4, <1>5, <1>6, <1>7, <1>8 DEF Next

-----------------------------------------------------------------------------
(* The parts of the invariant *)

\* Ownership of the store moves only by its rules.
LEMMA OwnershipStep == Ownership /\ [Next]_vars => Ownership'
<1> SUFFICES ASSUME Ownership, [Next]_vars PROVE Ownership'
  OBVIOUS
<1> USE DEF Ownership
<1>1. CASE LoadConfig
  BY <1>1 DEF LoadConfig
<1>2. CASE Erase
  BY <1>2 DEF Erase
<1>3. CASE EraseFails
  BY <1>3 DEF EraseFails, Return
<1>4. CASE Program
  BY <1>4 DEF Program, Return
<1>5. CASE ProgramFails
  BY <1>5 DEF ProgramFails, Return
<1>6. CASE Command
  BY <1>6 DEF Command, Prompt
<1>7. CASE SetReset
  BY <1>7 DEF SetReset, Prompt
<1>8. CASE Reboot
  BY <1>8 DEF Reboot, Prompt
<1>9. CASE Setter
  <2>1. PICK f \in Fields, v \in Values : Unchanged(f, v) \/ Change(f, v)
    BY <1>9 DEF Setter
  <2>2. CASE Unchanged(f, v)
    BY <2>2, UnchangedFrame
  <2>3. CASE Change(f, v)
    BY <2>3, ChangeFrame
  <2> QED BY <2>1, <2>2, <2>3
<1>10. CASE ConsoleReset \/ OtherReset
  BY <1>10 DEF ConsoleReset, OtherReset, Restart
<1>11. CASE UNCHANGED vars
  BY <1>11 DEF vars
<1> QED BY <1>1, <1>2, <1>3, <1>4, <1>5, <1>6, <1>7, <1>8, <1>9, <1>10,
      <1>11 DEF Next

\* What has been programmed so far is a copy of RAM, which stands still meanwhile.
LEMMA ProgrammedStep ==
  MemoryTypeOK /\ Programmed /\ [Next]_vars => Programmed'
<1> SUFFICES ASSUME MemoryTypeOK, Programmed, [Next]_vars, pc' = "write"
             PROVE  Programmed'
  BY DEF Programmed
<1>1. CASE Erase
  <2>1. written' = 0 /\ pageMark' = FALSE
    BY <1>1 DEF Erase
  <2> QED BY <2>1, PlaceType DEF Programmed, Last
<1>2. CASE Program
  <2>1. pc = "write" /\ written \in Nat /\ written' = written + 1 /\ ram' = ram
    BY <1>2 DEF Program, MemoryTypeOK, Last
  <2>2. written' < Last
    BY <1>2 DEF Program, Return
  <2>3. ASSUME NEW f \in Fields, Place[f] <= written'
        PROVE  page'[f] = ram'[f]
    <3>1. CASE Place[f] = written + 1
      BY <1>2, <2>1, <3>1 DEF Program
    <3>2. CASE Place[f] <= written
      BY <1>2, <2>1, <3>2, PlaceType DEF Program, Programmed
    <3> QED BY <2>1, <2>3, <3>1, <3>2, PlaceType DEF Last
  <2>4. written' # 0 /\ pageMark' = ramMark'
    BY <1>2, <2>1 DEF Program
  <2> QED BY <2>2, <2>3, <2>4 DEF Programmed
<1>3. CASE LoadConfig \/ EraseFails \/ ProgramFails \/ SetReset \/ Reboot
  BY <1>3 DEF LoadConfig, EraseFails, ProgramFails, Return, SetReset, Reboot
<1>4. CASE Command
  BY <1>4 DEF Command, Prompt
<1>5. CASE Setter
  BY <1>5, UnchangedFrame, ChangeFrame DEF Setter
<1>6. CASE ConsoleReset \/ OtherReset
  BY <1>6 DEF ConsoleReset, OtherReset, Restart
<1>7. CASE UNCHANGED vars
  BY <1>7 DEF vars, Programmed
<1> QED BY <1>1, <1>2, <1>3, <1>4, <1>5, <1>6, <1>7 DEF Next

\* Without failures every way back to the prompt leaves RAM and page the same.
LEMMA StoredStep ==
  StoreTypeOK /\ Ownership /\ Programmed /\ StoredWhenIdle /\ [Next]_vars
    => StoredWhenIdle'
<1> SUFFICES ASSUME StoreTypeOK, Ownership, Programmed, StoredWhenIdle, [Next]_vars,
                    mode' # "boot", pc' = "idle", failures' = 0
             PROVE  page' = ram' /\ pageMark' /\ ramMark'
  BY DEF StoredWhenIdle
<1>1. CASE LoadConfig
  BY <1>1 DEF LoadConfig
<1>2. CASE Program
  <2>1. ~(written + 1 < Last)
    BY <1>2 DEF Program
  <2>2. page' = ram' /\ pageMark' = ramMark /\ ramMark' = ramMark
    BY <1>2, <2>1, ProgramWhole DEF Program, StoreTypeOK
  <2>3. ramMark
    BY <1>2, <2>1 DEF Program, Return, Ownership
  <2> QED BY <2>2, <2>3
<1>3. CASE EraseFails \/ ProgramFails
  <2>1. failures' = failures + 1
    BY <1>3 DEF EraseFails, ProgramFails
  <2>2. failures \in Nat
    BY DEF StoreTypeOK, ControlTypeOK
  <2> QED BY <2>1, <2>2
<1>4. CASE Erase \/ SetReset \/ Reboot
  BY <1>4 DEF Erase, SetReset, Reboot
<1>5. CASE Command
  BY <1>5 DEF Command, Prompt, StoredWhenIdle
<1>6. CASE Setter
  <2>1. PICK f \in Fields, v \in Values : Unchanged(f, v) \/ Change(f, v)
    BY <1>6 DEF Setter
  <2>2. CASE Unchanged(f, v)
    BY <2>2, UnchangedFrame DEF StoredWhenIdle, history
  <2>3. CASE Change(f, v)
    BY <2>3, ChangeFrame
  <2> QED BY <2>1, <2>2, <2>3
<1>7. CASE ConsoleReset \/ OtherReset
  BY <1>7 DEF ConsoleReset, OtherReset, Restart
<1>8. CASE UNCHANGED vars
  BY <1>8 DEF vars, history, StoredWhenIdle
<1> QED BY <1>1, <1>2, <1>3, <1>4, <1>5, <1>6, <1>7, <1>8 DEF Next

\* Without broken-off programming no blank field becomes a value.
LEMMA WholeStep ==
  StoreTypeOK /\ Ownership /\ Programmed /\ Whole /\ [Next]_vars => Whole'
<1> SUFFICES ASSUME StoreTypeOK, Ownership, Programmed, Whole, [Next]_vars, ~torn'
             PROVE  /\ mode' # "boot" => ram' \in [Fields -> Values]
                    /\ pageMark' /\ pc' # "write" => page' \in [Fields -> Values]
  BY DEF Whole
<1>a. ~torn
  BY TornStays
<1>0. Default \in [Fields -> Values]
  BY StoreConstantsOK DEF StoreConstantsOK
<1>1. mode # "boot" => ram \in [Fields -> Values]
  BY <1>a DEF Whole
<1>2. pageMark /\ pc # "write" => page \in [Fields -> Values]
  BY <1>a DEF Whole
<1>3. pc \in {"erase", "write"} => ram \in [Fields -> Values]
  BY <1>0, <1>1 DEF Ownership
<1>4. CASE LoadConfig
  BY <1>0, <1>1, <1>2, <1>4 DEF LoadConfig
<1>5. CASE Erase
  BY <1>1, <1>5 DEF Erase
<1>6. CASE EraseFails
  BY <1>2, <1>3, <1>6 DEF EraseFails
<1>7. CASE Program
  <2>1. ~(written + 1 < Last) => page' = ram
    BY <1>7, ProgramWhole DEF StoreTypeOK
  <2>2. written + 1 < Last => pc' = "write" /\ mode' = mode
    BY <1>7 DEF Program
  <2>3. ram' = ram /\ pc = "write"
    BY <1>7 DEF Program
  <2> QED BY <1>3, <2>1, <2>2, <2>3
<1>8. CASE ProgramFails
  <2>1. written = 0
    BY <1>8, NotTorn DEF ProgramFails, StoreTypeOK, MemoryTypeOK, Last
  <2>2. ~pageMark'
    BY <1>8, <2>1 DEF ProgramFails, Programmed
  <2> QED BY <1>3, <1>8, <2>2 DEF ProgramFails
<1>9. CASE Command \/ SetReset \/ Reboot
  BY <1>1, <1>2, <1>9 DEF Command, SetReset, Reboot, Prompt
<1>10. CASE Setter
  <2>1. PICK f \in Fields, v \in Values : Unchanged(f, v) \/ Change(f, v)
    BY <1>10 DEF Setter
  <2>2. CASE Unchanged(f, v)
    BY <1>1, <1>2, <2>2, UnchangedFrame
  <2>3. CASE Change(f, v)
    BY <1>1, <1>2, <2>3, ChangeFrame
  <2> QED BY <2>1, <2>2, <2>3
<1>11. CASE ConsoleReset
  BY <1>2, <1>11 DEF ConsoleReset, Restart
<1>12. CASE OtherReset
  <2>1. pc = "write" => ~pageMark
    BY <1>12, NotTorn DEF OtherReset, Programmed, StoreTypeOK, MemoryTypeOK, Last
  <2> QED BY <1>2, <1>12, <2>1 DEF OtherReset, Restart
<1>13. CASE UNCHANGED vars
  BY <1>1, <1>2, <1>13 DEF vars
<1> QED BY <1>4, <1>5, <1>6, <1>7, <1>8, <1>9, <1>10, <1>11, <1>12, <1>13 DEF Next

\* The invariant is inductive.
LEMMA StoreStep == StoreInvariant /\ [Next]_vars => StoreInvariant'
BY ControlStep, MarkStep, MemoryStep, OwnershipStep, ProgrammedStep, StoredStep,
   WholeStep DEF StoreInvariant, StoreTypeOK

LEMMA StoreCorrect == Spec => []StoreInvariant
BY StoreInit, StoreStep, PTL DEF Spec

-----------------------------------------------------------------------------
(* Theorems *)

\* The store keeps its types, and no write of configuration.c or flash.c goes
\* behind the last field of the page.
THEOREM StoreTypeCorrect == Spec => []StoreTypeOK
<1>1. StoreInvariant => StoreTypeOK
  BY DEF StoreInvariant
<1> QED BY <1>1, StoreCorrect, PTL

\* Between two setter calls RAM and page agree unless the flash has failed, however
\* often the gateway was reset in the middle of FlashWrite.
THEOREM StoredCorrect == Spec => []StoredWhenIdle
<1>1. StoreInvariant => StoredWhenIdle
  BY DEF StoreInvariant
<1> QED BY <1>1, StoreCorrect, PTL

\* If programming is not broken off behind its first word, the gateway never runs
\* with a field that was never set, whatever else fails or is reset.
THEOREM WholeCorrect == Spec => []RunsWhole
<1>1. StoreInvariant => RunsWhole
  <2> SUFFICES ASSUME Whole, ~torn, mode # "boot", NEW f \in Fields PROVE ram[f] # Blank
    BY DEF StoreInvariant, RunsWhole
  <2>1. ram \in [Fields -> Values] /\ Blank \notin Values
    BY StoreConstantsOK DEF StoreConstantsOK, Whole
  <2> QED BY <2>1
<1> QED BY <1>1, StoreCorrect, PTL

-----------------------------------------------------------------------------
(* The store implements the register *)

LEMMA RegisterInit == Init => Register!Init
BY DEF Init, Register!Init, InForce, Loadable, UnderWay

\* Broken off before its first word, a write leaves no watermark.
LEMMA NotBrokenOff ==
  ASSUME StoreInvariant, ~torn', BreaksOff, pc = "write"
  PROVE  ~pageMark
BY NotTorn DEF StoreInvariant, Programmed, StoreTypeOK, MemoryTypeOK, Last

\* A reset comes back to what the page holds, or to the factory's configuration.
LEMMA ResetRefines ==
  ASSUME StoreInvariant, ~torn, ~torn', ConsoleReset \/ OtherReset
  PROVE  Register!Restart
<1>1. pc = "write" => ~pageMark
  BY NotBrokenOff DEF ConsoleReset, OtherReset
<1>2. mode' = "boot" /\ pc' = "load" /\ UNCHANGED <<page, pageMark>>
  BY DEF ConsoleReset, OtherReset, Restart
<1>3. Loadable' = Loadable
  BY <1>1, <1>2 DEF Loadable
<1>4. InForce' = Loadable /\ UnderWay' = "no"
  BY <1>2, <1>3 DEF InForce, UnderWay
<1> QED BY <1>3, <1>4 DEF Register!Restart

\* While the gateway starts, loading and storing the factory's configuration change
\* nothing of the register.
LEMMA BootRefines ==
  ASSUME StoreInvariant, ~torn, ~torn', mode = "boot",
         LoadConfig \/ Erase \/ EraseFails \/ Program \/ ProgramFails
  PROVE  UNCHANGED <<InForce, Loadable, UnderWay>>
<1>0. /\ pc # "load" => ram = Default /\ ramMark
      /\ pc = "erase" => ~pageMark
      /\ pc \in {"load", "erase", "write"} /\ after = "goOn"
  BY DEF StoreInvariant, Ownership
<1>1. CASE LoadConfig
  BY <1>0, <1>1 DEF LoadConfig, InForce, Loadable, UnderWay
<1>2. CASE Erase
  BY <1>0, <1>2 DEF Erase, InForce, Loadable, UnderWay
<1>3. CASE EraseFails
  BY <1>0, <1>3 DEF EraseFails, Return, InForce, Loadable, UnderWay
<1>4. CASE Program
  <2>1. CASE written + 1 < Last
    BY <1>0, <1>4, <2>1 DEF Program, InForce, Loadable, UnderWay
  <2>2. CASE ~(written + 1 < Last)
    <3>1. page' = Default
      BY <1>0, <1>4, <2>2, ProgramWhole DEF StoreInvariant, StoreTypeOK, Program
    <3> QED BY <1>0, <1>4, <2>2, <3>1 DEF Program, Return, InForce, Loadable, UnderWay
  <2> QED BY <2>1, <2>2
<1>5. CASE ProgramFails
  <2>1. pc = "write" /\ pc' = "idle" /\ mode' = "halt"
        /\ UNCHANGED <<ram, page, pageMark>>
    BY <1>0, <1>5 DEF ProgramFails, Return
  <2>2. ~pageMark
    BY <1>5, NotBrokenOff DEF ProgramFails
  <2> QED BY <1>0, <2>1, <2>2 DEF InForce, Loadable, UnderWay
<1> QED BY <1>1, <1>2, <1>3, <1>4, <1>5

\* While it runs, erasing loses what was stored, and programming its last field
\* brings the register to rest.
LEMMA WriteRefines ==
  ASSUME StoreInvariant, ~torn, ~torn', mode # "boot",
         Erase \/ EraseFails \/ Program \/ ProgramFails
  PROVE  \/ Register!Lose \/ Register!Finish \/ Register!Fail
         \/ UNCHANGED <<InForce, Loadable, UnderWay>>
<1>0. ramMark \in BOOLEAN /\ (pc \in {"erase", "write"} => ramMark \/ after = "reboot")
  BY DEF StoreInvariant, Ownership, StoreTypeOK, MarkTypeOK
<1>1. CASE Erase
  <2>1. UnderWay # "no" /\ UnderWay' = UnderWay /\ InForce' = InForce
        /\ Loadable' = Default
    BY <1>0, <1>1 DEF Erase, InForce, Loadable, UnderWay
  <2> QED BY <2>1 DEF Register!Lose
<1>2. CASE EraseFails \/ ProgramFails
  <2>1. pc' \in {"idle", "reboot"} /\ mode' = mode /\ UNCHANGED <<ram, page, pageMark>>
        /\ pc \in {"erase", "write"}
    BY <1>2 DEF EraseFails, ProgramFails, Return
  <2>2. pc = "write" => ~pageMark
    BY <1>2, NotBrokenOff DEF ProgramFails, EraseFails
  <2>3. UnderWay # "no" /\ UnderWay' = "no" /\ InForce' = InForce /\ Loadable' = Loadable
    BY <1>0, <2>1, <2>2 DEF InForce, Loadable, UnderWay
  <2> QED BY <2>3 DEF Register!Fail
<1>3. CASE Program /\ written + 1 < Last
  BY <1>3 DEF Program, InForce, Loadable, UnderWay
<1>4. CASE Program /\ ~(written + 1 < Last)
  <2>1. page' = ram /\ ram' = ram /\ mode' = mode /\ pc = "write"
        /\ pc' \in {"idle", "reboot"} /\ pageMark' = ramMark
    BY <1>4, ProgramWhole DEF StoreInvariant, StoreTypeOK, Program, Return
  <2>2. UnderWay # "no" /\ UnderWay' = "no" /\ InForce' = InForce
        /\ Loadable' = IF UnderWay = "store" THEN InForce ELSE Default
    BY <1>0, <2>1 DEF InForce, Loadable, UnderWay
  <2> QED BY <2>2 DEF Register!Finish
<1> QED BY <1>1, <1>2, <1>3, <1>4

\* The console begins to store or to clear, or leaves the register alone.
LEMMA ConsoleRefines ==
  ASSUME StoreInvariant, ~torn, ~torn', Command \/ SetReset \/ Reboot \/ Setter
  PROVE  Register!Set \/ Register!Clear \/ UNCHANGED <<InForce, Loadable, UnderWay>>
<1>0. mode # "boot" /\ pc = "idle"
  BY UnchangedFrame, ChangeFrame DEF StoreInvariant, Ownership, Command, SetReset,
     Reboot, Prompt, Setter
<1>1. CASE Command \/ Reboot
  BY <1>0, <1>1 DEF Command, Reboot, InForce, Loadable, UnderWay
<1>2. CASE SetReset
  <2>1. UnderWay = "no" /\ UnderWay' = "clear" /\ InForce' = InForce
        /\ Loadable' = Loadable
    BY <1>0, <1>2 DEF SetReset, InForce, Loadable, UnderWay
  <2> QED BY <2>1 DEF Register!Clear
<1>3. CASE Setter
  <2>1. PICK f \in Fields, v \in Values : Unchanged(f, v) \/ Change(f, v)
    BY <1>3 DEF Setter
  <2>2. CASE Unchanged(f, v)
    BY <2>2, UnchangedFrame DEF InForce, Loadable, UnderWay
  <2>3. CASE Change(f, v)
    <3>1. ramMark /\ ram \in [Fields -> Values]
      BY <1>0 DEF StoreInvariant, Ownership, Whole
    <3>2. ram' \in [Fields -> Values]
      BY <2>3, <3>1, ChangeFrame
    <3>3. pc' = "erase" /\ mode' = mode /\ ramMark' = ramMark
          /\ page' = page /\ pageMark' = pageMark
      BY <2>3, ChangeFrame
    <3>4. UnderWay = "no" /\ UnderWay' = "store"
      BY <1>0, <3>1, <3>3 DEF UnderWay
    <3>5. InForce' = ram' /\ Loadable' = Loadable
      BY <1>0, <3>3 DEF InForce, Loadable
    <3> QED BY <3>2, <3>4, <3>5 DEF Register!Set
  <2> QED BY <2>1, <2>2, <2>3
<1> QED BY <1>1, <1>2, <1>3

\* Until a write is torn every step is one of the register's or none of its
\* business.
LEMMA SoundStep ==
  ASSUME StoreInvariant, ~torn, ~torn', [Next]_vars
  PROVE  Register!Works \/ UNCHANGED <<InForce, Loadable, UnderWay>>
<1>1. CASE ConsoleReset \/ OtherReset
  BY <1>1, ResetRefines DEF Register!Works
<1>2. CASE LoadConfig
  <2>1. mode = "boot"
    BY <1>2 DEF LoadConfig
  <2> QED BY <1>2, <2>1, BootRefines
<1>3. CASE Erase \/ EraseFails \/ Program \/ ProgramFails
  BY <1>3, BootRefines, WriteRefines DEF Register!Works
<1>4. CASE Command \/ SetReset \/ Reboot \/ Setter
  BY <1>4, ConsoleRefines DEF Register!Works
<1>5. CASE UNCHANGED vars
  BY <1>5 DEF vars, InForce, Loadable, UnderWay
<1> QED BY <1>1, <1>2, <1>3, <1>4, <1>5 DEF Next

LEMMA RegisterStep ==
  ASSUME StoreInvariant, [Next]_vars
  PROVE  [Register!Next]_(Register!vars)
<1>1. torn' \in BOOLEAN
  BY MarkStep DEF StoreInvariant, StoreTypeOK, MarkTypeOK
<1>2. CASE torn'
  BY <1>2 DEF Register!Next, Register!Tear
<1>3. CASE ~torn'
  <2>1. ~torn
    BY <1>3, TornStays
  <2>2. UNCHANGED ~torn
    BY <1>3, <2>1
  <2> QED BY <1>3, <2>1, <2>2, SoundStep DEF Register!Next, Register!vars
<1> QED BY <1>1, <1>2, <1>3

\* Until programming is broken off behind its first word, configuration.c, flash.c
\* and usbconsole.c together implement the register: a restart comes back to what
\* was stored last, or to the factory's configuration when a write was under way.
THEOREM RegisterCorrect == Spec => ImplementsRegister
<1>1. StoreInvariant /\ [Next]_vars => [Register!Next]_(Register!vars)
  BY RegisterStep
<1> QED BY <1>1, RegisterInit, StoreCorrect, PTL DEF Spec, ImplementsRegister, Register!Spec
=============================================================================
