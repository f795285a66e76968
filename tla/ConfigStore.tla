----------------------------- MODULE ConfigStore -----------------------------
(***************************************************************************)
(* The gateway's configuration: the copy in RAM (configuration.c), the one *)
(* flash page behind it (flash.c), and the USB console that changes both   *)
(* (usbconsole.c), with resets at any moment: of the console itself, of    *)
(* the network manager, of its response timer, of the supply.              *)
(*                                                                         *)
(* Granularity: a call of the flash driver is a step, and so is the        *)
(* programming of each field, because the tick interrupt (and with it a    *)
(* reset) gets between two words.  What lies between two flash steps is    *)
(* one step: nobody else writes the copy in RAM.                           *)
(***************************************************************************)
EXTENDS Integers, Sequences

CONSTANTS
  Values,       \* values a field can have
  Empty,        \* the empty text, one of Values
  Blank,        \* what a field of an erased page holds; nobody can ask for it
  PrefixOf,     \* <<v, w>>: text v is the beginning of text w
  Default,      \* the factory's configuration
  StaleTail,    \* may digits of an earlier call lie behind the text of a port
  MaxCommands,  \* bound: commands typed
  MaxFailures,  \* bound: erasures or programmings that fail
  MaxResets     \* bound: resets that do not come from the console

\* The order in which the fields lie in the page, the watermark's byte in front.
Place == [manufacture |-> 1, apSSID |-> 2, apPassword |-> 3, destIp |-> 4,
          destPort |-> 5, localIp |-> 6, gatewayIp |-> 7, dnsServer |-> 8,
          subnetMask |-> 9, macAddress |-> 10, dhcpMode |-> 11, domainOn |-> 12,
          domainInfo |-> 13, device |-> 14]

Fields == DOMAIN Place
Last   == 14

AllBlank == [f \in Fields |-> Blank]

ASSUME StoreConstantsOK ==
  /\ Empty \in Values /\ Blank \notin Values
  /\ PrefixOf \subseteq Values \X (Values \cup {Blank})
  /\ \A v \in Values : <<v, v>> \in PrefixOf /\ <<Empty, v>> \in PrefixOf
  /\ Default \in [Fields -> Values]
  /\ StaleTail \in BOOLEAN
  /\ MaxCommands \in Nat /\ MaxFailures \in Nat /\ MaxResets \in Nat

VARIABLES
  mode,              \* "boot", "run", "halt" (LoadConfig has failed)
  pc,                \* where the thread that owns the store stands
  after,             \* what follows the write under way
  todo,              \* setter calls the command under way still has to make
  ram, ramMark,      \* configInfo.cfg; has it the watermark
  page, pageMark,    \* the flash page; does it begin with the watermark
  written,           \* fields programmed by the write under way
  commands, failures, resets,
  torn               \* programming has been broken off after its first word

history == <<commands, failures, resets, torn>>
vars == <<mode, pc, after, todo, ram, ramMark, page, pageMark, written, history>>

Init ==
  /\ mode = "boot" /\ pc = "load" /\ after = "goOn" /\ todo = <<>>
  /\ ram = AllBlank /\ ramMark = FALSE
  /\ page = AllBlank /\ pageMark = FALSE /\ written = 0
  /\ commands = 0 /\ failures = 0 /\ resets = 0 /\ torn = FALSE

-----------------------------------------------------------------------------
(* configuration.c: LoadConfig *)

\* Mutant: the watermark is not looked at.
LoadUnchecked ==
  /\ mode = "boot" /\ pc = "load"
  /\ ram' = page /\ ramMark' = TRUE /\ mode' = "run" /\ pc' = "idle"
  /\ UNCHANGED <<after, todo, page, pageMark, written, history>>

\* Mutant: the defaults are laid over what the page held, for want of a memset.
LoadOverOld ==
  /\ mode = "boot" /\ pc = "load"
  /\ ramMark' = TRUE
  /\ IF pageMark \/ page # AllBlank
       THEN ram' = page /\ mode' = "run" /\ pc' = "idle"
       ELSE ram' = Default /\ pc' = "erase" /\ UNCHANGED mode
  /\ UNCHANGED <<after, todo, page, pageMark, written, history>>

\* A page with the watermark is taken as it is; without it the factory's
\* configuration is stored.  The application starts only if that succeeds.
LoadConfig ==
  /\ mode = "boot" /\ pc = "load"
  /\ ramMark' = TRUE
  /\ IF pageMark
       THEN ram' = page /\ mode' = "run" /\ pc' = "idle"
       ELSE ram' = Default /\ pc' = "erase" /\ UNCHANGED mode
  /\ UNCHANGED <<after, todo, page, pageMark, written, history>>

-----------------------------------------------------------------------------
(* flash.c: FlashWrite *)

\* Return from FlashWrite.  Most callers do not look at the result.
Return(ok) ==
  /\ pc' = IF after = "reboot" \/ (after = "rebootIfStored" /\ ok)
             THEN "reboot" ELSE "idle"
  /\ mode' = IF mode # "boot" THEN mode ELSE IF ok THEN "run" ELSE "halt"
  /\ after' = "goOn"

Erase ==
  /\ pc = "erase"
  /\ page' = AllBlank /\ pageMark' = FALSE
  /\ pc' = "write" /\ written' = 0
  /\ UNCHANGED <<mode, after, todo, ram, ramMark, history>>

EraseFails ==
  /\ pc = "erase" /\ failures < MaxFailures /\ failures' = failures + 1
  /\ Return(FALSE)
  /\ UNCHANGED <<todo, ram, ramMark, page, pageMark, written, commands, resets, torn>>

\* Mutant: programming goes on behind the last field.
ProgramPast ==
  /\ pc = "write"
  /\ page' = [f \in Fields |-> IF Place[f] = written + 1 THEN ram[f] ELSE page[f]]
  /\ pageMark' = ramMark /\ written' = written + 1
  /\ IF written <= Last THEN UNCHANGED <<mode, pc, after>> ELSE Return(TRUE)
  /\ UNCHANGED <<todo, ram, ramMark, history>>

\* Field after field, in the order of the page: the watermark comes first.
Program ==
  /\ pc = "write"
  /\ page' = [f \in Fields |-> IF Place[f] = written + 1 THEN ram[f] ELSE page[f]]
  /\ pageMark' = ramMark /\ written' = written + 1
  /\ IF written + 1 < Last THEN UNCHANGED <<mode, pc, after>> ELSE Return(TRUE)
  /\ UNCHANGED <<todo, ram, ramMark, history>>

\* Programming is broken off by a failure or a reset; what it would leave of a
\* single field counts as not programmed.
BreaksOff == torn' = (torn \/ (pc = "write" /\ written > 0))

ProgramFails ==
  /\ pc = "write" /\ failures < MaxFailures /\ failures' = failures + 1
  /\ BreaksOff
  /\ Return(FALSE)
  /\ UNCHANGED <<todo, ram, ramMark, page, pageMark, written, commands, resets>>

-----------------------------------------------------------------------------
(* usbconsole.c: commands, and the setters they call *)

Prompt == mode # "boot" /\ pc = "idle" /\ todo = <<>>

\* One setter call for most commands, two for STCP and SSID.
Single == Fields \ {"destIp", "destPort", "apSSID", "apPassword"}

Texts == Values \ {Empty}

Requests ==
  {<< <<f, v>> >> : f \in Single, v \in Texts}
    \cup {<< <<"destIp", a>>, <<"destPort", p>> >> : a \in Texts, p \in Texts}
    \cup {<< <<"apSSID", s>>, <<"apPassword", p>> >> : s \in Texts, p \in Values}

Command ==
  /\ Prompt /\ commands < MaxCommands /\ commands' = commands + 1
  /\ todo' \in Requests
  /\ UNCHANGED <<mode, pc, after, ram, ramMark, page, pageMark, written, failures,
                 resets, torn>>

\* RSET: SetReset takes the watermark away, then falls through to the reboot.
SetReset ==
  /\ Prompt /\ commands < MaxCommands /\ commands' = commands + 1
  /\ ramMark' = FALSE /\ pc' = "erase" /\ after' = "reboot"
  /\ UNCHANGED <<mode, todo, ram, page, pageMark, written, failures, resets, torn>>

\* RBOT
Reboot ==
  /\ Prompt /\ commands < MaxCommands /\ commands' = commands + 1
  /\ pc' = "reboot"
  /\ UNCHANGED <<mode, after, todo, ram, ramMark, page, pageMark, written, failures,
                 resets, torn>>

\* Compared as whole values: the numbers, and the address, whose length includes
\* the terminator that strtok has put in place of the slash.
Exact == {"manufacture", "dhcpMode", "domainOn", "destPort", "destIp"}

\* The setters of text compare as many characters as the new text has.
Same(f, old, new) == IF f \in Exact THEN new = old ELSE <<new, old>> \in PrefixOf

\* OnSetTcp does not terminate its copy of the text: what an earlier call has
\* left behind the port may be read as more digits, modulo 2^16.
Readings(f, v) == IF f = "destPort" /\ StaleTail THEN Texts ELSE {v}

Call(f, v) ==
  /\ pc = "idle" /\ todo # <<>> /\ Head(todo) = <<f, v>>
  /\ todo' = Tail(todo)

Unchanged(f, v) ==
  /\ Call(f, v)
  /\ \E w \in Readings(f, v) : Same(f, ram[f], w)
  /\ UNCHANGED <<mode, pc, after, ram, ramMark, page, pageMark, written, history>>

\* Mutant: the setter does not write the page.
ChangeInRam(f, v) ==
  /\ Call(f, v)
  /\ \E w \in Readings(f, v) :
       ~Same(f, ram[f], w) /\ ram' = [ram EXCEPT ![f] = w]
  /\ UNCHANGED <<mode, pc, after, ramMark, page, pageMark, written, history>>

\* RAM first, then the page; only SetManufacture's result is looked at.
Change(f, v) ==
  /\ Call(f, v)
  /\ \E w \in Readings(f, v) :
       ~Same(f, ram[f], w) /\ ram' = [ram EXCEPT ![f] = w]
  /\ pc' = "erase"
  /\ after' = IF f = "manufacture" THEN "rebootIfStored" ELSE "goOn"
  /\ UNCHANGED <<mode, ramMark, page, pageMark, written, history>>

Setter == \E f \in Fields, v \in Values : Unchanged(f, v) \/ Change(f, v)

-----------------------------------------------------------------------------
(* Resets *)

\* Start up again: the page is all that is left.
Restart ==
  /\ mode' = "boot" /\ pc' = "load" /\ after' = "goOn" /\ todo' = <<>>
  /\ ram' = AllBlank /\ ramMark' = FALSE /\ written' = 0
  /\ UNCHANGED <<page, pageMark, commands, failures>>

\* DeviceReboot of the console.
ConsoleReset == pc = "reboot" /\ Restart /\ UNCHANGED <<resets, torn>>

\* NVIC_SystemReset by the network manager or its timer, or the supply fails.
OtherReset ==
  /\ resets < MaxResets /\ resets' = resets + 1
  /\ BreaksOff
  /\ Restart

Next ==
  \/ LoadConfig \/ Erase \/ EraseFails \/ Program \/ ProgramFails
  \/ Command \/ SetReset \/ Reboot \/ Setter
  \/ ConsoleReset \/ OtherReset

Spec == Init /\ [][Next]_vars

-----------------------------------------------------------------------------
Calls == Fields \X Values
Memory == [Fields -> Values \cup {Blank}]

ControlTypeOK ==
  /\ mode \in {"boot", "run", "halt"}
  /\ pc \in {"load", "erase", "write", "idle", "reboot"}
  /\ after \in {"goOn", "reboot", "rebootIfStored"}
  /\ todo \in Seq(Calls)
  /\ commands \in 0..MaxCommands /\ failures \in 0..MaxFailures
  /\ resets \in 0..MaxResets

MarkTypeOK == ramMark \in BOOLEAN /\ pageMark \in BOOLEAN /\ torn \in BOOLEAN

MemoryTypeOK == ram \in Memory /\ page \in Memory /\ written \in 0..Last

\* Type correctness; no write goes behind the last field.
StoreTypeOK == ControlTypeOK /\ MarkTypeOK /\ MemoryTypeOK

\* What is in force is what is stored: between two setter calls the copy in RAM
\* and the page agree, whatever was reset or broken off before, as long as the
\* flash has not failed.  The setters (configuration.c) rely on it: they take a
\* value that RAM already has for stored.
StoredWhenIdle ==
  mode # "boot" /\ pc = "idle" /\ failures = 0
    => page = ram /\ pageMark /\ ramMark

\* As long as no write was broken off after its first word, which programs the
\* watermark, the gateway never runs with a field nobody has set: the page that
\* LoadConfig (configuration.c) accepts is whole.
RunsWhole == ~torn /\ mode # "boot" => \A f \in Fields : ram[f] # Blank

\* Who owns the store: the start until the configuration is loaded, then the
\* console; a copy without the watermark is on its way to a reboot.
Ownership ==
  /\ mode = "boot" => pc \in {"load", "erase", "write"} /\ after = "goOn"
  /\ pc = "load" => mode = "boot"
  /\ mode = "boot" /\ pc # "load" => ram = Default /\ ramMark
  /\ mode = "boot" /\ pc = "erase" => ~pageMark
  /\ pc = "idle" => ramMark
  /\ pc \in {"erase", "write"} => ramMark \/ after = "reboot"

\* The page while it is being programmed: so far a copy of RAM.
Programmed ==
  pc = "write" => /\ written < Last
                  /\ \A f \in Fields : Place[f] <= written => page[f] = ram[f]
                  /\ IF written = 0 THEN ~pageMark ELSE pageMark = ramMark

\* Without broken-off programming no blank field is ever stored as a value.
Whole ==
  ~torn => /\ mode # "boot" => ram \in [Fields -> Values]
           /\ pageMark /\ pc # "write" => page \in [Fields -> Values]

\* Inductive, and why the properties above hold.
StoreInvariant ==
  StoreTypeOK /\ Ownership /\ Programmed /\ StoredWhenIdle /\ Whole

\* The store is a register that survives resets until a write is torn
\* (ConfigRegister).  While the page is being programmed its watermark does not
\* count.
Loadable == IF pageMark /\ pc # "write" THEN page ELSE Default

InForce == IF mode = "boot" THEN Loadable ELSE ram

UnderWay == IF mode = "boot" \/ pc \notin {"erase", "write"} THEN "no"
            ELSE IF ramMark THEN "store" ELSE "clear"

Register == INSTANCE ConfigRegister WITH
  Configs <- [Fields -> Values], Factory <- Default,
  value <- InForce, safe <- Loadable, busy <- UnderWay, sound <- ~torn
ImplementsRegister == Register!Spec
=============================================================================
