-------------------------- MODULE StatusLedsProofs --------------------------
(***************************************************************************)
(* Proofs that the flag of the application agrees with the blink timer,    *)
(* whatever message it reads instead of the one it was told of, and that   *)
(* the LEDs show how far the manager has got.                              *)
(***************************************************************************)
EXTENDS StatusLeds, TLAPS

-----------------------------------------------------------------------------
(* Types *)

\* A full queue throws a message away, so the addresses never outgrow it.
LEMMA PostedType ==
  ASSUME posted \in 0..QueueSize, NEW m
  PROVE  Posted(m) \in 0..QueueSize
BY LedConstantsOK DEF LedConstantsOK, Posted

LEMMA StartType ==
  /\ <<"OK", "OTHER">> \in Messages /\ 0 \in 0..QueueSize
  /\ {} \subseteq Leds /\ "WIFI_LED" \in Leds
<1>1. <<"OK", "OTHER">> \in Messages
  BY DEF Messages
<1>2. 0 \in 0..QueueSize
  BY LedConstantsOK DEF LedConstantsOK
<1> QED BY <1>1, <1>2 DEF Leds

LEMMA ManagerType ==
  ASSUME TypeOK, Joins \/ Connects \/ Sends \/ OtherMessage
  PROVE  TypeOK'
<1>1. PICK m \in Messages : Handle(m)
  BY DEF Joins, Connects, Sends, OtherMessage, Messages
<1>2. posted' \in 0..QueueSize
  BY <1>1, PostedType DEF Handle, TypeOK
<1>3. /\ mqData' = m /\ overtaken' \in BOOLEAN
      /\ UNCHANGED <<lit, blinkGPIOPin, blinkTimer, channel2Led>>
  BY <1>1 DEF Handle, TypeOK
<1>4. link' \in {"joining", "connecting", "up"} /\ failed' \in BOOLEAN
  BY DEF TypeOK, Joins, Connects, Sends, OtherMessage
<1> QED BY <1>2, <1>3, <1>4 DEF TypeOK

LEMMA ApplicationType ==
  ASSUME TypeOK, AppReceives
  PROVE  TypeOK'
<1>1. posted' \in 0..QueueSize
  BY LedConstantsOK DEF LedConstantsOK, TypeOK, AppReceives
<1>2. /\ lit' \subseteq Leds /\ blinkGPIOPin' \in Leds
      /\ blinkTimer' \in BOOLEAN /\ channel2Led' \in BOOLEAN
  BY DEF TypeOK, AppReceives, Leds, LedTurnOn, LedTurnOff, LedBlinkTurnOn, ShowSending,
         ShowFailure
<1>3. UNCHANGED <<link, failed, mqData, overtaken>>
  BY DEF AppReceives
<1> QED BY <1>1, <1>2, <1>3 DEF TypeOK

\* For every size of it, the application's queue keeps its bound, whatever the
\* manager passes on (ApplicationSendMessage).
THEOREM TypeCorrect == Spec => []TypeOK
<1>1. Init => TypeOK
  BY StartType DEF Init, TypeOK
<1>2. TypeOK /\ [Next]_vars => TypeOK'
  <2> SUFFICES ASSUME TypeOK, [Next]_vars PROVE TypeOK'
    OBVIOUS
  <2>1. CASE DeviceReboot
    BY <2>1, StartType DEF DeviceReboot, TypeOK
  <2>2. CASE Blink
    BY <2>2 DEF Blink, TypeOK
  <2>3. CASE UNCHANGED vars
    BY <2>3 DEF vars, TypeOK
  <2> QED BY <2>1, <2>2, <2>3, ManagerType, ApplicationType DEF Next
<1> QED BY <1>1, <1>2, PTL DEF Spec

-----------------------------------------------------------------------------
(* The flag *)

\* What was said before the network was joined cannot be taken for more.
EarlyWords ==
  /\ link = "joining" =>
       mqData \in {<<"OK", "OTHER">>, <<"OK", "CONNECT_WIFI">>,
                   <<"FAIL", "CONNECT_WIFI">>}
  /\ link = "joining" => ~channel2Led

\* The Wi-Fi LED's success is in the manager's copy only before the second
\* channel has ever blinked.
JoinedFirst == mqData = <<"OK", "CONNECT_WIFI">> => ~channel2Led

FlagInvariant ==
  /\ channel2Led \in BOOLEAN /\ blinkTimer \in BOOLEAN
  /\ EarlyWords /\ JoinedFirst /\ FlagIsBlink

LEMMA InitFlag == Init => FlagInvariant
  BY DEF Init, FlagInvariant, EarlyWords, JoinedFirst, FlagIsBlink, Blinks

\* The manager's steps leave the LEDs alone, and only the first of them can put
\* the Wi-Fi LED's success into its copy.
LEMMA ManagerKeepsFlag ==
  ASSUME FlagInvariant, Joins \/ Connects \/ Sends \/ OtherMessage
  PROVE  FlagInvariant'
<1>1. UNCHANGED <<blinkGPIOPin, blinkTimer, channel2Led>>
  BY DEF Joins, Connects, Sends, OtherMessage, Handle
<1>2. (channel2Led \in BOOLEAN /\ blinkTimer \in BOOLEAN /\ FlagIsBlink)'
  BY <1>1 DEF FlagInvariant, FlagIsBlink, Blinks
<1>3. CASE Joins
  <2>1. ~channel2Led'
    BY <1>1, <1>3 DEF FlagInvariant, EarlyWords, Joins
  <2>2. mqData' \in {<<"OK", "CONNECT_WIFI">>, <<"FAIL", "CONNECT_WIFI">>}
    BY <1>3 DEF Joins, Handle
  <2>3. QED
    BY <1>2, <2>1, <2>2 DEF FlagInvariant, EarlyWords, JoinedFirst
<1>4. CASE Connects \/ Sends
  <2>1. link' # "joining" /\ mqData' # <<"OK", "CONNECT_WIFI">>
    BY <1>4 DEF Connects, Sends, Handle
  <2>2. QED
    BY <1>2, <2>1 DEF FlagInvariant, EarlyWords, JoinedFirst
<1>5. CASE OtherMessage
  <2>1. mqData' = <<"OK", "OTHER">> /\ (link' = "joining" => link = "joining")
    BY <1>5 DEF OtherMessage, Handle
  <2>2. QED
    BY <1>1, <1>2, <2>1 DEF FlagInvariant, EarlyWords, JoinedFirst
<1>6. QED
  BY <1>3, <1>4, <1>5

\* The application sets the flag with the LED and clears it with the LED; where
\* it turns the timer to another LED, the flag was not set.
LEMMA ApplicationKeepsFlag ==
  ASSUME FlagInvariant, AppReceives
  PROVE  FlagInvariant'
<1>1. UNCHANGED <<link, mqData>>
  BY DEF AppReceives
<1>2. CASE mqData = <<"OK", "CONNECT_WIFI">>
  <2>1. blinkTimer' = TRUE /\ blinkGPIOPin' = "CHANNEL1_LED"
        /\ channel2Led' = channel2Led
    BY <1>2 DEF AppReceives, LedBlinkTurnOn
  <2>2. ~channel2Led
    BY <1>2 DEF FlagInvariant, JoinedFirst
  <2>3. QED
    BY <1>1, <2>1, <2>2
      DEF FlagInvariant, EarlyWords, JoinedFirst, FlagIsBlink, Blinks
<1>3. CASE mqData \in {<<"OK", "TCP_CONNECT">>, <<"OK", "SEND_DATA">>,
                       <<"ERROR", "SEND_DATA">>}
  <2>1. link # "joining"
    BY <1>3 DEF FlagInvariant, EarlyWords
  <2>2. \/ UNCHANGED <<blinkGPIOPin, blinkTimer, channel2Led>>
        \/ blinkTimer' = TRUE /\ blinkGPIOPin' = "CHANNEL2_LED"
           /\ channel2Led' = TRUE
        \/ blinkTimer' = FALSE /\ channel2Led' = FALSE
    BY <1>3 DEF AppReceives, LedBlinkTurnOn, ShowSending, ShowFailure,
                LedTurnOff
  <2>3. (channel2Led \in BOOLEAN /\ blinkTimer \in BOOLEAN /\ FlagIsBlink)'
    <3>1. CASE UNCHANGED <<blinkGPIOPin, blinkTimer, channel2Led>>
      BY <3>1 DEF FlagInvariant, FlagIsBlink, Blinks
    <3>2. CASE /\ blinkTimer' = TRUE /\ blinkGPIOPin' = "CHANNEL2_LED"
               /\ channel2Led' = TRUE
      BY <3>2 DEF FlagIsBlink, Blinks
    <3>3. CASE blinkTimer' = FALSE /\ channel2Led' = FALSE
      BY <3>3 DEF FlagIsBlink, Blinks
    <3>4. QED
      BY <2>2, <3>1, <3>2, <3>3
  <2>4. QED
    BY <1>1, <1>3, <2>1, <2>3 DEF FlagInvariant, EarlyWords, JoinedFirst
<1>4. CASE UNCHANGED <<blinkGPIOPin, blinkTimer, channel2Led>>
  BY <1>1, <1>4
    DEF FlagInvariant, EarlyWords, JoinedFirst, FlagIsBlink, Blinks
<1>5. \/ mqData = <<"OK", "CONNECT_WIFI">>
      \/ mqData = <<"OK", "TCP_CONNECT">>
      \/ mqData = <<"OK", "SEND_DATA">>
      \/ mqData = <<"ERROR", "SEND_DATA">>
      \/ UNCHANGED <<lit, blinkGPIOPin, blinkTimer, channel2Led>>
  BY Zenon DEF AppReceives
<1>6. QED
  BY <1>2, <1>3, <1>4, <1>5

\* For every length of the queue, the flag says whether the second channel's LED
\* is the one that blinks, although the application may read another message
\* than it was told of, or one of them twice.
THEOREM FlagCorrect == Spec => []FlagIsBlink
<1>1. FlagInvariant /\ [Next]_vars => FlagInvariant'
  <2> SUFFICES ASSUME FlagInvariant, [Next]_vars
               PROVE  FlagInvariant'
    OBVIOUS
  <2>1. CASE Joins \/ Connects \/ Sends \/ OtherMessage
    BY <2>1, ManagerKeepsFlag
  <2>2. CASE AppReceives
    BY <2>2, ApplicationKeepsFlag
  <2>3. CASE DeviceReboot
    BY <2>3 DEF DeviceReboot, FlagInvariant, EarlyWords, JoinedFirst,
                FlagIsBlink, Blinks
  <2>4. CASE Blink \/ UNCHANGED vars
    <3>1. UNCHANGED <<link, mqData, blinkGPIOPin, blinkTimer, channel2Led>>
      BY <2>4 DEF Blink, vars
    <3>2. QED
      BY <3>1 DEF FlagInvariant, EarlyWords, JoinedFirst, FlagIsBlink, Blinks
  <2>5. QED
    BY <2>1, <2>2, <2>3, <2>4 DEF Next
<1>2. FlagInvariant => FlagIsBlink
  BY DEF FlagInvariant
<1>3. QED
  BY <1>1, <1>2, InitFlag, PTL DEF Spec

-----------------------------------------------------------------------------
(* Progress *)

\* What the manager's copy says of the manager: joining's success is in it only
\* until the next message, an error of a payload only after a failure.
CopyFits ==
  /\ mqData = <<"OK", "CONNECT_WIFI">> => link = "connecting"
  /\ mqData = <<"ERROR", "SEND_DATA">> => failed

\* A success is shown, or the application has yet to read it.
Unread(m) == mqData = m /\ posted > 0

Shown ==
  /\ link # "joining" => IsSteady("WIFI_LED") \/ Unread(<<"OK", "CONNECT_WIFI">>)
  /\ link = "up" => IsSteady("CHANNEL1_LED") \/ Unread(<<"OK", "TCP_CONNECT">>)
  /\ link = "up" /\ ~failed =>
       Blinks("CHANNEL2_LED") \/ Unread(<<"OK", "TCP_CONNECT">>)

ProgressInvariant ==
  /\ FlagInvariant
  /\ posted \in Nat /\ overtaken \in BOOLEAN
  /\ CopyFits
  /\ ~overtaken => Shown

LEMMA InitProgress == Init => ProgressInvariant
<1> SUFFICES ASSUME Init PROVE ProgressInvariant
  OBVIOUS
<1>1. posted \in Nat /\ overtaken \in BOOLEAN /\ CopyFits
  BY DEF Init, CopyFits
<1>2. Shown
  BY DEF Init, Shown
<1> QED BY <1>1, <1>2, InitFlag DEF ProgressInvariant

\* The manager leaves the LEDs alone.  Going on from a success nobody has read
\* counts as overtaking it, and a success it passes on is in the queue even if the
\* queue was full: what is there is an address of the same copy.
LEMMA HandleProgress ==
  ASSUME ProgressInvariant, NEW m, Handle(m)
  PROVE  /\ posted' \in Nat /\ overtaken' \in BOOLEAN /\ mqData' = m
         /\ Passed(m) => posted' > 0
         /\ \A led : IsSteady(led)' = IsSteady(led) /\ Blinks(led)' = Blinks(led)
         /\ ~overtaken' => ~overtaken /\ (posted > 0 => mqData[1] # "OK")
<1>1. QueueSize \in Nat /\ QueueSize > 0
  BY LedConstantsOK DEF LedConstantsOK
<1>2. posted' \in Nat /\ (Passed(m) => posted' > 0)
  BY <1>1 DEF ProgressInvariant, Handle, Posted
<1>3. \A led : IsSteady(led)' = IsSteady(led) /\ Blinks(led)' = Blinks(led)
  BY DEF Handle, IsSteady, Blinks
<1>4. overtaken' \in BOOLEAN /\ (~overtaken' => ~overtaken /\ (posted > 0 => mqData[1] # "OK"))
  BY DEF ProgressInvariant, Handle
<1> QED BY <1>2, <1>3, <1>4 DEF Handle

\* What is shown when nothing is overtaken.
LEMMA ShownSoFar ==
  ASSUME Shown, posted > 0 => mqData[1] # "OK"
  PROVE  /\ link # "joining" => IsSteady("WIFI_LED")
         /\ link = "up" => IsSteady("CHANNEL1_LED")
         /\ link = "up" /\ ~failed => Blinks("CHANNEL2_LED")
<1>1. \A w : Unread(<<"OK", w>>) => FALSE
  BY DEF Unread
<1> QED BY <1>1 DEF Shown

LEMMA ManagerShows ==
  ASSUME ProgressInvariant, Joins \/ Connects \/ Sends \/ OtherMessage
  PROVE  ProgressInvariant'
<1>1. FlagInvariant'
  BY ManagerKeepsFlag DEF ProgressInvariant
<1>2. PICK m : /\ Handle(m)
               /\ \/ /\ m = <<"OK", "CONNECT_WIFI">> /\ link = "joining"
                     /\ link' = "connecting" /\ failed' = failed
                  \/ m = <<"FAIL", "CONNECT_WIFI">> /\ link = "joining" /\ UNCHANGED <<link, failed>>
                  \/ /\ m = <<"OK", "TCP_CONNECT">> /\ link = "connecting"
                     /\ link' = "up" /\ failed' = FALSE
                  \/ /\ m = <<"ERROR", "TCP_CONNECT">> /\ link = "connecting"
                     /\ UNCHANGED <<link, failed>>
                  \/ m = <<"OK", "SEND_DATA">> /\ UNCHANGED <<link, failed>>
                  \/ m = <<"ERROR", "SEND_DATA">> /\ failed' = TRUE /\ UNCHANGED link
                  \/ /\ m = <<"OK", "OTHER">> /\ failed' = failed
                     /\ link' = link \/ (link = "up" /\ link' = "connecting")
  BY DEF Joins, Connects, Sends, OtherMessage
<1>3. /\ posted' \in Nat /\ overtaken' \in BOOLEAN /\ mqData' = m
      /\ Passed(m) => posted' > 0
      /\ \A led : IsSteady(led)' = IsSteady(led) /\ Blinks(led)' = Blinks(led)
      /\ ~overtaken' => ~overtaken /\ (posted > 0 => mqData[1] # "OK")
  BY <1>2, HandleProgress
<1>4. CopyFits'
  BY <1>2, <1>3 DEF CopyFits
<1>5. ASSUME ~overtaken' PROVE Shown'
  <2>1. /\ link # "joining" => IsSteady("WIFI_LED")
        /\ link = "up" => IsSteady("CHANNEL1_LED")
        /\ link = "up" /\ ~failed => Blinks("CHANNEL2_LED")
    BY <1>3, <1>5, ShownSoFar DEF ProgressInvariant
  <2>2. /\ Passed(<<"OK", "CONNECT_WIFI">>) /\ Passed(<<"OK", "TCP_CONNECT">>)
    BY DEF Passed
  <2> QED BY <1>2, <1>3, <2>1, <2>2 DEF Shown, Unread
<1> QED BY <1>1, <1>3, <1>4, <1>5 DEF ProgressInvariant

\* Reading a success shows it; reading anything else takes nothing back that is to
\* be seen.
LEMMA ApplicationShows ==
  ASSUME ProgressInvariant, AppReceives
  PROVE  ProgressInvariant'
<1>1. FlagInvariant'
  BY ApplicationKeepsFlag DEF ProgressInvariant
<1>2. /\ posted' \in Nat /\ overtaken' \in BOOLEAN
      /\ UNCHANGED <<link, failed, mqData, overtaken>>
  BY DEF ProgressInvariant, AppReceives
<1>3. CopyFits'
  BY <1>2 DEF ProgressInvariant, CopyFits
<1>4. ASSUME ~overtaken PROVE Shown'
  <2>0. Shown /\ CopyFits /\ FlagIsBlink
    BY <1>4 DEF ProgressInvariant, FlagInvariant
  <2>1. CASE mqData = <<"OK", "CONNECT_WIFI">>
    <3>1. lit' = lit \cup {"WIFI_LED"} /\ blinkGPIOPin' = "CHANNEL1_LED"
      BY <2>1 DEF AppReceives, LedTurnOn, LedBlinkTurnOn
    <3>2. IsSteady("WIFI_LED")' /\ link = "connecting"
      BY <2>0, <2>1, <3>1 DEF IsSteady, Blinks, CopyFits
    <3> QED BY <1>2, <3>2 DEF Shown
  <2>2. CASE mqData = <<"OK", "TCP_CONNECT">>
    <3>1. /\ lit' = lit \cup {"CHANNEL1_LED"} /\ blinkGPIOPin' = "CHANNEL2_LED"
          /\ blinkTimer' = TRUE
      BY <2>2 DEF AppReceives, LedTurnOn, LedBlinkTurnOn
    <3>2. IsSteady("CHANNEL1_LED")' /\ Blinks("CHANNEL2_LED")'
      BY <3>1 DEF IsSteady, Blinks
    <3>3. link # "joining" => IsSteady("WIFI_LED")'
      BY <2>0, <2>2, <3>1 DEF Shown, Unread, IsSteady, Blinks
    <3> QED BY <1>2, <3>2, <3>3 DEF Shown
  <2>3. CASE mqData \notin {<<"OK", "CONNECT_WIFI">>, <<"OK", "TCP_CONNECT">>}
    <3>1. /\ link # "joining" => IsSteady("WIFI_LED")
          /\ link = "up" => IsSteady("CHANNEL1_LED")
          /\ link = "up" /\ ~failed => Blinks("CHANNEL2_LED")
      BY <2>0, <2>3 DEF Shown, Unread
    <3>2. CASE UNCHANGED <<lit, blinkGPIOPin, blinkTimer>>
      BY <1>2, <3>1, <3>2 DEF Shown, IsSteady, Blinks
    <3>3. CASE /\ mqData = <<"OK", "SEND_DATA">> /\ blinkGPIOPin' = "CHANNEL2_LED"
               /\ blinkTimer' = TRUE /\ lit' = lit
      BY <1>2, <3>1, <3>3 DEF Shown, IsSteady, Blinks
    <3>4. CASE /\ mqData = <<"ERROR", "SEND_DATA">> /\ lit' = lit \ {"CHANNEL2_LED"}
               /\ blinkTimer' = FALSE
      BY <1>2, <2>0, <3>1, <3>4 DEF Shown, IsSteady, Blinks, CopyFits
    <3> QED BY <2>3, <3>2, <3>3, <3>4
              DEF AppReceives, ShowSending, ShowFailure, LedBlinkTurnOn, LedTurnOff
  <2> QED BY <2>1, <2>2, <2>3
<1> QED BY <1>1, <1>2, <1>3, <1>4 DEF ProgressInvariant

LEMMA BlinkShows ==
  ASSUME ProgressInvariant, Blink
  PROVE  ProgressInvariant'
<1>1. /\ UNCHANGED <<link, failed, mqData, posted, blinkGPIOPin, blinkTimer,
                     channel2Led, overtaken>>
      /\ blinkTimer
      /\ \A led \in Leds : led # blinkGPIOPin => (led \in lit' <=> led \in lit)
  BY DEF Blink
<1>2. \A led \in Leds : (IsSteady(led) => IsSteady(led)') /\ Blinks(led)' = Blinks(led)
  BY <1>1 DEF IsSteady, Blinks
<1>3. {"WIFI_LED", "CHANNEL1_LED", "CHANNEL2_LED"} = Leds
  BY DEF Leds
<1>4. Shown => Shown'
  BY <1>1, <1>2, <1>3 DEF Shown, Unread
<1>5. FlagInvariant' /\ CopyFits'
  BY <1>1 DEF ProgressInvariant, FlagInvariant, EarlyWords, JoinedFirst, FlagIsBlink,
              Blinks, CopyFits
<1> QED BY <1>1, <1>4, <1>5 DEF ProgressInvariant

LEMMA ProgressStep == ProgressInvariant /\ [Next]_vars => ProgressInvariant'
<1> SUFFICES ASSUME ProgressInvariant, [Next]_vars PROVE ProgressInvariant'
  OBVIOUS
<1>1. CASE Joins \/ Connects \/ Sends \/ OtherMessage
  BY <1>1, ManagerShows
<1>2. CASE AppReceives
  BY <1>2, ApplicationShows
<1>3. CASE Blink
  BY <1>3, BlinkShows
<1>4. CASE DeviceReboot
  BY <1>4 DEF DeviceReboot, ProgressInvariant, FlagInvariant, EarlyWords, JoinedFirst,
              FlagIsBlink, Blinks, CopyFits, Shown
<1>5. CASE UNCHANGED vars
  BY <1>5 DEF vars, ProgressInvariant, FlagInvariant, EarlyWords, JoinedFirst,
              FlagIsBlink, Blinks, CopyFits, Shown, Unread, IsSteady
<1> QED BY <1>1, <1>2, <1>3, <1>4, <1>5 DEF Next

\* For every length of the queue: when the application has read what it was told and
\* no success was overtaken, the LEDs stand lit as far as the manager has got
\* (app_main_thread, application.c).
THEOREM ProgressCorrect == Spec => []ShowsProgress
<1>1. ProgressInvariant => ShowsProgress
  BY DEF ProgressInvariant, Shown, Unread, ShowsProgress
<1> QED BY <1>1, InitProgress, ProgressStep, PTL DEF Spec

\* And while payloads go out and none has failed, the second channel's blinks.
THEOREM SendingCorrect == Spec => []SendingIsShown
<1>1. ProgressInvariant => SendingIsShown
  BY DEF ProgressInvariant, Shown, Unread, SendingIsShown
<1> QED BY <1>1, InitProgress, ProgressStep, PTL DEF Spec
=============================================================================
