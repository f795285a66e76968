----------------------------- MODULE StatusLeds -----------------------------
(***************************************************************************)
(* The gateway's three status LEDs: which of its messages the network      *)
(* manager passes on to the application thread, the queue between them,    *)
(* what the application makes of a message, and the one blink timer.       *)
(*                                                                         *)
(* The manager posts the address of its own copy of the message it works   *)
(* on: the application reads whatever is there when it gets to it.         *)
(***************************************************************************)
EXTENDS Naturals

CONSTANT QueueSize   \* APPLICATION_MQ_SIZE

ASSUME LedConstantsOK == QueueSize \in Nat \ {0}

Leds == {"WIFI_LED", "CHANNEL1_LED", "CHANNEL2_LED"}

\* Messages the manager gets: what came of joining the network, of connecting
\* to the server, of sending, and anything else.
Messages == {"OK"} \X {"CONNECT_WIFI", "TCP_CONNECT", "SEND_DATA", "OTHER"}
            \cup {"FAIL"} \X {"CONNECT_WIFI"}
            \cup {"ERROR"} \X {"TCP_CONNECT", "SEND_DATA"}

VARIABLES
  link,          \* where the manager is: "joining", "connecting" or "up"
  failed,        \* a payload has failed since the connection was made
  mqData,        \* the manager's copy of the message it works on
  posted,        \* how many addresses of it are in the application's queue
  lit,           \* which LEDs have their pin set
  blinkGPIOPin,  \* the LED of the blink timer
  blinkTimer,    \* the blink timer runs
  channel2Led,   \* channel2Led
  overtaken      \* history: the manager has gone on from a success that the
                 \* application had not read

vars == <<link, failed, mqData, posted, lit, blinkGPIOPin, blinkTimer,
          channel2Led, overtaken>>

\* InitLed and the start of app_main_thread.
Init ==
  /\ link = "joining"
  /\ failed = FALSE
  /\ mqData = <<"OK", "OTHER">>
  /\ posted = 0
  /\ lit = {}
  /\ blinkGPIOPin = "WIFI_LED"
  /\ blinkTimer = TRUE
  /\ channel2Led = FALSE
  /\ overtaken = FALSE

-----------------------------------------------------------------------------
(* The manager                                                             *)

\* It passes on every error and failure, and two of the successes.
PassedWifi(m) == m[1] # "OK" \/ m[2] = "CONNECT_WIFI"
Passed(m) == m[1] # "OK" \/ m[2] \in {"CONNECT_WIFI", "TCP_CONNECT"}

\* ApplicationSendMessage: a full queue throws the message away.
PostedAlways(m) == IF Passed(m) THEN posted + 1 ELSE posted
Posted(m) == IF Passed(m) /\ posted < QueueSize THEN posted + 1 ELSE posted

\* NetworkManagerThread works on a message.
Handle(m) ==
  /\ mqData' = m
  /\ overtaken' = (overtaken \/ (posted > 0 /\ mqData[1] = "OK"))
  /\ posted' = Posted(m)
  /\ UNCHANGED <<lit, blinkGPIOPin, blinkTimer, channel2Led>>

Joins ==
  /\ link = "joining"
  /\ \/ Handle(<<"OK", "CONNECT_WIFI">>) /\ link' = "connecting"
     \/ Handle(<<"FAIL", "CONNECT_WIFI">>) /\ UNCHANGED link
  /\ UNCHANGED failed

Connects ==
  /\ link = "connecting"
  /\ \/ Handle(<<"OK", "TCP_CONNECT">>) /\ link' = "up" /\ failed' = FALSE
     \/ Handle(<<"ERROR", "TCP_CONNECT">>) /\ UNCHANGED <<link, failed>>

\* A payload is sent, or fails and is sent again.
Sends ==
  /\ link = "up"
  /\ \/ Handle(<<"OK", "SEND_DATA">>) /\ UNCHANGED failed
     \/ Handle(<<"ERROR", "SEND_DATA">>) /\ failed' = TRUE
  /\ UNCHANGED link

\* Steps on the way, acknowledgements, and a connection that is taken down
\* after a timeout, to be made again.
OtherMessage ==
  /\ Handle(<<"OK", "OTHER">>)
  /\ link' \in {link} \cup (IF link = "up" THEN {"connecting"} ELSE {})
  /\ UNCHANGED failed

\* DeviceReboot: the whole gateway starts again.
DeviceReboot ==
  /\ link' = "joining" /\ failed' = FALSE /\ mqData' = <<"OK", "OTHER">>
  /\ posted' = 0 /\ lit' = {} /\ blinkGPIOPin' = "WIFI_LED"
  /\ blinkTimer' = TRUE /\ channel2Led' = FALSE /\ overtaken' = FALSE

-----------------------------------------------------------------------------
(* The application and the LEDs                                            *)

LedBlinkTurnOnKeepsPin(pin) == blinkTimer' = TRUE /\ UNCHANGED blinkGPIOPin
LedBlinkTurnOn(pin) == blinkGPIOPin' = pin /\ blinkTimer' = TRUE

LedTurnOff(pin) ==
  lit' = lit \ {pin} /\ blinkTimer' = FALSE /\ UNCHANGED blinkGPIOPin

\* LedTurnOn of one LED, followed by LedBlinkTurnOn of the next.
LedTurnOn(pin) == lit' = lit \cup {pin}

\* The OK of a sent payload, which blinks only where an error has ended it.
ShowSending ==
  IF channel2Led THEN UNCHANGED <<lit, blinkGPIOPin, blinkTimer, channel2Led>>
  ELSE LedBlinkTurnOn("CHANNEL2_LED") /\ channel2Led' = TRUE /\ UNCHANGED lit

ShowFailureKeepsFlag == LedTurnOff("CHANNEL2_LED") /\ UNCHANGED channel2Led
ShowFailure == LedTurnOff("CHANNEL2_LED") /\ channel2Led' = FALSE

\* app_main_thread takes an address and copies what is there.
AppReceives ==
  /\ posted > 0
  /\ posted' = posted - 1
  /\ \/ /\ mqData = <<"OK", "CONNECT_WIFI">>
        /\ LedTurnOn("WIFI_LED") /\ LedBlinkTurnOn("CHANNEL1_LED")
        /\ UNCHANGED channel2Led
     \/ /\ mqData = <<"OK", "TCP_CONNECT">>
        /\ LedTurnOn("CHANNEL1_LED") /\ LedBlinkTurnOn("CHANNEL2_LED")
        /\ channel2Led' = TRUE
     \/ /\ mqData = <<"OK", "SEND_DATA">>
        /\ ShowSending
     \/ /\ mqData = <<"ERROR", "SEND_DATA">>
        /\ ShowFailure
     \/ /\ mqData[2] = "OTHER" \/ (mqData[1] # "OK" /\ mqData[2] # "SEND_DATA")
        /\ UNCHANGED <<lit, blinkGPIOPin, blinkTimer, channel2Led>>
  /\ UNCHANGED <<link, failed, mqData, overtaken>>

\* BlinkTimer, every second.
Blink ==
  /\ blinkTimer
  /\ lit' = IF blinkGPIOPin \in lit THEN lit \ {blinkGPIOPin}
            ELSE lit \cup {blinkGPIOPin}
  /\ UNCHANGED <<link, failed, mqData, posted, blinkGPIOPin, blinkTimer,
                 channel2Led, overtaken>>

Next ==
  \/ Joins \/ Connects \/ Sends \/ OtherMessage \/ DeviceReboot
  \/ AppReceives \/ Blink

Spec == Init /\ [][Next]_vars

-----------------------------------------------------------------------------
Blinks(pin) == blinkTimer /\ blinkGPIOPin = pin
IsSteady(pin) == pin \in lit /\ ~Blinks(pin)

\* Types; the application's queue keeps its bound.
TypeOK ==
  /\ link \in {"joining", "connecting", "up"} /\ failed \in BOOLEAN
  /\ mqData \in Messages /\ posted \in 0..QueueSize
  /\ lit \subseteq Leds /\ blinkGPIOPin \in Leds
  /\ blinkTimer \in BOOLEAN /\ channel2Led \in BOOLEAN /\ overtaken \in BOOLEAN

\* When the application has read what it was told, the Wi-Fi LED stands lit from
\* joining on and the first channel's from connecting on, through failed sends,
\* lost connections and errors that are read too late, as something else,
\* although one timer blinks for all three.  Only a success that is read too late
\* is not shown.
ShowsProgress ==
  posted = 0 /\ ~overtaken =>
    /\ link # "joining" => IsSteady("WIFI_LED")
    /\ link = "up" => IsSteady("CHANNEL1_LED")

\* Whatever the application reads instead of what it was told, its flag says
\* whether the second channel's LED is the one that blinks.
FlagIsBlink == channel2Led <=> Blinks("CHANNEL2_LED")

\* While payloads go out the second channel's LED blinks, until one of them has
\* failed since the connection was made: the application's case for a payload that
\* went out, which would turn it on again, is never reached.
SendingIsShown ==
  posted = 0 /\ ~overtaken /\ link = "up" /\ ~failed => Blinks("CHANNEL2_LED")
=============================================================================
