--------------------------- MODULE ConfigRegister ---------------------------
(***************************************************************************)
(* What the configuration store promises the gateway: one value in force,  *)
(* one that a restart comes back to.  Storing may pass through the factory *)
(* value, because the page is erased before it is written, but never       *)
(* through anything else, and a restart never invents a value.  All this   *)
(* until a write is broken off in the middle.                              *)
(***************************************************************************)
CONSTANTS Configs, Factory

VARIABLES
  value,   \* the configuration in force
  safe,    \* the configuration the next start would load
  busy,    \* "no", "store" or "clear": what is under way
  sound    \* no write was broken off in the middle

vars == <<value, safe, busy, sound>>

Init == value = Factory /\ safe = Factory /\ busy = "no" /\ sound = TRUE

Set ==
  /\ busy = "no" /\ busy' = "store"
  /\ value' \in Configs /\ UNCHANGED safe

Clear == busy = "no" /\ busy' = "clear" /\ UNCHANGED <<value, safe>>

\* The old configuration is gone, the new one not yet there.
Lose == busy # "no" /\ safe' = Factory /\ UNCHANGED <<value, busy>>

Finish ==
  /\ busy # "no" /\ busy' = "no"
  /\ safe' = IF busy = "store" THEN value ELSE Factory
  /\ UNCHANGED value

\* The flash refused: what a restart comes back to stays as it is.
Fail == busy # "no" /\ busy' = "no" /\ UNCHANGED <<value, safe>>

Restart == value' = safe /\ busy' = "no" /\ UNCHANGED safe

Works == Set \/ Clear \/ Lose \/ Finish \/ Fail \/ Restart

\* Torn: from then on nothing is promised.
Tear == sound' = FALSE

Next == (Works /\ UNCHANGED sound) \/ Tear

Spec == Init /\ [][Next]_vars
=============================================================================
