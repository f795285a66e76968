------------------------ MODULE InterruptScopesProofs ------------------------
(***************************************************************************)
(* Proofs about InterruptScopes, for any number of scopes and signals.     *)
(***************************************************************************)
EXTENDS InterruptScopes, TLAPS

LEMMA TypeInit == Init => ScopesTypeOK
  BY ScopesOK DEF ScopesOK, Init, ScopesTypeOK, Scopes, Default, Unset

LEMMA Numbers ==
  /\ Scopes \subseteq Nat /\ Default \notin Scopes /\ Unset \notin Scopes
  /\ Default # Unset /\ 1 \in Scopes /\ Default = 0
  BY ScopesOK DEF ScopesOK, Scopes, Default, Unset

LEMMA TypeStep == ScopesTypeOK /\ [Next]_vars => ScopesTypeOK'
  <1> SUFFICES ASSUME ScopesTypeOK, [Next]_vars PROVE ScopesTypeOK'
    OBVIOUS
  <1> USE Numbers
  <1>1. CASE UNCHANGED vars
    BY <1>1 DEF vars, ScopesTypeOK
  <1>2. CASE Signal
    <2>0. signals' \in 0..MaxSignals
      <3>1. MaxSignals \in Nat /\ signals \in 0..MaxSignals
        BY ScopesOK DEF ScopesOK, ScopesTypeOK
      <3>2. signals < MaxSignals /\ signals' = signals + 1
        BY <1>2 DEF Signal
      <3> QED BY ONLY <3>1, <3>2
    <2>1. CASE installed = Default
      BY <1>2, <2>0, <2>1 DEF Signal, ScopesTypeOK
    <2>2. CASE installed # Default
      <3>2. UNCHANGED <<saved, entered, ended, accepted, process, inOrder>>
            /\ Release(installed)
            /\ interrupted' = interrupted \cup {installed}
        BY <1>2, <2>2 DEF Signal
      <3>3. installed' \in entered \cup {Default} /\ released' = released \cup {installed}
        BY <2>2, <3>2 DEF Release, ScopesTypeOK
      <3> QED BY <2>0, <2>2, <3>2, <3>3 DEF ScopesTypeOK
    <2> QED BY <2>1, <2>2
  <1>3. CASE Accept
    BY <1>3, ScopesOK DEF ScopesOK, Accept, ScopesTypeOK
  <1>4. ASSUME NEW s \in Scopes, Enter(s) PROVE ScopesTypeOK'
    BY <1>4 DEF Enter, ScopesTypeOK
  <1>5. ASSUME NEW s \in Scopes, Leave(s) PROVE ScopesTypeOK'
    BY <1>5 DEF Leave, Open, Release, ScopesTypeOK
  <1>6. ASSUME NEW s \in Scopes, Notice(s) PROVE ScopesTypeOK'
    BY <1>6 DEF Notice, ScopesTypeOK
  <1> QED BY <1>1, <1>2, <1>3, <1>4, <1>5, <1>6 DEF Next

\* Scopes are entered before they end, are released or are interrupted, what a
\* scope puts back belongs to one entered before, and so does the handler that is
\* installed (__enter__ and release, signal_killer.py).
THEOREM ScopesTypeCorrect == Spec => []ScopesTypeOK
  BY TypeInit, TypeStep, PTL DEF Spec

LEMMA AskedStep == AskedInvariant /\ [Next]_vars => AskedInvariant'
  <1> SUFFICES ASSUME AskedInvariant, [Next]_vars
               PROVE  DefaultAfterRelease' /\ KilledOnlyAfterAsked'
    BY TypeStep DEF AskedInvariant
  <1> USE Numbers DEF AskedInvariant, DefaultAfterRelease, KilledOnlyAfterAsked
  <1>1. CASE UNCHANGED vars
    BY <1>1 DEF vars
  <1>2. CASE Signal
    <2>1. CASE installed = Default
      BY <1>2, <2>1 DEF Signal
    <2>2. CASE installed # Default
      BY <1>2, <2>2 DEF Signal, Release, ScopesTypeOK
    <2> QED BY <2>1, <2>2
  <1>3. CASE Accept
    BY <1>3 DEF Accept
  <1>4. ASSUME NEW s \in Scopes, Enter(s)
        PROVE  DefaultAfterRelease' /\ KilledOnlyAfterAsked'
    <2>1. s \notin entered /\ (s # 1 => 1 \in entered)
      BY <1>4, ScopesOK DEF ScopesOK, Enter, Scopes
    <2> QED BY <1>4, <2>1 DEF Enter, ScopesTypeOK
  <1>5. ASSUME NEW s \in Scopes, Leave(s)
        PROVE  DefaultAfterRelease' /\ KilledOnlyAfterAsked'
    BY <1>5 DEF Leave, Open, Release, ScopesTypeOK
  <1>6. ASSUME NEW s \in Scopes, Notice(s)
        PROVE  DefaultAfterRelease' /\ KilledOnlyAfterAsked'
    BY <1>6 DEF Notice
  <1> QED BY <1>1, <1>2, <1>3, <1>4, <1>5, <1>6 DEF Next

\* No SIGINT kills the accepting server before one was given to its accept loop
\* (signal_killer.py), whatever order the clients' scopes end in.
THEOREM AskedCorrect == Spec => []KilledOnlyAfterAsked
  <1>1. Init => AskedInvariant
    BY TypeInit DEF Init, AskedInvariant, DefaultAfterRelease, KilledOnlyAfterAsked
  <1>2. AskedInvariant => KilledOnlyAfterAsked
    BY DEF AskedInvariant
  <1> QED BY <1>1, <1>2, AskedStep, PTL DEF Spec

LEMMA StackStep == StackInvariant /\ [Next]_vars => StackInvariant'
  <1> SUFFICES ASSUME StackInvariant, [Next]_vars, inOrder'
               PROVE  Stacked' /\ InstalledIsLive'
    BY TypeStep DEF StackInvariant, Stacked, InstalledIsLive
  <1> USE Numbers DEF StackInvariant, Stacked, InstalledIsLive, Live
  <1>a. inOrder
    BY DEF Next, vars, Signal, Accept, Enter, Leave, Notice
  <1> USE <1>a
  <1>0. /\ ScopesTypeOK /\ Live \subseteq Nat
        /\ installed \in Live \cup {Default}
    BY DEF ScopesTypeOK
  <1>1. CASE UNCHANGED vars
    BY <1>1 DEF vars
  <1>2. ASSUME installed # Default, Release(installed), entered' = entered,
               UNCHANGED saved
        PROVE  Stacked' /\ InstalledIsLive'
    <2>1. Live' = Live \ {installed} /\ installed' = saved[installed]
          /\ installed \in Live /\ saved[installed] \in Nat
      BY <1>0, <1>2 DEF Release
    <2>2. \A s \in Live' : s < installed
      BY <1>0, <2>1
    <2> QED BY <1>0, <1>2, <2>1, <2>2
  <1>3. CASE Signal
    BY <1>2, <1>3 DEF Signal
  <1>4. CASE Accept
    BY <1>4 DEF Accept
  <1>5. ASSUME NEW s \in Scopes, Enter(s) PROVE Stacked' /\ InstalledIsLive'
    <2>1. \A t \in entered : t < s
      BY <1>0, <1>5 DEF Enter, ScopesTypeOK
    <2>2. /\ Live' = Live \cup {s} /\ s \notin released /\ s \notin entered
          /\ installed' = s /\ saved' = [saved EXCEPT ![s] = installed]
      BY <1>0, <1>5, <2>1 DEF Enter, ScopesTypeOK
    <2>3. saved'[s] = installed /\ \A t \in Live : saved'[t] = saved[t] /\ t < s
      BY <1>0, <2>1, <2>2 DEF ScopesTypeOK
    <2>4. installed < s
      BY <1>0, <2>1
    <2>5. \A t \in Live' : t <= installed'
      BY <1>0, <2>2, <2>3
    <2>6. \A t \in Live' : saved'[t] < t /\ saved'[t] \in Live' \cup {Default}
      BY <1>0, <2>2, <2>3, <2>4
    <2>7. \A t, u \in Live' : u < t => u <= saved'[t]
      BY <1>0, <2>2, <2>3, <2>4
    <2> QED BY <2>2, <2>5, <2>6, <2>7
  <1>6. ASSUME NEW s \in Scopes, Leave(s) PROVE Stacked' /\ InstalledIsLive'
    <2>1. CASE s \in released
      BY <1>6, <2>1 DEF Leave, Release
    <2>2. CASE s \notin released
      BY <1>2, <1>6, <2>2 DEF Leave
    <2> QED BY <2>1, <2>2
  <1>7. ASSUME NEW s \in Scopes, Notice(s) PROVE Stacked' /\ InstalledIsLive'
    BY <1>7 DEF Notice
  <1> QED BY <1>1, <1>3, <1>4, <1>5, <1>6, <1>7 DEF Next

\* Scopes that end in order leave no dead handler installed (signal_killer.py).
THEOREM LiveCorrect == Spec => []InstalledIsLive
  <1>1. Init => StackInvariant
    BY TypeInit, Numbers DEF Init, StackInvariant, Stacked, InstalledIsLive, Live
  <1>2. StackInvariant => InstalledIsLive
    BY DEF StackInvariant
  <1> QED BY <1>1, <1>2, StackStep, PTL DEF Spec

\* A scope that has ended has been released.
EndedReleased == ended \subseteq released

LEMMA EndedStep == EndedReleased /\ [Next]_vars => EndedReleased'
  <1> SUFFICES ASSUME EndedReleased, [Next]_vars PROVE EndedReleased'
    OBVIOUS
  <1>1. ASSUME NEW s \in Scopes, Leave(s) PROVE EndedReleased'
    BY <1>1 DEF Leave, Release, EndedReleased
  <1>2. CASE Signal
    BY <1>2 DEF Signal, Release, EndedReleased
  <1> QED BY <1>1, <1>2
          DEF Next, vars, Accept, Enter, Notice, EndedReleased

\* The scope that takes a signal in time is one that is still open and has not
\* been asked before.
LEMMA SignalReaches ==
  ASSUME StackInvariant, EndedReleased, [Next]_vars, signals' # signals, inOrder
  PROVE  process' = "killed" \/ \E s \in Open : s \in interrupted' \ interrupted
<1>1. Signal
  BY DEF Next, vars, Accept, Enter, Leave, Notice
<1>2. CASE installed = Default
  BY <1>1, <1>2 DEF Signal
<1>3. CASE installed # Default
  <2>1. installed \in Live
    BY <1>3 DEF StackInvariant, InstalledIsLive
  <2>2. installed \in Open /\ installed \notin interrupted
    BY <2>1 DEF Live, Open, EndedReleased, StackInvariant, ScopesTypeOK
  <2>3. interrupted' = interrupted \cup {installed}
    BY <1>1, <1>3 DEF Signal
  <2> QED BY <2>2, <2>3
<1> QED BY <1>2, <1>3

\* As long as scopes end in order no SIGINT is lost (signal_killer.py).
THEOREM HeardCorrect == Spec => SignalHeard
  <1>1. Init => StackInvariant /\ EndedReleased
    BY TypeInit, Numbers
    DEF Init, StackInvariant, Stacked, InstalledIsLive, Live, EndedReleased
  <1>2. StackInvariant /\ EndedReleased /\ [Next]_vars
          => [signals' # signals /\ inOrder =>
                process' = "killed" \/ \E s \in Open : s \in interrupted' \ interrupted]_vars
    BY SignalReaches
  <1> QED BY <1>1, <1>2, StackStep, EndedStep, PTL DEF Spec, SignalHeard
=============================================================================
