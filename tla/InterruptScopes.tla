--------------------------- MODULE InterruptScopes ---------------------------
(***************************************************************************)
(* How the server is asked to stop: GracefulInterruptHandler               *)
(* (signal_killer.py), a scope that installs a handler for SIGINT and puts *)
(* the former one back.  The accept loop has one scope, and so has every   *)
(* client task (iiot_tcp_async_server.py); the tasks interleave, so scopes *)
(* end in any order.                                                       *)
(***************************************************************************)
EXTENDS Integers

CONSTANTS
  N,           \* bound: scopes; 1 is the accept loop's, the others are clients'
  MaxSignals   \* bound: SIGINTs

Scopes  == 1..N
Default == 0   \* Python's own handler: KeyboardInterrupt
Unset   == -1

ASSUME ScopesOK ==
  /\ N \in Nat \ {0} /\ MaxSignals \in Nat

VARIABLES
  installed,    \* whose handler SIGINT runs
  saved,        \* original_handler of each scope
  entered, ended,  \* scopes, as sets
  released, interrupted,
  accepted,     \* tasks made so far, the accept loop included
  process,      \* "run", "killed" by KeyboardInterrupt, "exit"
  signals,
  inOrder       \* history: no scope has ended while another had the signal

vars == <<installed, saved, entered, ended, released, interrupted, accepted, process,
          signals, inOrder>>

Init ==
  /\ installed = Default /\ saved = [s \in Scopes |-> Unset]
  /\ entered = {} /\ ended = {} /\ released = {} /\ interrupted = {}
  /\ accepted = 1 /\ process = "run" /\ signals = 0
  /\ inOrder = TRUE

Open == entered \ ended
Live == entered \ released

-----------------------------------------------------------------------------
\* Mutant: the former handler is not asked for.
EnterUnsaved(s) ==
  /\ process = "run" /\ s <= accepted /\ \A t \in Scopes : t < s <=> t \in entered
  /\ entered' = entered \cup {s} /\ installed' = s
  /\ UNCHANGED <<saved, ended, released, interrupted, accepted, process, signals,
                 inOrder>>

\* Mutant: what is put back is the default, not the former handler.
EnterDefault(s) ==
  /\ process = "run" /\ s <= accepted /\ \A t \in Scopes : t < s <=> t \in entered
  /\ entered' = entered \cup {s} /\ installed' = s
  /\ saved' = [saved EXCEPT ![s] = Default]
  /\ UNCHANGED <<ended, released, interrupted, accepted, process, signals, inOrder>>

\* __enter__; tasks begin in the order in which they were made.
Enter(s) ==
  /\ process = "run" /\ s <= accepted /\ \A t \in Scopes : t < s <=> t \in entered
  /\ entered' = entered \cup {s} /\ installed' = s
  /\ saved' = [saved EXCEPT ![s] = installed]
  /\ UNCHANGED <<ended, released, interrupted, accepted, process, signals, inOrder>>

\* Mutant: a scope puts back what it found although it has done so before.
ReleaseAgain(s) == released' = released \cup {s} /\ installed' = saved[s]

\* release
Release(s) ==
  IF s \in released THEN UNCHANGED <<released, installed>>
  ELSE released' = released \cup {s} /\ installed' = saved[s]

\* SIGINT runs the installed handler, be its scope over or not.
Signal ==
  /\ process = "run" /\ signals < MaxSignals /\ signals' = signals + 1
  /\ IF installed = Default
       THEN process' = "killed" /\ UNCHANGED <<installed, released, interrupted>>
       ELSE /\ Release(installed)
            /\ interrupted' = interrupted \cup {installed} /\ UNCHANGED process
  /\ UNCHANGED <<saved, entered, ended, accepted, inOrder>>

\* The accept loop makes a client's task.
Accept ==
  /\ process = "run" /\ 1 \in Open \ interrupted /\ accepted < N
  /\ accepted' = accepted + 1
  /\ UNCHANGED <<installed, saved, entered, ended, released, interrupted, process,
                 signals, inOrder>>

\* A client's connection is lost, or an exception ends its task: the scope is left,
\* an interruption it has not noticed with it.
Leave(s) ==
  /\ process = "run" /\ s \in Open /\ s # 1
  /\ inOrder' = (inOrder /\ (s = installed \/ s \in released))
  /\ ended' = ended \cup {s} /\ Release(s)
  /\ UNCHANGED <<saved, entered, interrupted, accepted, process, signals>>

\* After its next connection or packet an interrupted task ends the process.
Notice(s) ==
  /\ process = "run" /\ s \in Open \cap interrupted
  /\ process' = "exit"
  /\ UNCHANGED <<installed, saved, entered, ended, released, interrupted, accepted,
                 signals, inOrder>>

Next ==
  \/ Signal \/ Accept
  \/ \E s \in Scopes : Enter(s) \/ Leave(s) \/ Notice(s)

Spec == Init /\ [][Next]_vars

-----------------------------------------------------------------------------
ScopesTypeOK ==
  /\ installed \in Scopes \cup {Default}
  /\ saved \in [Scopes -> Scopes \cup {Default, Unset}]
  /\ \A s \in entered : saved[s] \in entered \cup {Default}
  /\ entered \subseteq Scopes /\ ended \subseteq entered /\ released \subseteq entered
  /\ interrupted \subseteq released
  /\ installed # Default => installed \in entered
  /\ accepted \in 1..N /\ process \in {"run", "killed", "exit"}
  /\ signals \in 0..MaxSignals /\ inOrder \in BOOLEAN

\* Once the server accepts, no SIGINT kills it before one has been given to the
\* accept loop, in whatever order scopes come and go.
KilledOnlyAfterAsked == process = "killed" /\ 1 \in entered => 1 \in interrupted

\* Why: nobody puts Python's handler back before the accept loop has.
DefaultAfterRelease ==
  /\ 1 \in entered /\ installed = Default => 1 \in released
  /\ \A s \in entered : s # 1 /\ saved[s] = Default => 1 \in released
  /\ 1 \in released => 1 \in interrupted

AskedInvariant ==
  ScopesTypeOK /\ DefaultAfterRelease /\ KilledOnlyAfterAsked

\* As long as scopes have ended while they had the signal they are a stack: the
\* handler that is installed belongs to a scope that can still be asked.
InstalledIsLive == inOrder => installed \in Live \cup {Default}

\* Why: what a live scope puts back is the live scope entered before it.
Stacked ==
  inOrder =>
    /\ \A s \in Live : s <= installed
    /\ \A s \in Live : saved[s] < s /\ saved[s] \in Live \cup {Default}
    /\ \A s, t \in Live : t < s => t <= saved[s]

StackInvariant == ScopesTypeOK /\ Stacked /\ InstalledIsLive

\* Every SIGINT interrupts a task that is still there, or kills the process: none
\* is taken by a scope that is over, unless scopes have ended out of order.
SignalHeard ==
  [][signals' # signals /\ inOrder =>
       process' = "killed" \/ \E s \in Open : s \in interrupted' \ interrupted]_vars
=============================================================================
