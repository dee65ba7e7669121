---------------------------- MODULE TimerService ----------------------------
(***************************************************************************)
(* What the hard timers of RT-Thread promise, without ticks that wrap and  *)
(* without a list: every armed timer counts down once per tick, and before *)
(* the tick's handler ends every timer whose count has run out has had its *)
(* callback, those due first being called first.  Module Timer implements  *)
(* this specification.                                                     *)
(***************************************************************************)
EXTENDS Integers

CONSTANTS
  Timer,   \* the timer objects
  Times    \* the durations timers are given

VARIABLES
  made,      \* the timers that exist
  armed,     \* those that count down
  left,      \* [Timer -> Int] ticks until expiry, 0 for those that do not
  periodic,  \* [Timer -> BOOLEAN]
  time,      \* [Timer -> Times] the duration the next start takes
  phase,     \* "idle", "expire" or "callback" of the tick handler
  again      \* the running callback's timer is to be armed again

svars == <<made, armed, left, periodic, time, phase, again>>

Init ==
  /\ made = {} /\ armed = {}
  /\ left = [t \in Timer |-> 0]
  /\ periodic = [t \in Timer |-> FALSE]
  /\ time \in [Timer -> Times]
  /\ phase = "idle" /\ again = {}

Calling == phase \in {"idle", "callback"}

Make(t) ==
  /\ Calling /\ t \notin made
  /\ made' = made \cup {t}
  /\ \E b \in BOOLEAN, n \in Times :
       /\ periodic' = [periodic EXCEPT ![t] = b]
       /\ time' = [time EXCEPT ![t] = n]
  /\ UNCHANGED <<armed, left, phase, again>>

\* A start always counts from now, also that of an armed timer.
Start(t) ==
  /\ Calling /\ t \in made
  /\ armed' = armed \cup {t}
  /\ left' = [left EXCEPT ![t] = time[t]]
  /\ again' = again \ {t}
  /\ UNCHANGED <<made, periodic, time, phase>>

\* A stopped timer does not expire, even if its own callback is running.
Stop(t) ==
  /\ Calling /\ t \in made
  /\ armed' = armed \ {t}
  /\ left' = [left EXCEPT ![t] = 0]
  /\ again' = again \ {t}
  /\ UNCHANGED <<made, periodic, time, phase>>

Destroy(t) ==
  /\ Calling /\ t \in made
  /\ made' = made \ {t}
  /\ armed' = armed \ {t}
  /\ left' = [left EXCEPT ![t] = 0]
  /\ again' = again \ {t}
  /\ UNCHANGED <<periodic, time, phase>>

\* A new duration or mode counts from the next start or expiry on.
Configure(t) ==
  /\ Calling /\ t \in made
  /\ \E b \in BOOLEAN, n \in Times :
       /\ periodic' = [periodic EXCEPT ![t] = b]
       /\ time' = [time EXCEPT ![t] = n]
  /\ UNCHANGED <<made, armed, left, phase, again>>

Tick ==
  /\ phase = "idle"
  /\ phase' = "expire"
  /\ left' = [t \in Timer |-> IF t \in armed THEN left[t] - 1 ELSE left[t]]
  /\ UNCHANGED <<made, armed, periodic, time, again>>

Due == {t \in armed : left[t] <= 0}

\* The callback of a timer that is due starts; no other is due earlier.
Expire(t) ==
  /\ phase = "expire" /\ t \in Due
  /\ \A u \in Due : left[t] <= left[u]
  /\ phase' = "callback"
  /\ armed' = armed \ {t}
  /\ left' = [left EXCEPT ![t] = 0]
  /\ again' = IF periodic[t] THEN {t} ELSE {}
  /\ UNCHANGED <<made, periodic, time>>

\* A periodic timer is armed again unless its callback started, stopped or
\* destroyed it or turned it into a one-shot timer.
Return ==
  /\ phase = "callback"
  /\ phase' = "expire"
  /\ LET rearm == {t \in again : periodic[t]}
     IN  /\ armed' = armed \cup rearm
         /\ left' = [t \in Timer |-> IF t \in rearm THEN time[t] ELSE left[t]]
  /\ again' = {}
  /\ UNCHANGED <<made, periodic, time>>

\* The handler ends only when nothing is due.
Finish ==
  /\ phase = "expire" /\ Due = {}
  /\ phase' = "idle"
  /\ UNCHANGED <<made, armed, left, periodic, time, again>>

Next ==
  \/ \E t \in Timer : Make(t) \/ Start(t) \/ Stop(t) \/ Destroy(t) \/ Configure(t)
                        \/ Expire(t)
  \/ Tick \/ Return \/ Finish

Spec == Init /\ [][Next]_svars

=============================================================================
