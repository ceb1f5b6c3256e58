-------------------------- MODULE SkyPlayerProofs --------------------------
(***************************************************************************)
(* The player keeps its invariants, for any number of stars, starts and    *)
(* loops.                                                                  *)
(***************************************************************************)
EXTENDS SkyPlayer, TLAPS

\* The gain of the current play is connected, and every gain that is about to
\* be disconnected is an earlier one.
GainInv ==
  /\ master = IF playing THEN starts ELSE 0
  /\ playing => starts \in connected /\ starts # 0
  /\ \A t \in pending \cap Fade : t.chain \in Chain /\ t.chain <= starts /\ (playing => t.chain # starts)

\* What holds of the player between any two of its steps.
SkyInv == TypeOK /\ StoppedIsStill /\ OneSweep /\ GainInv

\* A timer that is to be cleared is never one that disconnects a gain.
LEMMA TimersApart == Timer \cap Fade = {}
  BY DEF Timer, Fade

\* Timers only ring or rest, and only a fade disconnects.
LEMMA TimerDoes ==
  ASSUME NEW t \in Timer \cup Fade
  PROVE  /\ t.does \in {"ring", "rest"} => t \in Timer
         /\ t.does = "disconnect" => t \in Fade /\ t.chain \in Chain
  BY DEF Timer, Fade

\* Ringing leaves a timer that rests the same star in the same play.
LEMMA RestOfRing ==
  ASSUME NEW t \in Timer
  PROVE  [t EXCEPT !.does = "rest"] \in Timer /\ [t EXCEPT !.does = "rest"].chain = t.chain
  BY DEF Timer

\* The timers of one play-through are all of its play.
LEMMA RingsTyped ==
  ASSUME NEW c \in Chain, NEW n \in 1..MaxLoops
  PROVE  Rings(c, n) \subseteq Timer /\ \A t \in Rings(c, n) : t.chain = c
  BY DEF Rings, Timer

\* The player starts silent.
LEMMA SkyInit == Init => SkyInv
<1> SUFFICES ASSUME Init PROVE SkyInv
  OBVIOUS
<1>1. TypeOK
  <2>1. 0 \in 0..MaxStarts /\ 0 \in 0..MaxLoops
    BY SkyPlayerAssumption
  <2> QED BY <2>1, Zenon DEF Init, TypeOK
<1>2. StoppedIsStill
  BY DEF Init, StoppedIsStill
<1>3. OneSweep
  BY DEF Init, OneSweep
<1>4. GainInv
  BY DEF Init, GainInv
<1> QED BY <1>1, <1>2, <1>3, <1>4 DEF SkyInv

\* Starting begins a play of its own.
LEMMA StartKeeps == SkyInv /\ start => SkyInv'
<1> SUFFICES ASSUME SkyInv, start PROVE SkyInv'
  OBVIOUS
<1> DEFINE c == starts + 1
<1>1. c \in Chain /\ c # 0 /\ starts' = c /\ starts # c /\ \A k \in Chain : k <= starts => k <= c /\ k # c
  BY SkyPlayerAssumption DEF SkyInv, TypeOK, start, Chain
<1>2. Rings(c, 1) \subseteq Timer /\ \A t \in Rings(c, 1) : t.chain = c
  BY <1>1, RingsTyped, SkyPlayerAssumption
<1>3. pending \cap Timer = {} /\ frames = {}
  BY DEF SkyInv, StoppedIsStill, start
<1>4. pending' = pending \cup Rings(c, 1) /\ timers' = timers \cup Rings(c, 1) /\ loop' = 1
      /\ swept' = TRUE /\ frames' = {c} /\ frame' = c /\ playing' = TRUE /\ ringing' = ringing
      /\ master' = c /\ connected' = connected \cup {c}
  BY <1>1, <1>3 DEF start, Play
<1> HIDE DEF c
<1>5. TypeOK'
  <2>1. 1 \in 0..MaxLoops /\ c \in 0..MaxStarts
    BY <1>1, SkyPlayerAssumption DEF Chain
  <2> QED BY <1>1, <1>2, <1>4, <2>1 DEF SkyInv, TypeOK
<1>6. StoppedIsStill'
  BY <1>2, <1>3, <1>4 DEF StoppedIsStill
<1>7. OneSweep'
  BY <1>1, <1>2, <1>3, <1>4 DEF OneSweep
<1>8. GainInv'
  <2>1. \A t \in pending' \cap Fade : t \in pending \cap Fade
    BY <1>2, <1>4, TimersApart
  <2> QED BY <1>1, <1>4, <2>1 DEF SkyInv, GainInv
<1> QED BY <1>5, <1>6, <1>7, <1>8 DEF SkyInv

\* Stopping clears whatever is still to run, except what disconnects gains.
LEMMA StopKeeps == SkyInv /\ stop => SkyInv'
<1> SUFFICES ASSUME SkyInv, stop PROVE SkyInv'
  OBVIOUS
<1>1. FadeOut \subseteq Fade /\ \A t \in FadeOut : t.chain = starts /\ starts \in Chain
  BY DEF SkyInv, TypeOK, GainInv, FadeOut, Fade, Chain
<1>2. pending' \cap Timer = {} /\ pending' \subseteq Fade
  BY <1>1, TimersApart DEF SkyInv, TypeOK, StoppedIsStill, stop, Uncleared
<1>3. frames' = {}
  BY DEF SkyInv, OneSweep, stop
<1>4. TypeOK'
  BY <1>2, <1>3 DEF SkyInv, TypeOK, stop, LeftRinging
<1>5. StoppedIsStill'
  BY <1>2, <1>3 DEF StoppedIsStill, stop, LeftRinging
<1>6. OneSweep'
  BY <1>2, <1>3 DEF OneSweep, stop
<1>7. GainInv'
  <2>1. \A t \in pending' \cap Fade : t \in pending \cap Fade \/ t \in FadeOut
    BY DEF stop, Uncleared
  <2> QED BY <1>1, <2>1 DEF SkyInv, GainInv, stop, Chain, TypeOK
<1> QED BY <1>4, <1>5, <1>6, <1>7 DEF SkyInv

\* The sweep goes on, or begins the next loop of the same play.
LEMMA SweepKeeps ==
  ASSUME NEW c \in Chain
  PROVE  SkyInv /\ Sweep(c) => SkyInv'
<1> SUFFICES ASSUME SkyInv, Sweep(c) PROVE SkyInv'
  OBVIOUS
<1>1. playing /\ c = starts /\ frames = {c}
  BY DEF SkyInv, OneSweep, Sweep
<1>2. CASE frames' = frames /\ frame' = c /\ swept' = TRUE /\ UNCHANGED <<loop, pending, timers>>
  BY <1>1, <1>2 DEF SkyInv, TypeOK, StoppedIsStill, OneSweep, GainInv, Sweep
<1>3. CASE loop < MaxLoops /\ Play(c, loop + 1)
  <2> DEFINE n == loop + 1
  <2>1. n \in 1..MaxLoops /\ n \in 0..MaxLoops
    BY <1>3, SkyPlayerAssumption DEF SkyInv, TypeOK
  <2>2. Rings(c, n) \subseteq Timer /\ \A t \in Rings(c, n) : t.chain = c
    BY <2>1, RingsTyped
  <2>3. pending' = pending \cup Rings(c, n) /\ timers' = timers \cup Rings(c, n) /\ loop' = n
        /\ swept' = TRUE /\ frames' = {c} /\ frame' = c
        /\ UNCHANGED <<playing, starts, ringing, master, connected>>
    BY <1>1, <1>3 DEF Play, Sweep
  <2> HIDE DEF n
  <2>4. TypeOK'
    BY <2>1, <2>2, <2>3 DEF SkyInv, TypeOK
  <2>5. StoppedIsStill' /\ OneSweep'
    BY <1>1, <2>2, <2>3 DEF SkyInv, StoppedIsStill, OneSweep
  <2>6. GainInv'
    BY <2>2, <2>3, TimersApart DEF SkyInv, GainInv
  <2> QED BY <2>4, <2>5, <2>6 DEF SkyInv
<1> QED BY <1>2, <1>3 DEF Sweep

\* A timer runs.
LEMMA TimerKeeps == SkyInv /\ RunTimer => SkyInv'
<1> SUFFICES ASSUME SkyInv, NEW t \in pending, Ring(t) \/ Rest(t) \/ Disconnect(t) PROVE SkyInv'
  BY DEF RunTimer
<1>1. t \in Timer \cup Fade
  BY DEF SkyInv, TypeOK
<1>2. CASE Ring(t)
  <2> DEFINE r == [t EXCEPT !.does = "rest"]
  <2>1. t \in Timer /\ t.star \in Star
    BY <1>1, <1>2, TimerDoes DEF Ring, Timer
  <2>2. r \in Timer /\ r.chain = t.chain /\ r \notin Fade
    BY <2>1, RestOfRing, TimersApart
  <2>3. pending' = (pending \ {t}) \cup {r} /\ timers' = timers \cup {r} /\ ringing' = ringing \cup {t.star}
        /\ UNCHANGED <<playing, starts, loop, frames, frame, swept, master, connected>>
    BY <1>2 DEF Ring
  <2> HIDE DEF r
  <2>4. playing
    BY <2>1 DEF SkyInv, StoppedIsStill
  <2>5. TypeOK'
    BY <2>1, <2>2, <2>3 DEF SkyInv, TypeOK
  <2>6. StoppedIsStill' /\ OneSweep'
    BY <2>1, <2>2, <2>3, <2>4 DEF SkyInv, StoppedIsStill, OneSweep
  <2>7. GainInv'
    BY <2>2, <2>3 DEF SkyInv, GainInv
  <2> QED BY <2>5, <2>6, <2>7 DEF SkyInv
<1>3. CASE Rest(t)
  BY <1>3 DEF Rest, SkyInv, TypeOK, StoppedIsStill, OneSweep, GainInv
<1>4. CASE Disconnect(t)
  <2>1. t \in Fade
    BY <1>1, <1>4, TimerDoes DEF Disconnect
  <2>2. playing => t.chain # starts
    BY <2>1 DEF SkyInv, GainInv
  <2> QED BY <1>4, <2>2 DEF Disconnect, SkyInv, TypeOK, StoppedIsStill, OneSweep, GainInv
<1> QED BY <1>2, <1>3, <1>4

\* The invariant holds throughout.
THEOREM SkyInvariant == Spec => []SkyInv
<1>1. Init => SkyInv
  BY SkyInit
<1>2. SkyInv /\ [Next]_vars => SkyInv'
  <2> SUFFICES ASSUME SkyInv, [Next]_vars PROVE SkyInv'
    OBVIOUS
  <2>1. CASE Click \/ Hide
    BY <2>1, StartKeeps, StopKeeps DEF Click, Hide
  <2>2. CASE \E c \in Chain : Sweep(c)
    BY <2>2, SweepKeeps
  <2>3. CASE RunTimer
    BY <2>3, TimerKeeps
  <2>4. CASE UNCHANGED vars
    BY <2>4 DEF vars, SkyInv, TypeOK, StoppedIsStill, OneSweep, GainInv
  <2> QED BY <2>1, <2>2, <2>3, <2>4 DEF Next
<1> QED BY <1>1, <1>2, PTL DEF Spec

\* Whatever is clicked and however the timers fall, no star, sound or chain is
\* ever in a state that sky.js has no name for.
THEOREM SkyIsTyped == Spec => []TypeOK
<1>1. SkyInv => TypeOK
  BY DEF SkyInv
<1> QED BY <1>1, SkyInvariant, PTL

\* Once stopped, the sky stays still.
THEOREM StopEndsEverything == Spec => []StoppedIsStill
<1>1. SkyInv => StoppedIsStill
  BY DEF SkyInv
<1> QED BY <1>1, SkyInvariant, PTL

\* One sweep runs while the sky plays.
THEOREM SweepsAreOne == Spec => []OneSweep
<1>1. SkyInv => OneSweep
  BY DEF SkyInv
<1> QED BY <1>1, SkyInvariant, PTL

\* What plays is connected.
THEOREM PlayIsHeard == Spec => []PlayingIsHeard
<1>1. SkyInv => PlayingIsHeard
  BY DEF SkyInv, GainInv, PlayingIsHeard
<1> QED BY <1>1, SkyInvariant, PTL
============================================================================
