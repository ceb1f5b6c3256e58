----------------------------- MODULE SkyPlayer -----------------------------
(***************************************************************************)
(* The front page's player (public/scripts/sky.js): a button that plays    *)
(* the constellation in a loop and stops it.  The browser runs one         *)
(* callback at a time: a click, a visibility change, an animation frame or *)
(* a timer, in whatever order it gets to them.                             *)
(***************************************************************************)
EXTENDS Naturals, FiniteSets

CONSTANTS
  Star,       \* the stars of the visible constellation
  MaxStarts,  \* bounds: how often the button is pressed to play
  MaxLoops    \* and how often the sky is played through at a time

ASSUME SkyPlayerAssumption ==
  Star # {} /\ MaxStarts \in Nat \ {0} /\ MaxLoops \in Nat \ {0}

VARIABLES
  playing,    \* the button's data-playing
  starts,     \* how often it was started
  loop,       \* how many times it has begun to play through since
  frames,     \* the animation frames requested, by the start they go back to
  frame,      \* the one that is remembered
  pending,    \* the timers the browser has yet to run
  timers,     \* the timers that are remembered
  swept,      \* whether playhead and lit lines show
  ringing,    \* the stars that do
  master,     \* the gain that notes go through, 0 for none, named by its start
  connected   \* the gains that are connected to the output

vars == <<playing, starts, loop, frames, frame, pending, timers, swept, ringing, master, connected>>

Chain == 1..MaxStarts
\* A star's timers: to ring, and 380 ms later to stop ringing.
Timer == [star : Star, does : {"ring", "rest"}, chain : Chain, loop : 1..MaxLoops]
\* A gain that fades out is disconnected 400 ms later; nobody remembers that timer.
Fade == [does : {"disconnect"}, chain : Chain]

TypeOK ==
  /\ playing \in BOOLEAN /\ swept \in BOOLEAN
  /\ starts \in 0..MaxStarts /\ loop \in 0..MaxLoops
  /\ frames \subseteq Chain /\ frame \in Chain \cup {0}
  /\ pending \subseteq Timer \cup Fade /\ timers \subseteq Timer
  /\ ringing \subseteq Star
  /\ master \in Chain \cup {0} /\ connected \subseteq Chain

Init ==
  /\ playing = FALSE /\ starts = 0 /\ loop = 0
  /\ frames = {} /\ frame = 0
  /\ pending = {} /\ timers = {}
  /\ swept = FALSE /\ ringing = {}
  /\ master = 0 /\ connected = {}

Rings(c, n) == [star : Star, does : {"ring"}, chain : {c}, loop : {n}]

\* play: every star's timer, and the first frame of the sweep.
Play(c, n) ==
  /\ loop' = n
  /\ pending' = pending \cup Rings(c, n)
  /\ timers' = timers \cup Rings(c, n)
  /\ swept' = TRUE
  /\ frames' = frames \cup {c} /\ frame' = c

start ==
  /\ ~playing /\ starts < MaxStarts
  /\ playing' = TRUE /\ starts' = starts + 1
  /\ master' = starts' /\ connected' = connected \cup {starts'}
  /\ Play(starts', 1)
  /\ UNCHANGED ringing

\* mistake: the remembered timers are forgotten, not cleared
Uncleared_All == pending
Uncleared == pending \ timers

\* mistake: a gain is assumed to be there
FadeOut_Always == {[does |-> "disconnect", chain |-> master]}
FadeOut == IF master = 0 THEN {} ELSE {[does |-> "disconnect", chain |-> master]}

\* mistake: stars are left to their timers
LeftRinging_Now == ringing
LeftRinging == {}

stop ==
  /\ playing' = FALSE
  /\ frames' = frames \ {frame}
  /\ pending' = Uncleared \cup FadeOut
  /\ timers' = {}
  /\ master' = 0
  /\ swept' = FALSE /\ ringing' = LeftRinging
  /\ UNCHANGED <<starts, loop, frame, connected>>

\* mistake: the button always starts
Click_AlwaysStarts ==
  \/ start
  \/ /\ playing /\ starts < MaxStarts
     /\ starts' = starts + 1
     /\ master' = starts' /\ connected' = connected \cup {starts'}
     /\ Play(starts', 1)
     /\ UNCHANGED <<playing, ringing>>
Click == (playing /\ stop) \/ start

\* The page is hidden, whether it plays or not.
Hide == stop

\* sweep: one frame asks for the next, or begins the next loop.
Sweep(c) ==
  /\ c \in frames
  /\ \/ /\ frames' = frames /\ frame' = c
        /\ swept' = TRUE
        /\ UNCHANGED <<loop, pending, timers>>
     \/ loop < MaxLoops /\ Play(c, loop + 1)
  /\ UNCHANGED <<playing, starts, ringing, master, connected>>

Ring(t) ==
  /\ t \in pending /\ t.does = "ring"
  /\ ringing' = ringing \cup {t.star}
  /\ pending' = (pending \ {t}) \cup {[t EXCEPT !.does = "rest"]}
  /\ timers' = timers \cup {[t EXCEPT !.does = "rest"]}
  /\ UNCHANGED <<playing, starts, loop, frames, frame, swept, master, connected>>

Rest(t) ==
  /\ t \in pending /\ t.does = "rest"
  /\ ringing' = ringing \ {t.star}
  /\ pending' = pending \ {t}
  /\ UNCHANGED <<playing, starts, loop, frames, frame, timers, swept, master, connected>>

\* mistake: the gain that is current by now is disconnected
Disconnect_Current(t) ==
  /\ t \in pending /\ t.does = "disconnect"
  /\ connected' = connected \ {master}
  /\ pending' = pending \ {t}
  /\ UNCHANGED <<playing, starts, loop, frames, frame, timers, swept, ringing, master>>

Disconnect(t) ==
  /\ t \in pending /\ t.does = "disconnect"
  /\ connected' = connected \ {t.chain}
  /\ pending' = pending \ {t}
  /\ UNCHANGED <<playing, starts, loop, frames, frame, timers, swept, ringing, master>>

RunTimer == \E t \in pending : Ring(t) \/ Rest(t) \/ Disconnect(t)

Next == Click \/ Hide \/ (\E c \in Chain : Sweep(c)) \/ RunTimer

Spec == Init /\ [][Next]_vars

\* The browser gets to every timer it has, unless it is cleared first.
FairSpec == Spec /\ \A t \in Timer \cup Fade : WF_vars(Ring(t) \/ Rest(t) \/ Disconnect(t))

----------------------------------------------------------------------------
\* Once stopped, nothing moves or rings, and nothing that is still to run can
\* start it again: what runs is exactly what a stop can find.
StoppedIsStill ==
  /\ ~playing => frames = {} /\ ~swept /\ ringing = {} /\ pending \cap Timer = {}
  /\ pending \cap Timer \subseteq timers

\* However it is started and stopped, one sweep runs while it plays, the one
\* that is remembered, and every timer is of that sweep.
OneSweep ==
  /\ frames = IF playing THEN {starts} ELSE {}
  /\ playing => frame = starts
  /\ \A t \in pending \cap Timer : t.chain = starts

\* The notes that are played can be heard: the timer that disconnects the gain
\* of a play that was stopped never gets hold of a later one.
PlayingIsHeard == playing => master = starts /\ master \in connected

\* And the gain of a play that was stopped is disconnected in the end.
OldGainsGo == \A c \in Chain : c \in connected /\ master # c ~> c \notin connected

\* No star rings on: it rests, or the sky is stopped.
RingingEnds == \A s \in Star : s \in ringing ~> s \notin ringing
============================================================================
