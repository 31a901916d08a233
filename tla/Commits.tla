------------------------------- MODULE Commits -------------------------------
(***************************************************************************)
(* Commits that wait: the acquire fences, commit timers and fifo barriers  *)
(* of handlers/compositor.rs and state.rs, the one wakeup timer of         *)
(* backend/mod.rs, and the flips, blankings and unplugs that release fifo  *)
(* barriers.                                                               *)
(*                                                                         *)
(* The state of a surface applies in the order of its commits, each when   *)
(* its blockers have cleared.  Deadlines and the timer are kept as the     *)
(* ticks that are left.                                                    *)
(***************************************************************************)
EXTENDS Integers, Sequences

CONSTANTS
  Surfaces,       \* root surfaces of clients
  Toplevels,      \* those of windows; the others are layers
  Timed, Fifo,    \* the surfaces whose clients use commit-timing, fifo,
  Fenced,         \* or buffers with fences
  Quiet,          \* surfaces whose commits damage nothing, such as hidden windows
  Outputs,
  MaxDelay,       \* bound on how far ahead a commit is timed
  MaxHeld,        \* bound on the commits a surface has waiting
  None

VARIABLES
  place,    \* [Surfaces -> the output it is on, "aside" or "nowhere"]
  barrier,  \* the surfaces whose fifo barrier is set
  held,     \* [Surfaces -> Seq(CommitType)], the commits that wait
  timer,    \* Wakeups.commit: the ticks left, or None
  mode,     \* [Outputs -> Modes]
  damage,   \* the outputs with damage no frame has drawn
  flight,   \* the outputs with a frame in flight
  paused    \* UdevData.paused

vars == <<place, barrier, held, timer, mode, damage, flight, paused>>

Delays == 0..MaxDelay
Modes  == {"on", "off", "gone"}

\* A surface in no list of the compositor, such as an unmapped window; a window of the
\* Space that lies on no output.
Places == Outputs \cup {"nowhere", "aside"}

CommitType ==
  [ due    : Delays \cup {None},  \* barrier of its commit timer, None once signalled
    fence  : BOOLEAN,             \* its buffer is still in use
    fifo   : BOOLEAN,             \* waits for the barrier and sets it again
    buffer : BOOLEAN ]            \* attaches a buffer

ASSUME SetsAssumption ==
  /\ Toplevels \subseteq Surfaces /\ Quiet \subseteq Surfaces
  /\ {Timed, Fifo, Fenced} \subseteq SUBSET Surfaces
ASSUME BoundsAssumption == MaxDelay \in Nat /\ MaxHeld \in Nat \ {0}
ASSUME NamesAssumption ==
  None \notin Nat /\ {"nowhere", "aside"} \cap Outputs = {}

TypeOK ==
  /\ place \in [Surfaces -> Places]
  /\ barrier \subseteq Surfaces
  /\ held \in [Surfaces -> Seq(CommitType)]
  /\ timer \in Delays \cup {None}
  /\ mode \in [Outputs -> Modes]
  /\ damage \subseteq Outputs
  /\ flight \subseteq Outputs
  /\ paused \in BOOLEAN

-----------------------------------------------------------------------------
(* Applying commits.                                                       *)

\* What for_each_surface visits.
Known(pl, s) == pl[s] # "nowhere"

\* The first n commits of a queue can apply, given the barrier of their surface.
Ready(q, set, n) ==
  \A i \in 1..n : /\ q[i].due = None
                  /\ ~q[i].fence
                  /\ q[i].fifo => ~set /\ \A j \in 1..(i - 1) : ~q[j].fifo

\* How many do.
ReadyCount(q, set) ==
  CHOOSE n \in 0..Len(q) : Ready(q, set, n) /\ (n < Len(q) => ~Ready(q, set, n + 1))

\* Where a surface is after its first n commits: a window maps with a buffer, on the
\* first output if there is one, and unmaps without.
Moved(s, q, n, p, primary) ==
  CASE n = 0 \/ s \notin Toplevels -> p
    [] n # 0 /\ s \in Toplevels /\ ~q[n].buffer -> "nowhere"
    [] OTHER -> IF p # "nowhere" /\ \A i \in 1..n : q[i].buffer THEN p ELSE primary

\* The outputs the Space could list first.
Primaries ==
  IF \A o \in Outputs : mode[o] = "gone" THEN {"aside"} ELSE {o \in Outputs : mode[o] # "gone"}

\* A surface that was at p, when the step ends.  The layers of an output go with it.
Stays(s, p) ==
  IF p \in Outputs /\ mode'[p] = "gone"
  THEN IF s \in Toplevels THEN "aside" ELSE "nowhere"
  ELSE p

\* Mutant: the surfaces that were signalled are not resumed.
ResumeNobody(S, q, set) ==
  /\ held' = q /\ barrier' = set
  /\ place' = [s \in Surfaces |-> Stays(s, place[s])]
  /\ damage' = damage

\* blocker_cleared, for the clients of the surfaces in S, with the queues q and the
\* barriers set: what is ready applies.
Resume(S, q, set) ==
  \E primary \in Primaries :
    LET n     == [s \in Surfaces |-> IF s \in S THEN ReadyCount(q[s], s \in set) ELSE 0]
        moved == [s \in Surfaces |-> Moved(s, q[s], n[s], place[s], primary)]
        drawn == {s \in Surfaces : n[s] > 0 /\ (s \notin Quiet \/ moved[s] # place[s])}
    IN  /\ held' = [s \in Surfaces |-> SubSeq(q[s], n[s] + 1, Len(q[s]))]
        /\ barrier' = set \cup {s \in Surfaces : \E i \in 1..n[s] : q[s][i].fifo}
        /\ place' = [s \in Surfaces |-> Stays(s, moved[s])]
        /\ damage' = {o \in Outputs : /\ mode'[o] # "gone"
                                                /\ \/ o \in damage
                                                   \/ \E s \in drawn : o \in {place[s], moved[s]}}

\* The deadlines next_commit_deadline finds.
Pending(q, pl) ==
  {d \in Delays : \E s \in Surfaces : Known(pl, s) /\ \E i \in 1..Len(q[s]) : q[s][i].due = d}

Earliest(D) == IF D = {} THEN None ELSE CHOOSE d \in D : \A e \in D : d <= e

Init ==
  /\ place = [s \in Surfaces |-> "nowhere"]
  /\ barrier = {}
  /\ held = [s \in Surfaces |-> <<>>]
  /\ timer = None
  /\ mode \in [Outputs -> {"on", "gone"}]
  /\ damage = {o \in Outputs : mode[o] = "on"}
  /\ flight = {}
  /\ paused = FALSE

-----------------------------------------------------------------------------
(* Requests of clients.                                                    *)

\* get_layer_surface: the layer is in the map of its output before its first commit.
NewLayer(s, o) ==
  /\ s \notin Toplevels
  /\ place[s] = "nowhere" /\ held[s] = <<>> /\ s \notin barrier
  /\ mode[o] # "gone"
  /\ place' = [place EXCEPT ![s] = o]
  /\ UNCHANGED <<barrier, held, timer, mode, damage, flight, paused>>

\* Mutant: the timer is set for the newest commit.
ArmNewest(c) == IF c.due = None THEN timer ELSE c.due

\* The pre-commit hook arms the timer for the earliest deadline that is pending.
Armed(c) == IF c.due = None THEN timer ELSE Earliest(Pending(held, place) \cup {c.due})

\* wl_surface.commit: behind the commits that wait, if there are any.
Commit(s, c) ==
  /\ Len(held[s]) < MaxHeld
  /\ c.due # None => s \in Timed
  /\ c.fifo => s \in Fifo
  /\ c.fence => s \in Fenced /\ c.buffer
  /\ ~c.buffer => s \in Toplevels
  /\ timer' = Armed(c)
  /\ UNCHANGED <<mode, flight, paused>>
  /\ Resume({s}, [held EXCEPT ![s] = Append(@, c)], barrier)

\* The surface is destroyed.
Destroyed(s) ==
  /\ place' = [place EXCEPT ![s] = "nowhere"]
  /\ held' = [held EXCEPT ![s] = <<>>]
  /\ barrier' = barrier \ {s}
  /\ damage' = damage \cup (Outputs \cap {place[s]})
  /\ UNCHANGED <<timer, mode, flight, paused>>

\* A layout pass moves a window of the Space to the first output.
Relocated(s, o) ==
  /\ s \in Toplevels /\ place[s] = "aside" /\ mode[o] # "gone"
  /\ place' = [place EXCEPT ![s] = o]
  /\ damage' = damage \cup {o}
  /\ UNCHANGED <<barrier, held, timer, mode, flight, paused>>

-----------------------------------------------------------------------------
(* Blockers clear.                                                         *)

\* The fence of a buffer signals and resumes its client.
FenceSignals(s, i) ==
  /\ held[s][i].fence
  /\ UNCHANGED <<timer, mode, flight, paused>>
  /\ Resume({s}, [held EXCEPT ![s][i].fence = FALSE], barrier)

\* Mutant: barriers are signalled a tick early.
SignalledEarly(q) ==
  [i \in 1..Len(q) |-> IF q[i].due \in {0, 1} THEN [q[i] EXCEPT !.due = None] ELSE q[i]]

\* signal_until: the barriers of a surface that are due.
Signalled(q) ==
  [i \in 1..Len(q) |-> IF q[i].due = 0 THEN [q[i] EXCEPT !.due = None] ELSE q[i]]

\* Mutant: the timer is not set again.
NeverAgain(q, pl) == None

\* reschedule_commit_timer.  The timer that fired is spent.
Rescheduled(q, pl) == Earliest(Pending(q, pl))

\* The timer fires: release_commit_timers, then reschedule_commit_timer.
TimerFires ==
  /\ timer = 0
  /\ UNCHANGED <<mode, flight, paused>>
  /\ LET due == {s \in Surfaces : Known(place, s) /\ Signalled(held[s]) # held[s]}
     IN  Resume(due, [s \in Surfaces |-> IF s \in due THEN Signalled(held[s]) ELSE held[s]],
                barrier)
  /\ timer' = Rescheduled(held', place')

\* Mutant: the delay to a deadline that has passed is not held at zero.
LessThanNone(d) == IF d = None THEN d ELSE d - 1

\* Time::elapsed saturates.
Less(d) == IF d \in {None, 0} THEN d ELSE d - 1

\* Time passes, whether or not the loop has served the timer.
Tick ==
  /\ timer' = Less(timer)
  /\ held' = [s \in Surfaces |->
       [i \in 1..Len(held[s]) |-> [held[s][i] EXCEPT !.due = Less(@)]]]
  /\ UNCHANGED <<place, barrier, mode, damage, flight, paused>>

-----------------------------------------------------------------------------
(* Outputs.                                                                *)

\* release_fifo_barriers, for an output.
ReleaseFifo(o) ==
  LET here == {s \in barrier : place[s] = o}
  IN  Resume(here, held, barrier \ here)

\* A frame with the damage is queued (module SessionLock: a live output with damage
\* renders).
Render(o) ==
  /\ mode[o] = "on" /\ ~paused /\ o \in damage \ flight
  /\ damage' = damage \ {o}
  /\ flight' = flight \cup {o}
  /\ UNCHANGED <<place, barrier, held, timer, mode, paused>>

\* Mutant: a flip releases nothing.
FlipKeepsBarriers(o) ==
  /\ o \in flight
  /\ flight' = flight \ {o}
  /\ UNCHANGED <<place, barrier, held, timer, mode, damage, paused>>

\* frame_finish ends with the barriers of its output.
FrameFinish(o) ==
  /\ o \in flight
  /\ flight' = flight \ {o}
  /\ UNCHANGED <<timer, mode, paused>>
  /\ ReleaseFifo(o)

\* set_output_power(off) cancels the frame and releases its waiters.
PowerOff(o) ==
  /\ mode[o] = "on" /\ ~paused
  /\ mode' = [mode EXCEPT ![o] = "off"]
  /\ flight' = flight \ {o}
  /\ UNCHANGED <<timer, paused>>
  /\ ReleaseFifo(o)

\* set_output_power(on): the next frame is drawn from nothing.
PowerOn(o) ==
  /\ mode[o] = "off"
  /\ mode' = [mode EXCEPT ![o] = "on"]
  /\ damage' = damage \cup {o}
  /\ UNCHANGED <<place, barrier, held, timer, flight, paused>>

\* connector_disconnected releases the waiters before the output leaves the Space.
Unplug(o) ==
  /\ mode[o] # "gone"
  /\ mode' = [mode EXCEPT ![o] = "gone"]
  /\ flight' = flight \ {o}
  /\ UNCHANGED <<timer, paused>>
  /\ ReleaseFifo(o)

\* A new output, under the windows in S of those that lay on none.
Plug(o, S) ==
  /\ mode[o] = "gone"
  /\ mode' = [mode EXCEPT ![o] = "on"]
  /\ damage' = damage \cup {o}
  /\ place' = [s \in Surfaces |-> IF s \in S THEN o ELSE place[s]]
  /\ UNCHANGED <<barrier, held, timer, flight, paused>>

\* PauseSession cancels the frames and releases nobody; ActivateSession redraws.
Pause ==
  /\ ~paused
  /\ paused' = TRUE
  /\ flight' = {}
  /\ UNCHANGED <<place, barrier, held, timer, mode, damage>>

\* Mutant: frames that were cancelled are not drawn again.
ResumeUnchanged ==
  /\ paused
  /\ paused' = FALSE
  /\ UNCHANGED <<place, barrier, held, timer, mode, damage, flight>>

Activate ==
  /\ paused
  /\ paused' = FALSE
  /\ damage' = damage \cup {o \in Outputs : mode[o] = "on"}
  /\ UNCHANGED <<place, barrier, held, timer, mode, flight>>

-----------------------------------------------------------------------------
Next ==
  \/ \E s \in Surfaces :
       \/ \E o \in Outputs : NewLayer(s, o) \/ Relocated(s, o)
       \/ \E c \in CommitType : Commit(s, c)
       \/ Destroyed(s)
       \/ \E i \in 1..Len(held[s]) : FenceSignals(s, i)
  \/ TimerFires \/ Tick
  \/ \E o \in Outputs :
       \/ Render(o) \/ FrameFinish(o)
       \/ PowerOff(o) \/ PowerOn(o)
       \/ Unplug(o)
       \/ \E S \in SUBSET {s \in Surfaces : place[s] = "aside"} : Plug(o, S)
  \/ Pause \/ Activate

Spec == Init /\ [][Next]_vars

\* Time passes, the loop serves the timer, redraws and the kernel's events, and clients
\* finish drawing.
FairSpec ==
  /\ Spec
  /\ WF_vars(Tick) /\ WF_vars(TimerFires)
  /\ \A o \in Outputs : WF_vars(Render(o)) /\ WF_vars(FrameFinish(o))
  /\ \A s \in Surfaces : WF_vars(held[s] # <<>> /\ FenceSignals(s, 1))

-----------------------------------------------------------------------------
(* What the waiting promises.                                              *)

\* A commit waits for something: nothing that could apply is left in a queue, whoever
\* cleared its last blocker, and in whatever order they cleared.
NoReadyCommitWaits ==
  \A s \in Surfaces : held[s] # <<>> => ~Ready(held[s], s \in barrier, 1)

\* One timer is enough: it never fires later than the earliest deadline of a surface that
\* stays known (not of a window, which maps and unmaps), however commits, destruction and
\* the timer follow each other.
TimerCovers ==
  \A s \in Surfaces \ Toplevels : \A i \in 1..Len(held[s]) :
    Known(place, s) /\ held[s][i].due # None => timer # None /\ timer <= held[s][i].due

\* Commits stay in order and none applies before the time it asked for: behind a commit
\* that is not due nothing leaves the queue, unless the surface is destroyed.
HeadWaitsForItsTime ==
  \A s \in Surfaces :
    held[s] # <<>> /\ held[s][1].due \notin {None, 0} =>
      Len(held'[s]) >= Len(held[s]) \/ Destroyed(s)

NotBeforeItsTime == [][HeadWaitsForItsTime]_vars

\* A surface on an output that is on, and whose fifo barrier is set, has a flip to wait
\* for: blanking, unplugging and a VT switch do not lose it.
BarrierHasFlip ==
  \A s \in barrier \ Quiet : \A o \in Outputs :
    place[s] = o /\ mode[o] = "on" /\ ~paused => o \in damage \cup flight

Advances(s) == Len(held'[s]) < Len(held[s])

\* The head of the queue of a layer does not wait for a time for ever: the timer is always
\* set again, also when commits came in while it was due.
TimedCommitsApply ==
  \A s \in Surfaces \ Toplevels :
    <>[]Known(place, s) =>
      \/ []<>(held[s] = <<>> \/ held[s][1].due = None)
      \/ []<><<Advances(s)>>_vars

\* A fifo queue moves on while its surface stays on an output that is on.
FifoMovesOn ==
  \A s \in Surfaces \ Quiet : \A o \in Outputs :
    <>[](place[s] = o /\ mode[o] = "on" /\ ~paused) =>
      []<>(s \notin barrier) \/ []<><<Advances(s)>>_vars
=============================================================================
