----------------------------- MODULE SessionLock -----------------------------
(***************************************************************************)
(* The session lock over several DRM outputs: LockPhase and LockFrame of   *)
(* state.rs, the handlers of handlers/session_lock.rs and                  *)
(* handlers/output_power.rs, the session and hotplug events of             *)
(* backend/udev.rs, and its render loop (module Crtc).                     *)
(*                                                                         *)
(* The compositor is one thread in a calloop event loop.  A turn of the    *)
(* loop first dispatches events, each to one handler that runs to its end, *)
(* and then runs the redraw callbacks the handlers left (insert_idle);     *)
(* callbacks never interleave with handlers.  An action is one handler or  *)
(* one callback.                                                           *)
(***************************************************************************)
EXTENDS Crtc, FiniteSets

CONSTANT Outputs        \* the CRTCs an output can be connected to

VARIABLES
  out,        \* [Outputs -> Outs], the outputs (module Crtc)
  lock,       \* LockPhase
  paused,     \* UdevData.paused: another session owns the display
  draining    \* the loop is running the redraw callbacks of this turn

vars == <<out, lock, paused, draining>>

LockPhases == {"Unlocked", "Locking", "Locked"}

TypeOK == /\ out \in [Outputs -> Outs]
          /\ lock \in LockPhases
          /\ paused \in BOOLEAN
          /\ draining \in BOOLEAN

-----------------------------------------------------------------------------
IsLocked(phase) == phase # "Unlocked"

\* What output_elements draws in a phase.
Scene(phase) == IF IsLocked(phase) THEN "lock" ELSE "desk"

\* Mutants: a queued lock frame is enough; blanked outputs are waited for.
SendLockedOnQueued(phase, outs) ==
  IF /\ phase = "Locking"
     /\ \A o \in Outputs : outs[o].conn /\ ~outs[o].off => outs[o].lockFrame # "None"
  THEN "Locked" ELSE phase
SendLockedWaitsForOff(phase, outs) ==
  IF /\ phase = "Locking"
     /\ \A o \in Outputs : outs[o].conn => outs[o].lockFrame = "Presented"
  THEN "Locked" ELSE phase

\* maybe_send_locked: the phase it leaves, given the phase and the outputs.
MaybeSendLocked(phase, outs) ==
  IF /\ phase = "Locking"
     /\ \A o \in Outputs : outs[o].conn /\ ~outs[o].off => outs[o].lockFrame = "Presented"
  THEN "Locked" ELSE phase

\* Mutant: the marks of the last lock stay.
KeepLockFrames(outs) == outs

ResetLockFrames(outs) ==
  [o \in Outputs |-> IF outs[o].conn THEN [outs[o] EXCEPT !.lockFrame = "None"] ELSE outs[o]]

ScheduleAll(outs) == [o \in Outputs |-> ScheduleRender(outs[o])]

CanScheduleAll(outs) == \A o \in Outputs : CanSchedule(outs[o])

\* A surface commit: it damages the outputs in S and asks for a redraw of all.
Commit(outs, S) ==
  ScheduleAll([o \in Outputs |->
    IF outs[o].conn /\ o \in S THEN [outs[o] EXCEPT !.dirty = TRUE] ELSE outs[o]])

\* release_fifo_barriers: commits that waited for the barriers apply, if there are
\* any (within the bound on callbacks).
Released(outs) ==
  {outs} \cup (IF CanScheduleAll(outs) THEN {Commit(outs, S) : S \in SUBSET Outputs} ELSE {})

\* What connector_connected maps: a new Output, whose first render is scheduled.
NewOutput(r) == ScheduleRender([r EXCEPT !.conn = TRUE])

Init == /\ \E C \in SUBSET Outputs :
             out = [o \in Outputs |-> 
                      IF o \in C THEN NewOutput(Gone("Idle", 0)) ELSE Gone("Idle", 0)]
        /\ lock = "Unlocked"
        /\ paused = FALSE
        /\ draining = FALSE

-----------------------------------------------------------------------------
(* Client requests.                                                        *)

ClientCommit(S) ==
  /\ ~draining /\ CanScheduleAll(out)
  /\ out' = Commit(out, S)
  /\ UNCHANGED <<lock, paused, draining>>

\* ext_session_lock_manager_v1.lock.  A second locker is turned away.
Lock ==
  /\ ~draining /\ CanScheduleAll(out)
  /\ lock = "Unlocked"
  /\ out' = ScheduleAll(ResetLockFrames(out))
  /\ lock' = MaybeSendLocked("Locking", out')
  /\ UNCHANGED <<paused, draining>>

\* unlock_and_destroy, which the protocol allows only once `locked` was sent.
Unlock ==
  /\ ~draining /\ CanScheduleAll(out)
  /\ lock = "Locked"
  /\ out' = ScheduleAll(ResetLockFrames(out))
  /\ lock' = "Unlocked"
  /\ UNCHANGED <<paused, draining>>

\* set_output_power(off).  A driver that refuses changes nothing, and a paused
\* device always refuses.
PowerOff(o) ==
  /\ ~draining /\ ~paused
  /\ out[o].conn /\ ~out[o].off
  /\ out' \in Released([out EXCEPT ![o] = [DpmsOff(out[o]) EXCEPT !.off = TRUE]])
  /\ lock' = MaybeSendLocked(lock, out')
  /\ UNCHANGED <<paused, draining>>

PoweredOn(r) == ScheduleRender([DpmsOn(r) EXCEPT !.off = FALSE])

\* set_output_power(on).
PowerOn(o) ==
  /\ ~draining
  /\ out[o].conn /\ out[o].off /\ out[o].idles < MaxIdles
  /\ out' = [out EXCEPT ![o] = PoweredOn(out[o])]
  /\ UNCHANGED <<lock, paused, draining>>

\* The first input event while outputs are blanked wakes all of them
\* (wake_outputs_if_off).  Input is suspended with the session.
WakeOutputs ==
  /\ ~draining /\ ~paused
  /\ \E o \in Outputs : out[o].off
  /\ \A o \in Outputs : out[o].off => out[o].idles < MaxIdles
  /\ out' = [o \in Outputs |-> IF out[o].off THEN PoweredOn(out[o]) ELSE out[o]]
  /\ UNCHANGED <<lock, paused, draining>>

-----------------------------------------------------------------------------
(* Session and hotplug events.                                             *)

\* PauseSession resets every repaint entry, also one an unplugged output left.
\* Cancelling the frames fails on the outputs in F when the device is already lost;
\* those keep their pending frames.
Pause(F) ==
  /\ ~draining /\ ~paused
  /\ paused' = TRUE
  /\ out' = [o \in Outputs |->
       LET idle == [out[o] EXCEPT !.state = "Idle"]
       IN  IF ~out[o].conn THEN idle
           ELSE [IF o \in F THEN idle ELSE DropFrames(idle) EXCEPT !.shown = "other"]]
  /\ UNCHANGED <<lock, draining>>

\* Activating the device drops what is left in the pipeline.  What the other session
\* left on the panel stays until something replaces it.
Activated(r) == ResetBuffers(DropFrames([r EXCEPT !.state = "Idle", !.shown = "other"]))

\* Blanked outputs are blanked again and the others redrawn.
Resumed(r) ==
  CASE ~r.conn         -> [r EXCEPT !.state = "Idle"]
    [] r.conn /\ r.off -> DpmsOff(Activated(r))
    [] OTHER           -> ScheduleRender(Activated(r))

\* ActivateSession.  The driver may refuse to blank the outputs in R, which nobody is
\* told.
Resume(R) ==
  /\ ~draining /\ paused
  /\ R \subseteq {o \in Outputs : out[o].off}
  /\ \A o \in Outputs : out[o].conn /\ ~out[o].off => out[o].idles < MaxIdles
  /\ paused' = FALSE
  /\ out' = [o \in Outputs |-> IF o \in R THEN Activated(out[o]) ELSE Resumed(out[o])]
  /\ UNCHANGED <<lock, draining>>

\* connector_connected.  When the driver cannot initialize the output the
\* handler takes the output back out of the space and nothing changes.
Connect(o) ==
  /\ ~draining /\ ~paused
  /\ ~out[o].conn /\ CanSchedule([out[o] EXCEPT !.conn = TRUE])
  /\ out' = [out EXCEPT ![o] = NewOutput(out[o])]
  /\ UNCHANGED <<lock, paused, draining>>

\* connector_disconnected drops the repaint entry first.  A commit its FIFO
\* barriers release asks for a redraw while the output is still in the space: the
\* entry comes back and outlives the output.
Disconnect(o) ==
  /\ ~draining
  /\ out[o].conn
  /\ \E outs \in Released([out EXCEPT ![o].state = "Idle", ![o].wake = FALSE]) :
       out' = [outs EXCEPT ![o] = Gone(outs[o].state, outs[o].idles)]
  /\ lock' = MaybeSendLocked(lock, out')
  /\ UNCHANGED <<paused, draining>>

-----------------------------------------------------------------------------
(* The render loop.                                                        *)

\* The paced redraw timer fires.
RenderWake(o) ==
  /\ ~draining
  /\ out[o].wake /\ CanSchedule(out[o])
  /\ out' = [out EXCEPT ![o] = ScheduleRender([out[o] EXCEPT !.wake = FALSE])]
  /\ UNCHANGED <<lock, paused, draining>>

\* The events of this turn are dispatched: run the callbacks.
Drain ==
  /\ ~draining
  /\ \E o \in Outputs : out[o].idles > 0
  /\ draining' = TRUE
  /\ UNCHANGED <<out, lock, paused>>

\* The callback schedule_render left for an output: back to Idle, then render.
RunIdle(o) ==
  /\ draining
  /\ out[o].idles > 0
  /\ LET idle == [out[o] EXCEPT !.state = "Idle", !.idles = @ - 1]
     IN  \E r \in RenderSurface(idle, Scene(lock), paused) : out' = [out EXCEPT ![o] = r]
  /\ draining' = (\E p \in Outputs : out'[p].idles > 0)
  /\ UNCHANGED <<lock, paused>>

\* frame_finish with a retired frame: mark the lock frame, perhaps send
\* `locked`, only then render again if damage came meanwhile, and release the
\* FIFO barriers last.
FrameFinish(o) ==
  /\ ~draining
  /\ out[o].pending # "none"
  /\ LET done == Presented(out[o], paused)
     IN  /\ lock' = IF out[o].lockFrame = "Queued"
                    THEN MaybeSendLocked(lock, [out EXCEPT ![o] = done]) ELSE lock
         /\ \E r \in IF out[o].state = "AwaitingDamaged"
                     THEN RenderSurface(done, Scene(lock), paused) ELSE {done} :
              out' \in Released([out EXCEPT ![o] = r])
  /\ UNCHANGED <<paused, draining>>

\* frame_finish when submitting the frame behind the retired one fails.
FrameFinishFailed(o) ==
  /\ ~draining
  /\ out[o].pending # "none" /\ out[o].queued # "none"
  /\ out' = [out EXCEPT ![o] = SubmitFailed(out[o], paused)]
  /\ UNCHANGED <<lock, paused, draining>>

\* frame_finish for the flip event of a cancelled frame: no frame was retired.
LateVblank(o) ==
  /\ ~draining
  /\ out[o].late /\ out[o].pending = "none"
  /\ out' = [out EXCEPT ![o].late = FALSE, ![o].state = "Idle"]
  /\ UNCHANGED <<lock, paused, draining>>

-----------------------------------------------------------------------------
Next ==
  \/ \E S \in SUBSET Outputs : ClientCommit(S)
  \/ Lock
  \/ Unlock
  \/ WakeOutputs
  \/ \E F \in SUBSET Outputs : Pause(F) \/ Resume(F)
  \/ Drain
  \/ \E o \in Outputs :
       \/ PowerOff(o)
       \/ PowerOn(o)
       \/ Connect(o)
       \/ Disconnect(o)
       \/ RenderWake(o)
       \/ RunIdle(o)
       \/ FrameFinish(o)
       \/ FrameFinishFailed(o)
       \/ LateVblank(o)

Spec == Init /\ [][Next]_vars

\* A client that asked for the lock draws its lock surfaces.
LockClientDraws ==
  /\ lock = "Locking"
  /\ \E o \in Outputs : Live(out[o], paused) /\ out[o].lockFrame = "None"
  /\ ClientCommit(Outputs)

\* The event loop runs its callbacks.  An event that has come is dispatched in some
\* later turn: strong fairness, since no event is dispatched while callbacks run.
\* Rendering does not fail for ever.
Fairness ==
  /\ WF_vars(Drain)
  /\ SF_vars(LockClientDraws)
  /\ \A o \in Outputs :
       /\ WF_vars(RunIdle(o))
       /\ SF_vars(RunIdle(o) /\ out'[o].pending # "none")
       /\ SF_vars(RenderWake(o))
       /\ SF_vars(FrameFinish(o))

FairSpec == Spec /\ Fairness

-----------------------------------------------------------------------------
(* What the lock and the render loop promise.                              *)

\* The desktop is gone from the panel or goes with the next flip.
Covered(r) == /\ "desk" \notin {r.pending, r.queued}
              /\ r.shown = "desk" => r.pending = "lock"

\* However often redraws are scheduled: if a panel still shows the desktop when
\* the lock is granted, its next flip hides it.
LockGapIsOneFlip == lock = "Locked" => \A o \in Outputs : Covered(out[o])

\* lock_frame_presented marks an output Presented only once a lock frame of the
\* current lock is on its panel (the comment on LockFrame).  Not so: see the run
\* that refutes it, and OnlySecondFrameExposes for all that can go wrong.
PresentedMeansShown ==
  IsLocked(lock) =>
    \A o \in Outputs : out[o].lockFrame = "Presented" => out[o].shown # "desk"

\* The panel shows the desktop though the lock, or the output's mark, says that it
\* is hidden.
Exposed(r, phase) ==
  /\ r.shown = "desk"
  /\ phase = "Locked" \/ (IsLocked(phase) /\ r.lockFrame = "Presented")

\* maybe_send_locked and lock_frame_presented trust the wrong flip in one case only:
\* the flip is of a frame with the lock frame waiting behind it.  An output that
\* never has a second frame waiting is never exposed.
OnlySecondFrameExposes ==
  [][\A o \in Outputs :
       Exposed(out'[o], lock') =>
         \/ Exposed(out[o], lock)
         \/ FrameFinish(o) /\ out[o].queued = "lock"]_vars

\* A blanked output shows nothing of the compositor, whatever callbacks, timers,
\* flips and resumes arrive after it was blanked.
OffStaysDark ==
  \A o \in Outputs : out[o].off =>
    /\ out[o].shown \notin Scenes
    /\ out[o].pending = "none" /\ out[o].queued = "none"

\* The repaint state is never ahead of what it waits for: schedule_render drops or
\* only marks a request while it says RenderQueued or AwaitingVblank, so there must
\* be a callback, or a frame in flight, that will look at it.
AwaitedComes ==
  \A o \in Outputs :
    /\ Awaiting(out[o]) => out[o].pending # "none"
    /\ out[o].state = "RenderQueued" => out[o].idles > 0

\* If the output is live and its scene differs from its newest frame, a callback, a
\* timer or a flip will render it.
Armed(r, scene, p) ==
  Live(r, p) /\ HasDamage(r, scene) =>
    r.idles > 0 \/ r.wake \/ r.state = "AwaitingDamaged"

\* No lost wakeup: the one step that leaves a damaged live output without anything
\* to redraw it is a flip at which submitting the frame behind it fails.
OnlyFailedSubmitStrands ==
  [][\A o \in Outputs :
       Armed(out[o], Scene(lock), paused) /\ ~Armed(out'[o], Scene(lock'), paused')
         => FrameFinishFailed(o)]_vars

\* Frames go only to live outputs: nothing is queued while the session is paused
\* or the output is blanked.
FramesOnlyToLive ==
  [][\A o \in Outputs :
       out[o].pending = "none" /\ out'[o].pending # "none" => Live(out'[o], paused')]_vars

\* The lock is granted only over covered panels, which then only lose the desktop:
\* it implements LockPromise.
Promise == INSTANCE LockPromise WITH
  phase   <- lock,
  showing <- {o \in Outputs : out[o].shown = "desk"},
  bare    <- {o \in Outputs : ~Covered(out[o])}

KeepsPromise == Promise!Spec

-----------------------------------------------------------------------------
(* The inductive invariant the proofs use.                                 *)

Blank(r) == r.shown \notin Scenes /\ r.pending = "none" /\ r.queued = "none"

\* The pipeline of an output and its marks, in a lock phase.
OutputInv(r, phase) ==
  /\ ~r.conn => r.lockFrame = "None" /\ ~r.off /\ Blank(r)
  /\ r.off => Blank(r)
  /\ r.pending = "none" => r.queued = "none"
  /\ IsLocked(phase) /\ r.lockFrame = "Queued" =>
       r.queued # "desk" /\ (r.pending = "desk" => r.queued = "lock")
  /\ IsLocked(phase) /\ r.lockFrame = "Presented" => Covered(r)
  /\ phase = "Locked" => Covered(r)

PipelineInv == \A o \in Outputs : OutputInv(out[o], lock)

-----------------------------------------------------------------------------
(* Liveness.                                                               *)

\* Switching, replacing or pausing outputs.
Reconfigure ==
  \/ WakeOutputs \/ \E F \in SUBSET Outputs : Pause(F) \/ Resume(F)
  \/ \E o \in Outputs : \/ PowerOff(o) \/ PowerOn(o) \/ Connect(o)
                        \/ Disconnect(o)

\* A requested lock is granted, unless the outputs are reconfigured for ever
\* ("Send `locked` if every on output has already presented").
LockIsGranted ==
  <>[][~Reconfigure]_vars => (lock = "Locking" ~> lock = "Locked" \/ paused)

\* On any number of outputs it is granted if the lock surfaces come to rest too.
RestingLockIsGranted ==
  <>[][~Reconfigure /\ \A o \in Outputs : out'[o].dirty => out[o].dirty]_vars
    => (lock = "Locking" ~> lock = "Locked" \/ paused)

\* Damage reaches a frame: an output that stays live and damaged keeps flipping,
\* through failed renders, paced timers, late flips and damage that lands during
\* a scanout.
DamageIsDrawn ==
  \A o \in Outputs :
    <>[](Live(out[o], paused) /\ HasDamage(out[o], Scene(lock))) => []<><<FrameFinish(o)>>_vars
=============================================================================
