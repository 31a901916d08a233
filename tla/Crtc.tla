-------------------------------- MODULE Crtc --------------------------------
(***************************************************************************)
(* One DRM output: the repaint state the compositor keeps for its CRTC     *)
(* (struct Repaint of backend/udev.rs), the DPMS bit, the lock-frame mark, *)
(* and the frame pipeline of the display driver below it.                  *)
(*                                                                         *)
(* The module has no variables.  It defines the record that describes an   *)
(* output and, one operator per function of the code, how each function    *)
(* changes it.  SessionLock puts the outputs and the event loop together.  *)
(***************************************************************************)
EXTENDS Integers

CONSTANT
  MaxIdles    \* bound on the redraw callbacks one output has waiting in the
              \* event loop at a time

ASSUME MaxIdlesAssumption == MaxIdles \in Nat \ {0}

Scenes   == {"desk", "lock"}    \* what render.rs draws: windows, or lock surfaces
Frames   == Scenes \cup {"none"}
Pictures == Scenes \cup {"dark", "other"}    \* "other": what another session shows

RepaintStates == {"Idle", "RenderQueued", "AwaitingVblank", "AwaitingDamaged"}
LockFrames    == {"None", "Queued", "Presented"}

Outs ==
  [ conn      : BOOLEAN,        \* mapped in the space and known to the device
    off       : BOOLEAN,        \* member of OutputPowerManagerState.off
    state     : RepaintStates,  \* AwaitingDamaged: AwaitingVblank {damage_pending: true}
    wake      : BOOLEAN,        \* a paced redraw timer is armed (render_wake)
    idles     : 0..MaxIdles,    \* redraw callbacks waiting in the event loop
    lockFrame : LockFrames,
    dirty     : BOOLEAN,        \* the scene has damage no frame has drawn yet
    drawn     : Frames,         \* scene of the newest frame given to the driver
    shown     : Pictures,       \* what the panel shows
    pending   : Frames,         \* frame submitted to the kernel, flip not done
    queued    : Frames,         \* frame waiting behind the pending one
    late      : BOOLEAN ]       \* a flip event of a cancelled frame is unread

\* A CRTC no output is connected to.  Redraw callbacks outlive the output, and
\* one of them can leave its repaint entry behind.
Gone(state, idles) ==
  [ conn |-> FALSE, off |-> FALSE, state |-> state, wake |-> FALSE,
    idles |-> idles, lockFrame |-> "None", dirty |-> FALSE, drawn |-> "none",
    shown |-> "dark", pending |-> "none", queued |-> "none", late |-> FALSE ]

Awaiting(r) == r.state \in {"AwaitingVblank", "AwaitingDamaged"}

\* The output can show a new frame.
Live(r, paused) == r.conn /\ ~r.off /\ ~paused

-----------------------------------------------------------------------------
(* The display driver (DrmCompositor), as the code in src/ uses it.        *)

QueueFrame(r, scene) ==
  IF r.pending = "none" THEN [r EXCEPT !.pending = scene]
                        ELSE [r EXCEPT !.queued = scene]

\* The pending frame is on the panel and the queued one becomes pending.
FrameSubmitted(r, paused) ==
  [r EXCEPT !.shown = IF paused THEN "other" ELSE r.pending,
            !.pending = r.queued, !.queued = "none"]

\* Every frame on its way is dropped; a flip that is cut short still leaves an
\* event behind.
DropFrames(r) ==
  [r EXCEPT !.pending = "none", !.queued = "none", !.late = r.late \/ r.pending # "none"]

\* Disabling the CRTC.
ClearCrtc(r) == [DropFrames(r) EXCEPT !.shown = "dark"]

\* Forgetting the buffers makes the next frame a full redraw.
ResetBuffers(r) == [r EXCEPT !.drawn = "none"]

-----------------------------------------------------------------------------
(* The repaint machine of backend/udev.rs.                                 *)

\* Whether schedule_render would keep the callbacks within the bound.
CanSchedule(r) == r.conn /\ r.state = "Idle" => r.idles < MaxIdles

\* Mutant: damage that arrives while a frame is in flight is dropped.
ScheduleOnlyIdle(r) ==
  IF r.conn /\ r.state = "Idle"
  THEN [r EXCEPT !.state = "RenderQueued", !.idles = @ + 1, !.wake = FALSE] ELSE r

\* Mutant: an output that is already queued is queued again.
ScheduleTwice(r) ==
  IF r.conn /\ ~Awaiting(r)
  THEN [r EXCEPT !.state = "RenderQueued", !.idles = @ + 1, !.wake = FALSE] ELSE r

\* schedule_render: one callback per Idle output, a mark if a frame is in flight.
ScheduleRender(r) ==
  CASE ~r.conn -> r
    [] r.conn /\ r.state = "Idle" ->
         [r EXCEPT !.state = "RenderQueued", !.idles = @ + 1, !.wake = FALSE]
    [] r.conn /\ Awaiting(r) -> [r EXCEPT !.state = "AwaitingDamaged"]
    [] OTHER -> r

\* Mutant: a failed or paced render is not tried again.
NeverRetry(r) == r

\* schedule_render_after: re-arm the paced redraw timer.
ScheduleRenderAfter(r) == [r EXCEPT !.wake = TRUE]

\* Mutant: blanking leaves the repaint state behind.
DpmsOffKeepsState(r) == ClearCrtc(r)

\* set_output_dpms(on) and set_output_dpms(off), when the driver does not refuse.
DpmsOn(r)  == [ResetBuffers(r) EXCEPT !.state = "Idle"]
DpmsOff(r) == [ClearCrtc(r) EXCEPT !.state = "Idle"]

HasDamage(r, scene) == r.dirty \/ r.drawn # scene

\* render_surface reaches the end with a frame on the CRTC: lock_frame_queued
\* and the change to AwaitingVblank.
FrameQueued(r, scene) ==
  [QueueFrame(r, scene) EXCEPT
     !.dirty = FALSE, !.drawn = scene, !.state = "AwaitingVblank",
     !.lockFrame = IF scene = "lock" THEN "Queued" ELSE @]

\* Every way render_surface can leave an output it renders: a frame queued, a
\* failure retried at the next refresh, or nothing to present and the frame
\* callbacks sent at once or after the pacing delay.  An animated cursor theme
\* asks for one more redraw, except while locked.
RenderEnds(r, scene) ==
  LET ends == {ScheduleRenderAfter(r)}
              \cup (IF HasDamage(r, scene) THEN {FrameQueued(r, scene)} ELSE {r})
  IN  IF scene = "lock" THEN ends ELSE ends \cup {ScheduleRenderAfter(e) : e \in ends}

\* Mutants: render_surface without the check for a blanked output, or for a
\* paused session.
RenderWhenOff(r, scene, paused) ==
  IF r.conn /\ ~paused THEN RenderEnds(r, scene) ELSE {r}
RenderWhenPaused(r, scene, paused) ==
  IF r.conn /\ ~r.off THEN RenderEnds(r, scene) ELSE {r}

RenderSurface(r, scene, paused) == IF Live(r, paused) THEN RenderEnds(r, scene) ELSE {r}

\* Mutants: every retired frame counts as a lock frame; a lock frame that damage
\* overtook does not count.
PresentedAlways(r, paused) ==
  [FrameSubmitted(r, paused) EXCEPT !.state = "Idle", !.lockFrame = "Presented"]
PresentedIfClean(r, paused) ==
  [FrameSubmitted(r, paused) EXCEPT
     !.state = "Idle",
     !.lockFrame = IF @ = "Queued" /\ r.state = "AwaitingVblank" THEN "Presented" ELSE @]

\* The first half of frame_finish: the frame is retired and, when it carried a
\* lock frame, that lock frame counts as presented.
Presented(r, paused) ==
  [FrameSubmitted(r, paused) EXCEPT
     !.state = "Idle",
     !.lockFrame = IF @ = "Queued" THEN "Presented" ELSE @]

\* frame_submitted fails when the queued frame cannot be submitted; the pending
\* one is on the panel all the same.
SubmitFailed(r, paused) ==
  [FrameSubmitted(r, paused) EXCEPT !.pending = "none", !.state = "Idle"]
=============================================================================
