-------------------------- MODULE SessionLockProofs --------------------------
(***************************************************************************)
(* Proofs about SessionLock, for any set of outputs and any bound on the   *)
(* redraw callbacks.                                                       *)
(***************************************************************************)
EXTENDS SessionLock, TLAPS

-----------------------------------------------------------------------------
(* The operators of Crtc preserve the type of an output.                   *)

LEMMA GoneType ==
  ASSUME NEW s \in RepaintStates, NEW n \in 0..MaxIdles
  PROVE  Gone(s, n) \in Outs
BY MaxIdlesAssumption DEF Gone, Outs, RepaintStates, LockFrames, Frames, Pictures, Scenes

LEMMA ScheduleRenderType ==
  ASSUME NEW r \in Outs, CanSchedule(r)
  PROVE  ScheduleRender(r) \in Outs
<1>1. CASE ~r.conn
  BY <1>1 DEF ScheduleRender
<1>2. CASE r.conn /\ r.state = "Idle"
  <2>1. r.idles + 1 \in 0..MaxIdles
    BY <1>2, MaxIdlesAssumption DEF CanSchedule, Outs
  <2> QED BY <1>2, <2>1 DEF ScheduleRender, Outs, RepaintStates
<1>3. CASE r.conn /\ Awaiting(r)
  BY <1>3 DEF ScheduleRender, Outs, RepaintStates, Awaiting
<1>4. CASE r.conn /\ r.state # "Idle" /\ ~Awaiting(r)
  BY <1>4 DEF ScheduleRender
<1> QED BY <1>1, <1>2, <1>3, <1>4

LEMMA QueuedMarkType ==
  ASSUME NEW q \in Outs, NEW scene \in Scenes, NEW mark \in LockFrames
  PROVE  [q EXCEPT !.dirty = FALSE, !.drawn = scene, !.state = "AwaitingVblank",
                   !.lockFrame = mark] \in Outs
BY DEF Outs, Frames, RepaintStates

LEMMA FrameQueuedType ==
  ASSUME NEW r \in Outs, NEW scene \in Scenes
  PROVE  FrameQueued(r, scene) \in Outs
<1>1. QueueFrame(r, scene) \in Outs
  BY DEF QueueFrame, Outs, Frames
<1>2. (IF scene = "lock" THEN "Queued" ELSE QueueFrame(r, scene).lockFrame) \in LockFrames
  BY <1>1 DEF Outs, LockFrames
<1> QED BY <1>1, <1>2, QueuedMarkType DEF FrameQueued

LEMMA RenderType ==
  ASSUME NEW r \in Outs, NEW scene \in Scenes, NEW p \in BOOLEAN,
         NEW e \in RenderSurface(r, scene, p)
  PROVE  e \in Outs
<1>1. \A s \in Outs : ScheduleRenderAfter(s) \in Outs
  BY DEF ScheduleRenderAfter, Outs
<1>2. RenderEnds(r, scene) \in SUBSET Outs
  BY <1>1, FrameQueuedType DEF RenderEnds
<1> QED BY <1>2 DEF RenderSurface

LEMMA ClearType ==
  ASSUME NEW r \in Outs
  PROVE  /\ ClearCrtc(r) \in Outs /\ ResetBuffers(r) \in Outs
         /\ DpmsOff(r) \in Outs /\ DpmsOn(r) \in Outs /\ DropFrames(r) \in Outs
<1>1. DropFrames(r) \in Outs
  BY DEF DropFrames, Outs, Frames
<1>2. ClearCrtc(r) \in Outs
  BY <1>1 DEF ClearCrtc, Outs, Pictures
<1>3. ResetBuffers(r) \in Outs
  BY DEF ResetBuffers, Outs, Frames
<1> QED BY <1>1, <1>2, <1>3 DEF DpmsOff, DpmsOn, Outs, RepaintStates

LEMMA FinishType ==
  ASSUME NEW r \in Outs, NEW p \in BOOLEAN, r.pending # "none"
  PROVE  Presented(r, p) \in Outs /\ SubmitFailed(r, p) \in Outs
<1>1. FrameSubmitted(r, p) \in Outs
  BY DEF FrameSubmitted, Outs, Pictures, Frames, Scenes
<1> QED BY <1>1 DEF Presented, SubmitFailed, Outs, RepaintStates, LockFrames, Frames

-----------------------------------------------------------------------------
(* Type correctness of the specification.                                  *)

LEMMA SceneType == \A phase \in LockPhases : Scene(phase) \in Scenes
BY DEF Scene, Scenes, IsLocked

LEMMA SendType ==
  ASSUME NEW phase \in LockPhases, NEW outs PROVE MaybeSendLocked(phase, outs) \in LockPhases
BY DEF MaybeSendLocked, LockPhases

LEMMA CommitType ==
  ASSUME NEW outs \in [Outputs -> Outs], CanScheduleAll(outs), NEW S \in SUBSET Outputs
  PROVE  Commit(outs, S) \in [Outputs -> Outs]
<1> DEFINE damaged(o) == IF outs[o].conn /\ o \in S THEN [outs[o] EXCEPT !.dirty = TRUE] ELSE outs[o]
<1>1. ASSUME NEW o \in Outputs PROVE damaged(o) \in Outs /\ CanSchedule(damaged(o))
  BY DEF CanScheduleAll, CanSchedule, Outs
<1>2. \A o \in Outputs : ScheduleRender(damaged(o)) \in Outs
  BY <1>1, ScheduleRenderType
<1> QED BY <1>2 DEF Commit, ScheduleAll

LEMMA ReleasedType ==
  ASSUME NEW outs \in [Outputs -> Outs], NEW e \in Released(outs)
  PROVE  e \in [Outputs -> Outs]
BY CommitType DEF Released

LEMMA InitType == Init => TypeOK
<1> SUFFICES ASSUME Init PROVE TypeOK
  OBVIOUS
<1>1. Gone("Idle", 0) \in Outs
  BY GoneType, MaxIdlesAssumption DEF RepaintStates
<1>2. NewOutput(Gone("Idle", 0)) \in Outs
  <2> DEFINE r == [Gone("Idle", 0) EXCEPT !.conn = TRUE]
  <2>1. r \in Outs
    BY <1>1 DEF Outs
  <2>2. CanSchedule(r)
    BY MaxIdlesAssumption DEF CanSchedule, Gone
  <2> QED BY <2>1, <2>2, ScheduleRenderType DEF NewOutput
<1> QED BY <1>1, <1>2 DEF Init, TypeOK, LockPhases

\* Every step keeps every output in its type.
LEMMA NextType == TypeOK /\ [Next]_vars => TypeOK'
<1> SUFFICES ASSUME TypeOK, [Next]_vars PROVE TypeOK'
  OBVIOUS
<1> USE DEF TypeOK
<1>1. ASSUME NEW S \in SUBSET Outputs, ClientCommit(S) PROVE TypeOK'
  BY <1>1, CommitType DEF ClientCommit
<1>2. ASSUME ResetLockFrames(out) \in [Outputs -> Outs], CanScheduleAll(out)
      PROVE  ScheduleAll(ResetLockFrames(out)) \in [Outputs -> Outs]
  <2>1. ASSUME NEW o \in Outputs PROVE CanSchedule(ResetLockFrames(out)[o])
    BY <1>2 DEF CanScheduleAll, CanSchedule, ResetLockFrames, Outs
  <2> QED BY <1>2, <2>1, ScheduleRenderType DEF ScheduleAll
<1>3. ResetLockFrames(out) \in [Outputs -> Outs]
  BY DEF ResetLockFrames, Outs, LockFrames
<1>4. CASE Lock
  BY <1>2, <1>3, <1>4, SendType DEF Lock, LockPhases
<1>5. CASE Unlock
  BY <1>2, <1>3, <1>5 DEF Unlock, LockPhases
<1>6. ASSUME NEW r \in Outs, r.idles < MaxIdles PROVE PoweredOn(r) \in Outs
  <2>1. [DpmsOn(r) EXCEPT !.off = FALSE] \in Outs
    BY ClearType DEF Outs
  <2>2. CanSchedule([DpmsOn(r) EXCEPT !.off = FALSE])
    BY <1>6, ClearType DEF CanSchedule, DpmsOn, ResetBuffers, Outs
  <2> QED BY <2>1, <2>2, ScheduleRenderType DEF PoweredOn
<1>7. CASE WakeOutputs
  BY <1>6, <1>7 DEF WakeOutputs
<1>8. ASSUME NEW F \in SUBSET Outputs, Pause(F) PROVE TypeOK'
  <2>1. ASSUME NEW r \in Outs
        PROVE  /\ [r EXCEPT !.shown = "other"] \in Outs
               /\ [r EXCEPT !.state = "Idle"] \in Outs
    BY DEF Outs, Pictures, RepaintStates
  <2> QED BY <1>8, <2>1, ClearType DEF Pause
<1>9. ASSUME NEW R \in SUBSET Outputs, Resume(R) PROVE TypeOK'
  <2>1. ASSUME NEW r \in Outs PROVE Activated(r) \in Outs
    <3>1. [r EXCEPT !.state = "Idle", !.shown = "other"] \in Outs
      BY DEF Outs, RepaintStates, Pictures
    <3> QED BY <3>1, ClearType DEF Activated
  <2>2. ASSUME NEW r \in Outs, r.conn /\ ~r.off => r.idles < MaxIdles
        PROVE  Resumed(r) \in Outs
    <3>1. r.conn /\ ~r.off => CanSchedule(Activated(r))
      BY <2>1, <2>2 DEF Activated, CanSchedule, ResetBuffers, DropFrames, Outs
    <3>2. DpmsOff(Activated(r)) \in Outs
      BY <2>1, ClearType
    <3>3. r.conn /\ ~r.off => ScheduleRender(Activated(r)) \in Outs
      BY <2>1, <3>1, ScheduleRenderType
    <3> QED BY <3>2, <3>3 DEF Resumed, Outs, RepaintStates
  <2> QED BY <1>9, <2>1, <2>2 DEF Resume
<1>10. CASE Drain
  BY <1>10 DEF Drain
<1>11. ASSUME NEW o \in Outputs, PowerOff(o) PROVE TypeOK'
  <2>1. ASSUME NEW r \in Outs PROVE [r EXCEPT !.off = TRUE] \in Outs
    BY DEF Outs
  <2>2. [DpmsOff(out[o]) EXCEPT !.off = TRUE] \in Outs
    BY <2>1, ClearType
  <2>3. [out EXCEPT ![o] = [DpmsOff(out[o]) EXCEPT !.off = TRUE]] \in [Outputs -> Outs]
    BY <2>2
  <2> QED BY <1>11, <2>3, ReleasedType, SendType DEF PowerOff
<1>12. ASSUME NEW o \in Outputs, PowerOn(o) PROVE TypeOK'
  BY <1>6, <1>12 DEF PowerOn
<1>13. ASSUME NEW o \in Outputs, Connect(o) PROVE TypeOK'
  <2>1. [out[o] EXCEPT !.conn = TRUE] \in Outs
    BY DEF Outs
  <2> QED BY <1>13, <2>1, ScheduleRenderType DEF Connect, NewOutput
<1>14. ASSUME NEW o \in Outputs, Disconnect(o) PROVE TypeOK'
  <2> DEFINE dropped == [out EXCEPT ![o].state = "Idle", ![o].wake = FALSE]
  <2>1. dropped \in [Outputs -> Outs]
    <3>1. [out[o] EXCEPT !.state = "Idle", !.wake = FALSE] \in Outs
      BY DEF Outs, RepaintStates
    <3> QED BY <3>1
  <2>2. ASSUME NEW outs \in Released(dropped)
        PROVE  [outs EXCEPT ![o] = Gone(outs[o].state, outs[o].idles)] \in [Outputs -> Outs]
    <3>1. outs \in [Outputs -> Outs]
      BY <2>1, ReleasedType
    <3>2. Gone(outs[o].state, outs[o].idles) \in Outs
      BY <3>1, GoneType DEF Outs
    <3> QED BY <3>1, <3>2
  <2> QED BY <1>14, <2>2, SendType DEF Disconnect
<1>15. ASSUME NEW o \in Outputs, RenderWake(o) PROVE TypeOK'
  <2> DEFINE r == [out[o] EXCEPT !.wake = FALSE]
  <2>1. r \in Outs /\ CanSchedule(r)
    BY <1>15 DEF RenderWake, CanSchedule, Outs
  <2>2. ScheduleRender(r) \in Outs
    BY <2>1, ScheduleRenderType
  <2> QED BY <1>15, <2>2 DEF RenderWake
<1>16. ASSUME NEW o \in Outputs, RunIdle(o) PROVE TypeOK'
  <2> DEFINE idle == [out[o] EXCEPT !.state = "Idle", !.idles = @ - 1]
  <2>1. idle \in Outs
    <3>1. out[o] \in Outs /\ out[o].idles - 1 \in 0..MaxIdles
      BY <1>16, MaxIdlesAssumption DEF RunIdle, Outs
    <3> QED BY <3>1 DEF Outs, RepaintStates
  <2>2. \A r \in RenderSurface(idle, Scene(lock), paused) : r \in Outs
    BY <2>1, SceneType, RenderType
  <2> QED BY <1>16, <2>2 DEF RunIdle
<1>17. ASSUME NEW o \in Outputs, FrameFinish(o) PROVE TypeOK'
  <2> DEFINE done == Presented(out[o], paused)
  <2>1. done \in Outs
    BY <1>17, FinishType DEF FrameFinish
  <2>2. \A r \in RenderSurface(done, Scene(lock), paused) : r \in Outs
    BY <2>1, SceneType, RenderType
  <2>3. ASSUME NEW r \in Outs, NEW outs \in Released([out EXCEPT ![o] = r])
        PROVE  outs \in [Outputs -> Outs]
    BY ReleasedType
  <2> QED BY <1>17, <2>1, <2>2, <2>3, SendType DEF FrameFinish
<1>18. ASSUME NEW o \in Outputs, FrameFinishFailed(o) PROVE TypeOK'
  BY <1>18, FinishType DEF FrameFinishFailed
<1>19. ASSUME NEW o \in Outputs, LateVblank(o) PROVE TypeOK'
  <2>1. [out[o] EXCEPT !.late = FALSE, !.state = "Idle"] \in Outs
    BY DEF Outs, RepaintStates
  <2> QED BY <1>19, <2>1 DEF LateVblank
<1>20. CASE UNCHANGED vars
  BY <1>20 DEF vars
<1> QED
  BY <1>1, <1>4, <1>5, <1>7, <1>8, <1>9, <1>10, <1>11, <1>12, <1>13, <1>14,
     <1>15, <1>16, <1>17, <1>18, <1>19, <1>20 DEF Next

\* Outputs, phases and flags keep their types, whatever the number of outputs and
\* of waiting callbacks: the guards bound the callbacks schedule_render leaves.
THEOREM TypeCorrect == Spec => []TypeOK
BY InitType, NextType, PTL DEF Spec
=============================================================================
