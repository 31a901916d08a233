-------------------------- MODULE SessionLockSafety --------------------------
(***************************************************************************)
(* The safety of the session lock and of the render loop, proved from the  *)
(* inductive invariants PipelineInv and AwaitedComes, for every bound on   *)
(* the redraw callbacks an output has waiting.                             *)
(*                                                                         *)
(* An output's part of an invariant reads only a few of its fields, so     *)
(* each operator of Crtc gets one lemma about one output, and a step of    *)
(* the specification follows output by output.                             *)
(***************************************************************************)
EXTENDS SessionLockProofs

-----------------------------------------------------------------------------
(* Lemmas about one output.                                                *)

\* The fields OutputInv reads.
Same(r, s) ==
  /\ s.conn = r.conn /\ s.off = r.off /\ s.lockFrame = r.lockFrame
  /\ s.shown = r.shown /\ s.pending = r.pending /\ s.queued = r.queued

LEMMA SameInv ==
  ASSUME NEW r, NEW s, NEW phase, Same(r, s), OutputInv(r, phase)
  PROVE  OutputInv(s, phase)
BY DEF Same, OutputInv, Blank, Covered

LEMMA ScheduleSame ==
  ASSUME NEW r \in Outs
  PROVE  Same(r, ScheduleRender(r)) /\ Same(r, ScheduleRenderAfter(r))
<1>1. Same(r, ScheduleRenderAfter(r))
  BY DEF Same, ScheduleRenderAfter, Outs
<1>2. CASE r.conn /\ r.state = "Idle"
  BY <1>1, <1>2 DEF Same, ScheduleRender, Outs
<1>3. CASE r.conn /\ Awaiting(r)
  BY <1>1, <1>3 DEF Same, ScheduleRender, Outs, Awaiting
<1>4. CASE ~r.conn \/ (r.state # "Idle" /\ ~Awaiting(r))
  BY <1>1, <1>4 DEF Same, ScheduleRender
<1> QED BY <1>2, <1>3, <1>4

\* A cleared pipeline keeps the invariant in any phase.
LEMMA BlankInv ==
  ASSUME NEW r, NEW phase, Blank(r), ~r.conn => r.lockFrame = "None" /\ ~r.off
  PROVE  OutputInv(r, phase)
BY DEF Blank, OutputInv, Covered, Scenes

LEMMA ClearFields ==
  ASSUME NEW r \in Outs
  PROVE  /\ Blank(DpmsOff(r)) /\ DpmsOff(r).state = "Idle"
         /\ DpmsOff(r).conn = r.conn /\ DpmsOff(r).off = r.off
         /\ DpmsOff(r).lockFrame = r.lockFrame
         /\ Same(r, ResetBuffers(r)) /\ Same(r, DpmsOn(r)) /\ DpmsOn(r).state = "Idle"
BY DEF Blank, Same, ClearCrtc, DropFrames, DpmsOff, ResetBuffers, DpmsOn, Outs, Scenes

LEMMA DropFields ==
  ASSUME NEW r \in Outs
  PROVE  LET s == DropFrames(r)
         IN  /\ s \in Outs /\ s.pending = "none" /\ s.queued = "none"
             /\ s.conn = r.conn /\ s.off = r.off /\ s.idles = r.idles /\ s.state = r.state
             /\ s.lockFrame = r.lockFrame /\ s.shown = r.shown
<1>1. DropFrames(r) \in Outs
  BY ClearType
<1> QED BY <1>1 DEF DropFrames, Outs

\* Activating the device empties the pipeline.
LEMMA ActivatedFields ==
  ASSUME NEW r \in Outs
  PROVE  LET s == Activated(r)
         IN  /\ s \in Outs /\ s.pending = "none" /\ s.queued = "none" /\ s.state = "Idle"
             /\ s.conn = r.conn /\ s.off = r.off /\ s.idles = r.idles
             /\ s.lockFrame = r.lockFrame /\ s.shown = "other"
<1> DEFINE idle == [r EXCEPT !.state = "Idle", !.shown = "other"]
           drop == DropFrames(idle)
<1>1. /\ idle \in Outs /\ idle.state = "Idle" /\ idle.conn = r.conn /\ idle.off = r.off
      /\ idle.idles = r.idles /\ idle.lockFrame = r.lockFrame /\ idle.shown = "other"
  BY DEF Outs, RepaintStates, Pictures
<1>2. /\ drop \in Outs /\ drop.pending = "none" /\ drop.queued = "none" /\ drop.state = "Idle"
      /\ drop.conn = r.conn /\ drop.off = r.off /\ drop.idles = r.idles
      /\ drop.lockFrame = r.lockFrame /\ drop.shown = "other"
  <2> HIDE DEF idle
  <2> QED BY <1>1, DropFields
<1>3. Activated(r) = ResetBuffers(drop)
  BY DEF Activated
<1> HIDE DEF drop
<1> QED BY <1>2, <1>3, ClearType DEF ResetBuffers, Outs

\* render_surface gives a frame of the current scene to a live output.
LEMMA QueuedFields ==
  ASSUME NEW r \in Outs, NEW scene \in Scenes
  PROVE  LET s == FrameQueued(r, scene)
         IN  /\ s.conn = r.conn /\ s.off = r.off /\ s.shown = r.shown
             /\ s.lockFrame = IF scene = "lock" THEN "Queued" ELSE r.lockFrame
             /\ s.pending = IF r.pending = "none" THEN scene ELSE r.pending
             /\ s.queued = IF r.pending = "none" THEN r.queued ELSE scene
             /\ s.state = "AwaitingVblank"
             /\ s.idles = r.idles
<1>1. QueueFrame(r, scene) \in Outs
  BY DEF QueueFrame, Outs, Frames
<1>2. /\ QueueFrame(r, scene).conn = r.conn /\ QueueFrame(r, scene).off = r.off
      /\ QueueFrame(r, scene).shown = r.shown /\ QueueFrame(r, scene).idles = r.idles
      /\ QueueFrame(r, scene).lockFrame = r.lockFrame
      /\ QueueFrame(r, scene).pending = IF r.pending = "none" THEN scene ELSE r.pending
      /\ QueueFrame(r, scene).queued = IF r.pending = "none" THEN r.queued ELSE scene
  BY DEF QueueFrame, Outs
<1> QED BY <1>1, <1>2 DEF FrameQueued, Outs

LEMMA RenderInv ==
  ASSUME NEW r \in Outs, NEW phase \in LockPhases, NEW p \in BOOLEAN,
         OutputInv(r, phase), NEW e \in RenderSurface(r, Scene(phase), p)
  PROVE  OutputInv(e, phase)
<1> DEFINE scene == Scene(phase)
<1>1. scene \in Scenes /\ (IsLocked(phase) <=> scene = "lock")
  BY DEF Scene, Scenes
<1> HIDE DEF scene
<1>2. CASE ~Live(r, p)
  BY <1>2 DEF RenderSurface
<1>3. CASE Live(r, p)
  <2> DEFINE s == FrameQueued(r, scene)
  <2>1. s \in Outs
    BY <1>1, FrameQueuedType
  <2>2. OutputInv(s, phase)
    <3>1. r.pending \in Frames /\ r.queued \in Frames /\ r.conn /\ ~r.off
      BY <1>3 DEF Outs, Live
    <3>2. /\ s.conn /\ ~s.off /\ s.shown = r.shown
          /\ s.lockFrame = IF scene = "lock" THEN "Queued" ELSE r.lockFrame
          /\ s.pending = IF r.pending = "none" THEN scene ELSE r.pending
          /\ s.queued = IF r.pending = "none" THEN r.queued ELSE scene
      BY <1>1, <3>1, QueuedFields
    <3> HIDE DEF s
    <3>3. ASSUME IsLocked(phase) PROVE OutputInv(s, phase)
      BY <1>1, <3>1, <3>2, <3>3 DEF OutputInv, Covered, Frames, Scenes
    <3>4. ASSUME ~IsLocked(phase) PROVE OutputInv(s, phase)
      BY <1>1, <3>1, <3>2, <3>4 DEF OutputInv, IsLocked, Frames, Scenes
    <3> QED BY <3>3, <3>4
  <2>3. ASSUME NEW t \in Outs, OutputInv(t, phase)
        PROVE  ScheduleRenderAfter(t) \in Outs /\ OutputInv(ScheduleRenderAfter(t), phase)
    <3>1. ScheduleRenderAfter(t) \in Outs
      BY DEF ScheduleRenderAfter, Outs
    <3> QED BY <2>3, <3>1, ScheduleSame, SameInv
  <2>4. e \in RenderEnds(r, scene)
    BY <1>3 DEF RenderSurface, scene
  <2>5. \E t \in {r, s, ScheduleRenderAfter(r)} : e \in {t, ScheduleRenderAfter(t)}
    BY <2>4 DEF RenderEnds
  <2> QED BY <2>1, <2>2, <2>3, <2>5
<1> QED BY <1>2, <1>3

LEMMA FinishFields ==
  ASSUME NEW r \in Outs, NEW p \in BOOLEAN
  PROVE  /\ Presented(r, p).conn = r.conn /\ Presented(r, p).off = r.off
         /\ Presented(r, p).shown = IF p THEN "other" ELSE r.pending
         /\ Presented(r, p).pending = r.queued /\ Presented(r, p).queued = "none"
         /\ Presented(r, p).lockFrame =
              IF r.lockFrame = "Queued" THEN "Presented" ELSE r.lockFrame
         /\ Presented(r, p).state = "Idle" /\ Presented(r, p).idles = r.idles
         /\ SubmitFailed(r, p).conn = r.conn /\ SubmitFailed(r, p).off = r.off
         /\ SubmitFailed(r, p).shown = IF p THEN "other" ELSE r.pending
         /\ SubmitFailed(r, p).pending = "none" /\ SubmitFailed(r, p).queued = "none"
         /\ SubmitFailed(r, p).lockFrame = r.lockFrame
BY DEF Presented, SubmitFailed, FrameSubmitted, Outs

LEMMA FinishInv ==
  ASSUME NEW r \in Outs, NEW phase \in LockPhases, NEW p \in BOOLEAN,
         r.pending # "none", OutputInv(r, phase)
  PROVE  /\ OutputInv(Presented(r, p), phase)
         /\ r.queued # "none" => OutputInv(SubmitFailed(r, p), phase)
<1>1. r.pending \in Frames /\ r.queued \in Frames /\ r.lockFrame \in LockFrames
  BY DEF Outs
<1>2. r.conn /\ ~r.off
  BY DEF OutputInv, Blank, Outs
<1>3. OutputInv(Presented(r, p), phase)
  BY <1>1, <1>2, FinishFields DEF OutputInv, Blank, Covered, Frames, Scenes, LockFrames
<1>4. r.queued # "none" => OutputInv(SubmitFailed(r, p), phase)
  BY <1>1, <1>2, FinishFields DEF OutputInv, Blank, Covered, Frames, Scenes, LockFrames
<1> QED BY <1>3, <1>4

\* `locked` is sent only when every panel is covered: the outputs that are on
\* have presented and the others are blank.
LEMMA SendInv ==
  ASSUME NEW outs \in [Outputs -> Outs], NEW phase \in LockPhases,
         \A o \in Outputs : OutputInv(outs[o], phase)
  PROVE  \A o \in Outputs : OutputInv(outs[o], MaybeSendLocked(phase, outs))
<1>1. CASE MaybeSendLocked(phase, outs) = phase
  BY <1>1
<1>2. CASE MaybeSendLocked(phase, outs) # phase
  <2>1. /\ phase = "Locking" /\ MaybeSendLocked(phase, outs) = "Locked"
        /\ \A o \in Outputs : outs[o].conn /\ ~outs[o].off => outs[o].lockFrame = "Presented"
    BY <1>2 DEF MaybeSendLocked
  <2>2. \A o \in Outputs : Covered(outs[o])
    BY <2>1 DEF OutputInv, IsLocked, Blank, Covered, Outs, Scenes
  <2> QED BY <2>1, <2>2 DEF OutputInv, IsLocked
<1> QED BY <1>1, <1>2

\* Damage, and what scheduling changes, is nothing OutputInv reads.
LEMMA ReleasedSame ==
  ASSUME NEW outs \in [Outputs -> Outs], NEW e \in Released(outs), NEW o \in Outputs
  PROVE  Same(outs[o], e[o])
<1>1. CASE e = outs
  BY <1>1 DEF Same
<1>2. ASSUME NEW S \in SUBSET Outputs PROVE Same(outs[o], Commit(outs, S)[o])
  <2> DEFINE damaged == IF outs[o].conn /\ o \in S THEN [outs[o] EXCEPT !.dirty = TRUE] ELSE outs[o]
  <2>1. damaged \in Outs /\ Same(outs[o], damaged)
    BY DEF Same, Outs
  <2>2. Same(outs[o], ScheduleRender(damaged))
    BY <2>1, ScheduleSame DEF Same
  <2> QED BY <2>2 DEF Commit, ScheduleAll
<1> QED BY <1>1, <1>2 DEF Released

LEMMA ReleasedInv ==
  ASSUME NEW outs \in [Outputs -> Outs], NEW e \in Released(outs), NEW phase,
         \A o \in Outputs : OutputInv(outs[o], phase)
  PROVE  \A o \in Outputs : OutputInv(e[o], phase)
BY ReleasedSame, SameInv

-----------------------------------------------------------------------------
(* The pipeline invariant.                                                 *)

LEMMA PipelineInit == Init => PipelineInv
<1> SUFFICES ASSUME Init, NEW o \in Outputs PROVE OutputInv(out[o], lock)
  BY DEF PipelineInv
<1>1. /\ Gone("Idle", 0) \in Outs /\ Blank(Gone("Idle", 0)) /\ ~Gone("Idle", 0).conn
      /\ Gone("Idle", 0).lockFrame = "None" /\ ~Gone("Idle", 0).off
  BY GoneType, MaxIdlesAssumption DEF Gone, Blank, RepaintStates, Scenes
<1>2. OutputInv(Gone("Idle", 0), lock)
  BY <1>1, BlankInv
<1>3. OutputInv(NewOutput(Gone("Idle", 0)), lock)
  <2> DEFINE r == [Gone("Idle", 0) EXCEPT !.conn = TRUE]
  <2>1. r \in Outs /\ Blank(r) /\ r.conn
    BY <1>1 DEF Outs, Blank
  <2>2. OutputInv(r, lock)
    BY <2>1, BlankInv
  <2> QED BY <2>1, <2>2, ScheduleSame, SameInv DEF NewOutput
<1> QED BY <1>2, <1>3 DEF Init

LEMMA PipelineStep == TypeOK /\ PipelineInv /\ [Next]_vars => PipelineInv'
<1> SUFFICES ASSUME TypeOK, PipelineInv, [Next]_vars PROVE PipelineInv'
  OBVIOUS
<1> USE DEF TypeOK, PipelineInv
\* Marks are reset and redraws scheduled for the phase a lock or unlock enters.
<1>1. ASSUME NEW phase \in {"Unlocked", "Locking"}, NEW o \in Outputs
      PROVE  OutputInv(ScheduleAll(ResetLockFrames(out))[o], phase)
  <2> DEFINE r == ResetLockFrames(out)[o]
  <2>1. /\ r \in Outs /\ r.lockFrame = "None" /\ r.conn = out[o].conn /\ r.off = out[o].off
        /\ r.shown = out[o].shown /\ r.pending = out[o].pending /\ r.queued = out[o].queued
    BY DEF ResetLockFrames, OutputInv, Outs, LockFrames
  <2>2. OutputInv(r, phase)
    BY <2>1 DEF OutputInv, Blank, IsLocked
  <2> QED BY <2>1, <2>2, ScheduleSame, SameInv DEF ScheduleAll
<1>2. ASSUME NEW S \in SUBSET Outputs, ClientCommit(S) PROVE PipelineInv'
  <2>1. out' \in Released(out)
    BY <1>2 DEF ClientCommit, Released
  <2> QED BY <1>2, <2>1, ReleasedInv DEF ClientCommit
<1>3. CASE Lock
  <2>1. \A o \in Outputs : OutputInv(out'[o], "Locking")
    BY <1>1, <1>3 DEF Lock
  <2>2. TypeOK'
    BY NextType
  <2> QED BY <1>3, <2>1, <2>2, SendInv DEF Lock, LockPhases
<1>4. CASE Unlock
  BY <1>1, <1>4 DEF Unlock
<1>5. ASSUME NEW r \in Outs, r.off => Blank(r), OutputInv(r, lock), r.off
      PROVE  OutputInv(PoweredOn(r), lock)
  <2> DEFINE s == [DpmsOn(r) EXCEPT !.off = FALSE]
  <2>1. DpmsOn(r) \in Outs /\ Same(r, DpmsOn(r))
    BY ClearType, ClearFields
  <2>2. s \in Outs /\ Blank(s) /\ s.conn
    BY <1>5, <2>1 DEF Outs, Blank, Same, OutputInv
  <2>3. OutputInv(s, lock)
    BY <2>2, BlankInv
  <2> QED BY <2>2, <2>3, ScheduleSame, SameInv DEF PoweredOn
<1>6. \A o \in Outputs : out[o].off => Blank(out[o])
  BY DEF OutputInv
<1>7. CASE WakeOutputs
  BY <1>5, <1>6, <1>7 DEF WakeOutputs
<1>8. ASSUME NEW F \in SUBSET Outputs, Pause(F) PROVE PipelineInv'
  <2>1. ASSUME NEW r \in Outs, OutputInv(r, lock)
        PROVE  LET idle == [r EXCEPT !.state = "Idle"]
               IN  /\ OutputInv(idle, lock)
                   /\ OutputInv([idle EXCEPT !.shown = "other"], lock)
                   /\ OutputInv([DropFrames(idle) EXCEPT !.shown = "other"], lock)
    <3> DEFINE idle == [r EXCEPT !.state = "Idle"]
    <3>1. idle \in Outs /\ Same(r, idle)
      BY DEF Same, Outs, RepaintStates
    <3>2. OutputInv(idle, lock)
      BY <2>1, <3>1, SameInv
    <3>3. OutputInv([idle EXCEPT !.shown = "other"], lock)
      BY <3>1, <3>2 DEF OutputInv, Blank, Covered, Outs, Scenes
    <3>4. OutputInv([DropFrames(idle) EXCEPT !.shown = "other"], lock)
      <4>1. /\ DropFrames(idle) \in Outs /\ DropFrames(idle).pending = "none"
            /\ DropFrames(idle).queued = "none" /\ DropFrames(idle).conn = idle.conn
            /\ DropFrames(idle).off = idle.off /\ DropFrames(idle).lockFrame = idle.lockFrame
        BY <3>1, DropFields
      <4> QED BY <3>2, <4>1 DEF OutputInv, Blank, Covered, Outs, Scenes
    <3> QED BY <3>2, <3>3, <3>4
  <2> QED BY <1>8, <2>1 DEF Pause
<1>9. ASSUME NEW R \in SUBSET Outputs, Resume(R) PROVE PipelineInv'
  <2>1. ASSUME NEW r \in Outs, OutputInv(r, lock) PROVE OutputInv(Activated(r), lock)
    <3> DEFINE s == Activated(r)
    <3>1. /\ s.pending = "none" /\ s.queued = "none" /\ s.conn = r.conn /\ s.off = r.off
          /\ s.lockFrame = r.lockFrame /\ s.shown = "other"
      BY ActivatedFields
    <3> HIDE DEF s
    <3>2. OutputInv(s, lock)
      BY <2>1, <3>1 DEF OutputInv, Blank, Covered, Scenes
    <3> QED BY <3>2 DEF s
  <2>2. ASSUME NEW r \in Outs, OutputInv(r, lock) PROVE OutputInv(Resumed(r), lock)
    <3>1. OutputInv(ScheduleRender(Activated(r)), lock)
      BY <2>1, <2>2, ActivatedFields, ScheduleSame, SameInv
    <3>2. r.conn => OutputInv(DpmsOff(Activated(r)), lock)
      BY ActivatedFields, ClearFields, BlankInv
    <3>3. OutputInv([r EXCEPT !.state = "Idle"], lock)
      <4>1. Same(r, [r EXCEPT !.state = "Idle"])
        BY DEF Same, Outs
      <4> QED BY <2>2, <4>1, SameInv
    <3> QED BY <3>1, <3>2, <3>3 DEF Resumed
  <2> QED BY <1>9, <2>1, <2>2 DEF Resume
<1>10. CASE Drain
  BY <1>10 DEF Drain
<1>11. ASSUME NEW o \in Outputs, PowerOff(o) PROVE PipelineInv'
  <2> DEFINE r == [DpmsOff(out[o]) EXCEPT !.off = TRUE]
  <2>1. DpmsOff(out[o]) \in Outs /\ Blank(DpmsOff(out[o])) /\ DpmsOff(out[o]).conn
    BY <1>11, ClearType, ClearFields DEF PowerOff
  <2>2. Blank(r) /\ r.conn
    BY <2>1 DEF Outs, Blank
  <2>3. OutputInv(r, lock)
    BY <2>2, BlankInv
  <2>4. \A p \in Outputs : OutputInv(out'[p], lock)
    <3>1. r \in Outs
      BY <2>1 DEF Outs
    <3>2. /\ [out EXCEPT ![o] = r] \in [Outputs -> Outs]
          /\ \A p \in Outputs : OutputInv([out EXCEPT ![o] = r][p], lock)
      BY <2>3, <3>1
    <3> QED BY <1>11, <3>2, ReleasedInv DEF PowerOff
  <2>5. out' \in [Outputs -> Outs]
    BY NextType
  <2> QED BY <1>11, <2>4, <2>5, SendInv DEF PowerOff
<1>12. ASSUME NEW o \in Outputs, PowerOn(o) PROVE PipelineInv'
  BY <1>5, <1>6, <1>12 DEF PowerOn
<1>13. ASSUME NEW o \in Outputs, Connect(o) PROVE PipelineInv'
  <2> DEFINE r == [out[o] EXCEPT !.conn = TRUE]
  <2>1. r \in Outs /\ Blank(r) /\ r.conn
    BY <1>13 DEF Connect, OutputInv, Outs, Blank
  <2>2. OutputInv(r, lock)
    BY <2>1, BlankInv
  <2>3. OutputInv(NewOutput(out[o]), lock)
    BY <2>1, <2>2, ScheduleSame, SameInv DEF NewOutput
  <2> QED BY <1>13, <2>3 DEF Connect
<1>14. ASSUME NEW s, NEW n PROVE OutputInv(Gone(s, n), lock)
  BY BlankInv DEF Gone, Blank, Scenes
<1>15. ASSUME NEW o \in Outputs, Disconnect(o) PROVE PipelineInv'
  <2> DEFINE dropped == [out EXCEPT ![o].state = "Idle", ![o].wake = FALSE]
  <2>1. /\ dropped \in [Outputs -> Outs]
        /\ \A p \in Outputs : OutputInv(dropped[p], lock)
    <3>1. /\ [out[o] EXCEPT !.state = "Idle", !.wake = FALSE] \in Outs
          /\ Same(out[o], [out[o] EXCEPT !.state = "Idle", !.wake = FALSE])
      BY DEF Outs, RepaintStates, Same
    <3>2. OutputInv([out[o] EXCEPT !.state = "Idle", !.wake = FALSE], lock)
      BY <3>1, SameInv
    <3> QED BY <3>1, <3>2
  <2>2. \A outs \in Released(dropped), p \in Outputs : OutputInv(outs[p], lock)
    BY <2>1, ReleasedInv
  <2>3. \A outs \in Released(dropped) : outs \in [Outputs -> Outs]
    BY <2>1, ReleasedType
  <2> HIDE DEF dropped
  <2>4. \A p \in Outputs : OutputInv(out'[p], lock)
    <3>1. PICK outs \in Released(dropped) :
            out' = [outs EXCEPT ![o] = Gone(outs[o].state, outs[o].idles)]
      BY <1>15 DEF Disconnect, dropped
    <3>2. outs \in [Outputs -> Outs] /\ \A p \in Outputs : OutputInv(outs[p], lock)
      BY <2>2, <2>3
    <3>3. OutputInv(Gone(outs[o].state, outs[o].idles), lock)
      BY <1>14
    <3> QED BY <3>1, <3>2, <3>3
  <2>5. out' \in [Outputs -> Outs]
    BY NextType
  <2> QED BY <1>15, <2>4, <2>5, SendInv DEF Disconnect
<1>16. ASSUME NEW o \in Outputs, RenderWake(o) PROVE PipelineInv'
  <2> DEFINE r == [out[o] EXCEPT !.wake = FALSE]
  <2>1. r \in Outs /\ Same(out[o], r)
    BY DEF Outs, Same
  <2>2. OutputInv(ScheduleRender(r), lock)
    BY <2>1, ScheduleSame, SameInv
  <2> QED BY <1>16, <2>2 DEF RenderWake
<1>17. ASSUME NEW o \in Outputs, RunIdle(o) PROVE PipelineInv'
  <2> DEFINE idle == [out[o] EXCEPT !.state = "Idle", !.idles = @ - 1]
  <2>1. idle \in Outs
    <3>1. out[o] \in Outs /\ out[o].idles - 1 \in 0..MaxIdles
      BY <1>17, MaxIdlesAssumption DEF RunIdle, Outs
    <3> QED BY <3>1 DEF Outs, RepaintStates
  <2>2. OutputInv(idle, lock)
    <3>1. Same(out[o], idle)
      BY DEF Outs, Same
    <3> QED BY <3>1, SameInv
  <2>3. \A r \in RenderSurface(idle, Scene(lock), paused) : OutputInv(r, lock)
    BY <2>1, <2>2, RenderInv
  <2> QED BY <1>17, <2>3 DEF RunIdle
<1>18. ASSUME NEW o \in Outputs, FrameFinish(o) PROVE PipelineInv'
  <2> DEFINE done == Presented(out[o], paused)
             outs == [out EXCEPT ![o] = done]
  <2>1. done \in Outs /\ OutputInv(done, lock)
    BY <1>18, FinishType, FinishInv DEF FrameFinish
  <2>2. outs \in [Outputs -> Outs] /\ \A p \in Outputs : OutputInv(outs[p], lock)
    BY <2>1
  <2>3. /\ lock' \in LockPhases /\ (lock' = lock \/ lock' = MaybeSendLocked(lock, outs))
        /\ Scene(lock') = Scene(lock)
    BY <1>18, SendType DEF FrameFinish, MaybeSendLocked, Scene, IsLocked
  <2>4. \A p \in Outputs : OutputInv(outs[p], lock')
    BY <2>2, <2>3, SendInv
  <2>5. OutputInv(done, lock')
    BY <2>4
  <2>6. \A r \in RenderSurface(done, Scene(lock'), paused) : OutputInv(r, lock')
    BY <2>1, <2>3, <2>5, RenderInv
  <2>7. ASSUME NEW r \in Outs, OutputInv(r, lock'), NEW e \in Released([out EXCEPT ![o] = r])
        PROVE  \A p \in Outputs : OutputInv(e[p], lock')
    <3>1. /\ [out EXCEPT ![o] = r] \in [Outputs -> Outs]
          /\ \A p \in Outputs : OutputInv([out EXCEPT ![o] = r][p], lock')
      BY <2>4, <2>7
    <3> QED BY <3>1, ReleasedInv
  <2>8. \A r \in RenderSurface(done, Scene(lock'), paused) : r \in Outs
    BY <2>1, <2>3, SceneType, RenderType
  <2> QED BY <1>18, <2>1, <2>3, <2>5, <2>6, <2>7, <2>8 DEF FrameFinish
<1>19. ASSUME NEW o \in Outputs, FrameFinishFailed(o) PROVE PipelineInv'
  BY <1>19, FinishInv DEF FrameFinishFailed
<1>20. ASSUME NEW o \in Outputs, LateVblank(o) PROVE PipelineInv'
  <2>1. Same(out[o], [out[o] EXCEPT !.late = FALSE, !.state = "Idle"])
    BY DEF Outs, Same
  <2>2. OutputInv([out[o] EXCEPT !.late = FALSE, !.state = "Idle"], lock)
    BY <2>1, SameInv
  <2> QED BY <1>20, <2>2 DEF LateVblank
<1>21. CASE UNCHANGED vars
  BY <1>21 DEF vars
<1> QED
  BY <1>2, <1>3, <1>4, <1>7, <1>8, <1>9, <1>10, <1>11, <1>12, <1>13, <1>15,
     <1>16, <1>17, <1>18, <1>19, <1>20, <1>21 DEF Next

THEOREM PipelineHolds == Spec => []PipelineInv
BY PipelineInit, PipelineStep, TypeCorrect, PTL DEF Spec

\* However many redraws wait and whatever is switched, replaced or paused: at the
\* `locked` event every panel is covered or is covered by its next flip.
THEOREM LockGap == Spec => []LockGapIsOneFlip
<1>1. PipelineInv => LockGapIsOneFlip
  BY DEF PipelineInv, OutputInv, LockGapIsOneFlip
<1> QED BY <1>1, PipelineHolds, PTL

\* set_output_dpms, render_surface and the resume path keep the compositor's pictures
\* off a blanked panel.
THEOREM BlankedStaysDark == Spec => []OffStaysDark
<1>1. PipelineInv => OffStaysDark
  BY DEF PipelineInv, OutputInv, Blank, OffStaysDark
<1> QED BY <1>1, PipelineHolds, PTL

-----------------------------------------------------------------------------
(* What a step does to the pipeline and the marks of one output.           *)

\* No frame is started or brought to the panel, and no lock frame gets presented.
Quiet(r, s) ==
  /\ s.pending \in {r.pending, "none"}
  /\ s.shown \in {r.shown, "dark", "other"}
  /\ s.lockFrame = "Presented" => r.lockFrame = "Presented"

LEMMA SameQuiet == ASSUME NEW r, NEW s, Same(r, s) PROVE Quiet(r, s)
BY DEF Same, Quiet

LEMMA ScheduleQuiet ==
  ASSUME NEW r, NEW s \in Outs, Quiet(r, s) PROVE Quiet(r, ScheduleRender(s))
BY ScheduleSame DEF Same, Quiet

LEMMA ReleasedQuiet ==
  ASSUME NEW outs \in [Outputs -> Outs], NEW e \in Released(outs), NEW o \in Outputs,
         NEW r, Quiet(r, outs[o])
  PROVE  Quiet(r, e[o])
BY ReleasedSame DEF Same, Quiet

LEMMA PoweredQuiet == ASSUME NEW r \in Outs PROVE Quiet(r, PoweredOn(r))
<1> DEFINE s == [DpmsOn(r) EXCEPT !.off = FALSE]
<1>1. DpmsOn(r) \in Outs /\ Same(r, DpmsOn(r))
  BY ClearType, ClearFields
<1>2. s \in Outs /\ Quiet(r, s)
  BY <1>1 DEF Outs, Same, Quiet
<1> QED BY <1>2, ScheduleQuiet DEF PoweredOn

LEMMA BlankQuiet ==
  ASSUME NEW r \in Outs, NEW s \in Outs, s.pending = "none", s.shown \in {"dark", "other"},
         s.lockFrame \in {r.lockFrame, "None"}
  PROVE  Quiet(r, s)
BY DEF Quiet

LEMMA DarkFields == ASSUME NEW r \in Outs PROVE DpmsOff(r).shown = "dark"
<1>1. ClearCrtc(r).shown = "dark" /\ ClearCrtc(r) \in Outs
  <2>1. DropFrames(r) \in Outs
    BY ClearType
  <2> QED BY <2>1, ClearType DEF ClearCrtc, Outs
<1> QED BY <1>1 DEF DpmsOff, Outs

\* Only a render starts a frame, and only a retired frame comes to the panel.
LEMMA QuietStep ==
  ASSUME TypeOK, [Next]_vars, NEW o \in Outputs
  PROVE  Quiet(out[o], out'[o]) \/ RunIdle(o) \/ FrameFinish(o) \/ FrameFinishFailed(o)
<1> USE DEF TypeOK
<1>1. Quiet(out[o], out[o])
  BY DEF Quiet
<1>2. ASSUME NEW S \in SUBSET Outputs, ClientCommit(S) PROVE Quiet(out[o], out'[o])
  BY <1>1, <1>2, ReleasedQuiet DEF ClientCommit, Released
<1>3. CASE Lock \/ Unlock
  <2>1. /\ ResetLockFrames(out)[o] \in Outs /\ Quiet(out[o], ResetLockFrames(out)[o])
    BY DEF ResetLockFrames, Outs, LockFrames, Quiet
  <2> QED BY <1>3, <2>1, ScheduleQuiet DEF Lock, Unlock, ScheduleAll
<1>4. CASE WakeOutputs \/ \E q \in Outputs : PowerOn(q)
  BY <1>1, <1>4, PoweredQuiet DEF WakeOutputs, PowerOn
<1>5. /\ [out[o] EXCEPT !.state = "Idle"] \in Outs
      /\ Same(out[o], [out[o] EXCEPT !.state = "Idle"])
  BY DEF Outs, RepaintStates, Same
<1>6. ASSUME NEW F \in SUBSET Outputs, Pause(F) PROVE Quiet(out[o], out'[o])
  <2> DEFINE idle == [out[o] EXCEPT !.state = "Idle"]
  <2>1. idle \in Outs /\ Same(out[o], idle)
    BY <1>5
  <2> HIDE DEF idle
  <2>2. /\ DropFrames(idle) \in Outs /\ DropFrames(idle).pending = "none"
        /\ DropFrames(idle).lockFrame = idle.lockFrame
    BY <2>1, DropFields
  <2>3. Quiet(out[o], idle) /\ Quiet(out[o], [idle EXCEPT !.shown = "other"])
    BY <2>1 DEF Outs, Same, Quiet
  <2>4. Quiet(out[o], [DropFrames(idle) EXCEPT !.shown = "other"])
    BY <2>1, <2>2 DEF Outs, Same, Quiet
  <2>5. out'[o] \in {idle, [idle EXCEPT !.shown = "other"],
                    [DropFrames(idle) EXCEPT !.shown = "other"]}
    BY <1>6 DEF Pause, idle
  <2> QED BY <2>3, <2>4, <2>5
<1>7. ASSUME NEW R \in SUBSET Outputs, Resume(R) PROVE Quiet(out[o], out'[o])
  <2> DEFINE active == Activated(out[o])
  <2>1. /\ active \in Outs /\ active.pending = "none" /\ active.shown = "other"
        /\ active.lockFrame = out[o].lockFrame
    BY ActivatedFields
  <2>2. out'[o] \in {[out[o] EXCEPT !.state = "Idle"], active, DpmsOff(active),
                    ScheduleRender(active)}
    BY <1>7 DEF Resume, Resumed
  <2> HIDE DEF active
  <2>3. Quiet(out[o], active) /\ Quiet(out[o], ScheduleRender(active))
    BY <2>1, BlankQuiet, ScheduleQuiet
  <2>4. Quiet(out[o], DpmsOff(active))
    <3> DEFINE s == DpmsOff(active)
    <3>1. s.pending = "none" /\ s.shown = "dark" /\ s.lockFrame = active.lockFrame
      BY <2>1, ClearFields, DarkFields DEF Blank
    <3> HIDE DEF s
    <3>2. Quiet(out[o], s)
      BY <2>1, <3>1 DEF Quiet
    <3> QED BY <3>2 DEF s
  <2>5. Quiet(out[o], [out[o] EXCEPT !.state = "Idle"])
    BY <1>5, SameQuiet
  <2> QED BY <2>2, <2>3, <2>4, <2>5
<1>8. CASE Drain \/ UNCHANGED vars
  BY <1>1, <1>8 DEF Drain, vars
<1>9. ASSUME NEW q \in Outputs, PowerOff(q) PROVE Quiet(out[o], out'[o])
  <2> DEFINE r == [DpmsOff(out[q]) EXCEPT !.off = TRUE]
             outs == [out EXCEPT ![q] = r]
  <2>1. /\ DpmsOff(out[q]) \in Outs /\ DpmsOff(out[q]).pending = "none"
        /\ DpmsOff(out[q]).shown = "dark" /\ DpmsOff(out[q]).lockFrame = out[q].lockFrame
    BY ClearType, ClearFields, DarkFields DEF Blank
  <2>2. r \in Outs /\ Quiet(out[q], r)
    BY <2>1 DEF Outs, Quiet
  <2>3. outs \in [Outputs -> Outs] /\ Quiet(out[o], outs[o])
    BY <1>1, <2>2
  <2>4. out' \in Released(outs)
    BY <1>9 DEF PowerOff
  <2> HIDE DEF outs
  <2> QED BY <2>3, <2>4, ReleasedQuiet
<1>10. ASSUME NEW q \in Outputs, Connect(q) PROVE Quiet(out[o], out'[o])
  <2> DEFINE r == [out[q] EXCEPT !.conn = TRUE]
  <2>1. r \in Outs /\ Quiet(out[q], r)
    BY DEF Outs, Quiet
  <2>2. Quiet(out[q], NewOutput(out[q]))
    BY <2>1, ScheduleQuiet DEF NewOutput
  <2> QED BY <1>1, <1>10, <2>2 DEF Connect
<1>11. ASSUME NEW q \in Outputs, Disconnect(q) PROVE Quiet(out[o], out'[o])
  <2> DEFINE dropped == [out EXCEPT ![q].state = "Idle", ![q].wake = FALSE]
  <2>1. dropped \in [Outputs -> Outs] /\ Quiet(out[o], dropped[o])
    BY DEF Outs, RepaintStates, Quiet
  <2>2. PICK outs \in Released(dropped) :
          out' = [outs EXCEPT ![q] = Gone(outs[q].state, outs[q].idles)]
    BY <1>11 DEF Disconnect
  <2> HIDE DEF dropped
  <2>3. outs \in [Outputs -> Outs] /\ Quiet(out[o], outs[o])
    BY <2>1, ReleasedQuiet, ReleasedType
  <2>4. Quiet(out[o], Gone(outs[q].state, outs[q].idles))
    BY DEF Gone, Quiet
  <2> QED BY <2>2, <2>3, <2>4
<1>12. ASSUME NEW q \in Outputs, RenderWake(q) PROVE Quiet(out[o], out'[o])
  <2> DEFINE r == [out[q] EXCEPT !.wake = FALSE]
  <2>1. r \in Outs /\ Quiet(out[q], r)
    BY DEF Outs, Quiet
  <2>2. Quiet(out[q], ScheduleRender(r))
    BY <2>1, ScheduleQuiet
  <2> QED BY <1>1, <1>12, <2>2 DEF RenderWake
<1>13. ASSUME NEW q \in Outputs \ {o}, RunIdle(q) \/ FrameFinishFailed(q) PROVE Quiet(out[o], out'[o])
  BY <1>1, <1>13 DEF RunIdle, FrameFinishFailed
<1>14. ASSUME NEW q \in Outputs \ {o}, FrameFinish(q) PROVE Quiet(out[o], out'[o])
  <2> DEFINE done == Presented(out[q], paused)
  <2>1. done \in Outs
    BY <1>14, FinishType DEF FrameFinish
  <2>2. PICK r \in Outs : out' \in Released([out EXCEPT ![q] = r])
    <3>1. RenderSurface(done, Scene(lock), paused) \subseteq Outs
      BY <2>1, SceneType, RenderType
    <3> QED BY <1>14, <2>1, <3>1 DEF FrameFinish
  <2> DEFINE outs == [out EXCEPT ![q] = r]
  <2>3. outs \in [Outputs -> Outs] /\ outs[o] = out[o]
    OBVIOUS
  <2> HIDE DEF outs
  <2> QED BY <1>1, <2>2, <2>3, ReleasedQuiet DEF outs
<1>15. ASSUME NEW q \in Outputs, LateVblank(q) PROVE Quiet(out[o], out'[o])
  BY <1>15 DEF LateVblank, Outs, Quiet
<1> QED
  BY <1>2, <1>3, <1>4, <1>6, <1>7, <1>8, <1>9, <1>10, <1>11, <1>12, <1>13, <1>14, <1>15 DEF Next

-----------------------------------------------------------------------------
(* Which outputs a frame goes to.                                          *)

\* An output of which a step starts the pipeline is live after the step.
Starts(r, s, p) == r.pending = "none" /\ s.pending # "none" => Live(s, p)

\* render_surface gives frames to live outputs only; it changes no panel and marks no
\* lock frame presented.
LEMMA RenderStarts ==
  ASSUME NEW r \in Outs, NEW scene \in Scenes, NEW p \in BOOLEAN,
         NEW e \in RenderSurface(r, scene, p)
  PROVE  /\ Starts(r, e, p) /\ e.shown = r.shown /\ e.conn = r.conn /\ e.off = r.off
         /\ e.lockFrame = "Presented" => r.lockFrame = "Presented"
<1>1. CASE ~Live(r, p)
  BY <1>1 DEF RenderSurface, Starts
<1>2. CASE Live(r, p)
  <2> DEFINE s == FrameQueued(r, scene)
  <2>1. /\ s \in Outs /\ s.conn = r.conn /\ s.off = r.off /\ s.shown = r.shown
        /\ s.lockFrame = IF scene = "lock" THEN "Queued" ELSE r.lockFrame
    BY FrameQueuedType, QueuedFields
  <2> HIDE DEF s
  <2>2. \E t \in {r, s, ScheduleRenderAfter(r)} : e \in {t, ScheduleRenderAfter(t)}
    BY <1>2 DEF RenderSurface, RenderEnds, s
  <2>3. \A t \in Outs : Same(t, ScheduleRenderAfter(t)) /\ ScheduleRenderAfter(t) \in Outs
    BY ScheduleSame DEF ScheduleRenderAfter, Outs
  <2>4. /\ e.conn = r.conn /\ e.off = r.off /\ e.shown = r.shown
        /\ e.lockFrame = "Presented" => r.lockFrame = "Presented"
    BY <2>1, <2>2, <2>3 DEF Same
  <2> QED BY <1>2, <2>4 DEF Starts, Live
<1> QED BY <1>1, <1>2

\* The redraw callback of an output.
LEMMA IdleStep ==
  ASSUME TypeOK, NEW o \in Outputs, RunIdle(o)
  PROVE  /\ Starts(out[o], out'[o], paused') /\ out'[o].shown = out[o].shown /\ lock' = lock
         /\ out'[o].lockFrame = "Presented" => out[o].lockFrame = "Presented"
<1> DEFINE idle == [out[o] EXCEPT !.state = "Idle", !.idles = @ - 1]
<1>1. /\ idle \in Outs /\ idle.pending = out[o].pending /\ idle.shown = out[o].shown
      /\ idle.lockFrame = out[o].lockFrame
  <2>1. out[o] \in Outs /\ out[o].idles - 1 \in 0..MaxIdles
    BY MaxIdlesAssumption DEF RunIdle, TypeOK, Outs
  <2> QED BY <2>1 DEF Outs, RepaintStates
<1>2. PICK r \in RenderSurface(idle, Scene(lock), paused) : out' = [out EXCEPT ![o] = r]
  BY DEF RunIdle
<1>3. out'[o] = r /\ paused' = paused /\ lock' = lock
  BY <1>2 DEF RunIdle, TypeOK
<1> HIDE DEF idle
<1>4. /\ Starts(idle, r, paused) /\ r.shown = idle.shown
      /\ r.lockFrame = "Presented" => idle.lockFrame = "Presented"
  BY <1>1, SceneType, RenderStarts DEF TypeOK
<1> QED BY <1>1, <1>3, <1>4 DEF Starts

\* The flip of an output: what was pending is shown; only a queued lock frame gets
\* presented, and only with it the lock may be granted.
LEMMA FinishStep ==
  ASSUME TypeOK, NEW o \in Outputs, FrameFinish(o)
  PROVE  /\ out'[o].shown = IF paused THEN "other" ELSE out[o].pending
         /\ out[o].lockFrame # "Queued" =>
              lock' = lock /\ (out'[o].lockFrame = "Presented" => out[o].lockFrame = "Presented")
         /\ lock' = lock \/ (lock = "Locking" /\ lock' = "Locked")
<1> USE DEF TypeOK
<1> DEFINE done == Presented(out[o], paused)
<1>1. /\ done \in Outs /\ done.shown = IF paused THEN "other" ELSE out[o].pending
      /\ done.lockFrame = IF out[o].lockFrame = "Queued" THEN "Presented" ELSE out[o].lockFrame
  BY FinishType, FinishFields DEF FrameFinish
<1>2. PICK r \in (IF out[o].state = "AwaitingDamaged"
                  THEN RenderSurface(done, Scene(lock), paused) ELSE {done}) :
        out' \in Released([out EXCEPT ![o] = r])
  BY DEF FrameFinish
<1>3. /\ lock' = IF out[o].lockFrame = "Queued"
                 THEN MaybeSendLocked(lock, [out EXCEPT ![o] = done]) ELSE lock
  BY DEF FrameFinish
<1> HIDE DEF done
<1>4. /\ r \in Outs /\ r.shown = done.shown
      /\ r.lockFrame = "Presented" => done.lockFrame = "Presented"
  BY <1>1, <1>2, SceneType, RenderType, RenderStarts
<1>5. out'[o].shown = r.shown /\ out'[o].lockFrame = r.lockFrame
  <2> DEFINE outs == [out EXCEPT ![o] = r]
  <2>1. outs \in [Outputs -> Outs] /\ outs[o] = r
    BY <1>4
  <2> HIDE DEF outs
  <2> QED BY <1>2, <2>1, ReleasedSame DEF Same, outs
<1>6. lock' = lock \/ (lock = "Locking" /\ lock' = "Locked")
  BY <1>3 DEF MaybeSendLocked
<1> QED BY <1>1, <1>3, <1>4, <1>5, <1>6

\* No step starts the pipeline of an output that is blanked, gone or owned by another
\* session, whatever the callbacks and events that were waiting when it became so.
THEOREM FramesGoToLive == Spec => FramesOnlyToLive
<1> DEFINE ToLive == \A o \in Outputs :
             out[o].pending = "none" /\ out'[o].pending # "none" => Live(out'[o], paused')
<1>1. ASSUME TypeOK, [Next]_vars, NEW o \in Outputs PROVE Starts(out[o], out'[o], paused')
  <2>1. CASE Quiet(out[o], out'[o])
    BY <2>1 DEF Quiet, Starts
  <2>2. CASE FrameFinish(o) \/ FrameFinishFailed(o)
    BY <2>2 DEF FrameFinish, FrameFinishFailed, Starts
  <2> QED BY <1>1, <2>1, <2>2, QuietStep, IdleStep
<1>2. TypeOK /\ [Next]_vars => [ToLive]_vars
  BY <1>1 DEF Starts
<1> HIDE DEF ToLive
<1>3. Spec => [][ToLive]_vars
  BY TypeCorrect, <1>2, PTL DEF Spec
<1> QED BY <1>3 DEF ToLive, FramesOnlyToLive

-----------------------------------------------------------------------------
(* When a panel can be exposed, and what the lock promises all the same.   *)

LEMMA PhaseStep ==
  TypeOK /\ [Next]_vars =>
    \/ lock' = lock
    \/ lock = "Unlocked" /\ lock' \in {"Locking", "Locked"}
    \/ lock = "Locking" /\ lock' = "Locked"
    \/ lock = "Locked" /\ lock' = "Unlocked"
<1>1. \A phase, outs : \/ MaybeSendLocked(phase, outs) = phase
                       \/ phase = "Locking" /\ MaybeSendLocked(phase, outs) = "Locked"
  BY DEF MaybeSendLocked
<1> QED
  BY <1>1 DEF Next, vars, ClientCommit, Lock, Unlock, WakeOutputs, Pause, Resume, Drain,
              PowerOff, PowerOn, Connect, Disconnect, RenderWake,
              RunIdle, FrameFinish, FrameFinishFailed, LateVblank

\* A lock starts with no mark on any output.
LEMMA LockStep ==
  ASSUME TypeOK, [Next]_vars, lock = "Unlocked", lock' # "Unlocked", NEW o \in Outputs
  PROVE  out'[o].conn => out'[o].lockFrame = "None"
<1>1. \A outs : MaybeSendLocked("Unlocked", outs) = "Unlocked"
  BY DEF MaybeSendLocked
<1>2. Lock
  BY <1>1 DEF Next, vars, ClientCommit, Unlock, WakeOutputs, Pause, Resume, Drain,
              PowerOff, PowerOn, Connect, Disconnect, RenderWake,
              RunIdle, FrameFinish, FrameFinishFailed, LateVblank
<1>3. /\ ResetLockFrames(out)[o] \in Outs
      /\ ResetLockFrames(out)[o].conn => ResetLockFrames(out)[o].lockFrame = "None"
  BY DEF ResetLockFrames, Outs, LockFrames, TypeOK
<1>4. out'[o] = ScheduleRender(ResetLockFrames(out)[o])
  BY <1>2 DEF Lock, ScheduleAll
<1> QED BY <1>3, <1>4, ScheduleSame DEF Same

\* `locked` is sent when the outputs that are on have presented.
LEMMA GrantStep ==
  ASSUME TypeOK, [Next]_vars, lock # "Locked", lock' = "Locked", NEW o \in Outputs
  PROVE  \/ out'[o].conn /\ ~out'[o].off => out'[o].lockFrame = "Presented"
         \/ FrameFinish(o)
<1>1. \A phase, outs : MaybeSendLocked(phase, outs) = "Locked" /\ phase # "Locked" =>
        \A p \in Outputs : outs[p].conn /\ ~outs[p].off => outs[p].lockFrame = "Presented"
  BY DEF MaybeSendLocked
<1>2. CASE Lock
  <2>1. MaybeSendLocked("Locking", out') = "Locked"
    BY <1>2 DEF Lock
  <2> QED BY <1>1, <2>1
<1>3. CASE \E q \in Outputs : PowerOff(q) \/ Disconnect(q)
  <2>1. MaybeSendLocked(lock, out') = "Locked"
    BY <1>3 DEF PowerOff, Disconnect
  <2> QED BY <1>1, <2>1
<1>4. ASSUME NEW q \in Outputs \ {o}, FrameFinish(q)
      PROVE  out'[o].conn /\ ~out'[o].off => out'[o].lockFrame = "Presented"
  <2> DEFINE done == Presented(out[q], paused)
             outs == [out EXCEPT ![q] = done]
  <2>1. done \in Outs
    BY <1>4, FinishType DEF FrameFinish, TypeOK
  <2>2. MaybeSendLocked(lock, outs) = "Locked"
    BY <1>4 DEF FrameFinish
  <2>3. outs[o] = out[o]
    BY DEF TypeOK
  <2> HIDE DEF outs
  <2>4. out[o].conn /\ ~out[o].off => out[o].lockFrame = "Presented"
    BY <1>1, <2>2, <2>3
  <2>5. PICK r \in Outs : out' \in Released([out EXCEPT ![q] = r])
    <3>1. RenderSurface(done, Scene(lock), paused) \subseteq Outs
      BY <2>1, SceneType, RenderType DEF TypeOK
    <3> QED BY <1>4, <2>1, <3>1 DEF FrameFinish
  <2> DEFINE rest == [out EXCEPT ![q] = r]
  <2>6. rest \in [Outputs -> Outs] /\ rest[o] = out[o]
    BY DEF TypeOK
  <2> HIDE DEF rest
  <2>7. Same(rest[o], out'[o])
    BY <2>5, <2>6, ReleasedSame DEF rest
  <2> QED BY <2>4, <2>6, <2>7 DEF Same
<1> QED
  BY <1>2, <1>3, <1>4 DEF Next, vars, ClientCommit, Unlock, WakeOutputs, Pause, Resume, Drain,
     PowerOn, Connect, RenderWake, RunIdle, FrameFinishFailed, LateVblank

LEMMA ExposeStep ==
  ASSUME TypeOK, PipelineInv, [Next]_vars, NEW o \in Outputs, Exposed(out'[o], lock')
  PROVE  Exposed(out[o], lock) \/ (FrameFinish(o) /\ out[o].queued = "lock")
<1> USE DEF TypeOK
<1>1. OutputInv(out[o], lock) /\ OutputInv(out'[o], lock') /\ out'[o] \in Outs
  BY PipelineStep, NextType DEF PipelineInv
<1>2. out'[o].shown = "desk" /\ out'[o].conn /\ ~out'[o].off
  BY <1>1 DEF Exposed, OutputInv, Blank, Scenes, Outs
<1>3. lock' \in {"Locking", "Locked"}
  BY NextType DEF Exposed, IsLocked, LockPhases
\* A flip shows what was pending: the desktop only if no mark says otherwise.
<1>4. CASE FrameFinish(o)
  <2>1. out[o].pending = "desk" /\ out[o].lockFrame \in LockFrames
    BY <1>2, <1>4, FinishStep DEF Outs
  <2>2. IsLocked(lock)
    BY <1>3, <1>4, FinishStep DEF IsLocked
  <2>3. lock # "Locked" /\ out[o].lockFrame # "Presented"
    BY <1>1, <2>1, <2>2 DEF OutputInv, Covered
  <2>4. out[o].lockFrame # "Queued" => ~Exposed(out'[o], lock')
    BY <1>4, <2>3, FinishStep DEF Exposed
  <2> QED BY <1>1, <1>4, <2>1, <2>2, <2>4 DEF OutputInv
<1>5. CASE FrameFinishFailed(o)
  <2>1. /\ out[o].pending = "desk" /\ out'[o].lockFrame = out[o].lockFrame /\ lock' = lock
    BY <1>2, <1>5, FinishFields DEF FrameFinishFailed
  <2> QED BY <1>1, <2>1 DEF Exposed, OutputInv, Covered
<1>6. CASE (Quiet(out[o], out'[o]) \/ RunIdle(o)) /\ ~FrameFinish(o)
  <2>1. /\ out[o].shown = "desk"
        /\ out'[o].lockFrame = "Presented" => out[o].lockFrame = "Presented"
    BY <1>2, <1>6, IdleStep DEF Quiet
  <2>2. lock # "Locked" /\ lock' = "Locked" => out'[o].lockFrame = "Presented"
    BY <1>2, <1>6, GrantStep
  <2>3. lock = "Unlocked" => out'[o].lockFrame = "None"
    BY <1>2, <1>3, LockStep
  <2> QED BY <1>3, <2>1, <2>2, <2>3 DEF Exposed, IsLocked
<1> QED BY <1>4, <1>5, <1>6, QuietStep

\* However many callbacks wait, whatever is switched, replaced, paused or fails: a
\* panel is exposed only by a flip with the lock frame waiting behind it.
THEOREM OnlyPiledFramesExpose == Spec => OnlySecondFrameExposes
<1> DEFINE Step == \A o \in Outputs :
             Exposed(out'[o], lock') =>
               \/ Exposed(out[o], lock)
               \/ FrameFinish(o) /\ out[o].queued = "lock"
<1>1. TypeOK /\ PipelineInv /\ [Next]_vars => [Step]_vars
  BY ExposeStep
<1> HIDE DEF Step
<1>2. Spec => [][Step]_vars
  BY TypeCorrect, PipelineHolds, <1>1, PTL DEF Spec
<1> QED BY <1>2 DEF Step, OnlySecondFrameExposes

LEMMA PromiseInit == Init => Promise!Init
<1> SUFFICES ASSUME Init PROVE Promise!Init
  OBVIOUS
<1> DEFINE g == Gone("Idle", 0)
           n == NewOutput(g)
<1>1. g \in Outs /\ g.shown = "dark" /\ g.pending = "none" /\ g.queued = "none"
  BY GoneType, MaxIdlesAssumption DEF Gone, RepaintStates
<1>2. n.shown = "dark" /\ n.pending = "none" /\ n.queued = "none"
  <2> DEFINE r == [g EXCEPT !.conn = TRUE]
  <2>1. r \in Outs /\ r.shown = "dark" /\ r.pending = "none" /\ r.queued = "none"
    BY <1>1 DEF Outs
  <2> QED BY <2>1, ScheduleSame DEF NewOutput, Same
<1>3. \A o \in Outputs : out[o] = g \/ out[o] = n
  BY DEF Init
<1> HIDE DEF g, n
<1>4. \A o \in Outputs : out[o].shown # "desk" /\ Covered(out[o])
  BY <1>1, <1>2, <1>3 DEF Covered
<1> QED BY <1>4 DEF Init, Promise!Init

LEMMA PromiseStep ==
  TypeOK /\ PipelineInv /\ [Next]_vars => [Promise!Next]_Promise!vars
<1> SUFFICES ASSUME TypeOK, PipelineInv, [Next]_vars PROVE [Promise!Next]_Promise!vars
  OBVIOUS
<1> DEFINE showing == {o \in Outputs : out[o].shown = "desk"}
           bare    == {o \in Outputs : ~Covered(out[o])}
<1>1. lock' = "Locked" => bare' = {}
  BY PipelineStep DEF PipelineInv, OutputInv
\* Once it is locked a flip shows nothing but lock frames.
<1>2. ASSUME lock = "Locked", lock' = "Locked" PROVE showing' \subseteq showing
  <2> SUFFICES ASSUME NEW o \in Outputs, out'[o].shown = "desk" PROVE out[o].shown = "desk"
    OBVIOUS
  <2>1. out[o].pending # "desk" /\ out[o] \in Outs
    BY <1>2 DEF PipelineInv, OutputInv, Covered, TypeOK
  <2>2. ~FrameFinish(o)
    BY <2>1, FinishStep
  <2>3. ~FrameFinishFailed(o)
    BY <2>1, FinishFields DEF FrameFinishFailed, TypeOK
  <2> QED BY <2>2, <2>3, QuietStep, IdleStep DEF Quiet
<1>3. CASE lock' = lock
  BY <1>1, <1>2, <1>3 DEF Promise!Next, Promise!Screen
<1>4. CASE lock = "Unlocked" /\ lock' \in {"Locking", "Locked"}
  BY <1>1, <1>4 DEF Promise!Next, Promise!Request
<1>5. CASE lock = "Locking" /\ lock' = "Locked"
  BY <1>1, <1>5 DEF Promise!Next, Promise!Grant
<1>6. CASE lock = "Locked" /\ lock' = "Unlocked"
  BY <1>6 DEF Promise!Next, Promise!Release
<1> QED BY <1>3, <1>4, <1>5, <1>6, PhaseStep

\* Seen from outside, the compositor's lock over any number of outputs, with any
\* number of callbacks waiting, is the lock of LockPromise.
THEOREM LockKeepsPromise == Spec => KeepsPromise
BY PromiseInit, PromiseStep, TypeCorrect, PipelineHolds, PTL DEF Spec, KeepsPromise, Promise!Spec

-----------------------------------------------------------------------------
(* What waits comes, and which redraws are lost.                           *)

\* An output's part of AwaitedComes.
Comes(r) == /\ Awaiting(r) => r.pending # "none"
            /\ r.state = "RenderQueued" => r.idles > 0

\* schedule_render leaves an output that something will redraw.
LEMMA ScheduleArms ==
  ASSUME NEW r \in Outs, Comes(r), NEW scene, NEW p
  PROVE  Comes(ScheduleRender(r)) /\ Armed(ScheduleRender(r), scene, p)
<1>1. CASE r.conn /\ r.state = "Idle"
  <2>1. r.idles + 1 > 0
    BY MaxIdlesAssumption DEF Outs
  <2> QED BY <1>1, <2>1 DEF Armed, Comes, Awaiting, ScheduleRender, Outs
<1>2. CASE r.conn /\ Awaiting(r)
  BY <1>2 DEF Armed, Comes, ScheduleRender, Awaiting, Outs
<1>3. CASE r.conn /\ r.state = "RenderQueued"
  BY <1>3 DEF Armed, Comes, ScheduleRender, Awaiting
<1>4. CASE ~r.conn
  BY <1>4 DEF Armed, ScheduleRender, Live
<1> QED BY <1>1, <1>2, <1>3, <1>4 DEF Outs, RepaintStates, Awaiting

LEMMA IdleComes == ASSUME NEW r, r.state = "Idle" PROVE Comes(r)
BY DEF Comes, Awaiting

LEMMA RenderArms ==
  ASSUME NEW r \in Outs, NEW scene \in Scenes, NEW p \in BOOLEAN, r.state = "Idle",
         NEW e \in RenderSurface(r, scene, p)
  PROVE  Comes(e) /\ Armed(e, scene, p)
<1>1. CASE ~Live(r, p)
  BY <1>1, IdleComes DEF RenderSurface, Armed
<1>2. CASE Live(r, p)
  <2> DEFINE s == FrameQueued(r, scene)
  <2>1. s \in Outs /\ s.state = "AwaitingVblank" /\ s.pending # "none"
    <3>1. r.pending \in Frames
      BY DEF Outs
    <3> QED BY <3>1, FrameQueuedType, QueuedFields DEF Scenes
  <2>2. ~HasDamage(s, scene)
    <3>1. QueueFrame(r, scene) \in Outs
      BY DEF QueueFrame, Outs, Frames
    <3> QED BY <3>1 DEF FrameQueued, HasDamage, Outs
  <2> HIDE DEF s
  <2>3. Comes(r) /\ Comes(s) /\ Armed(s, scene, p)
    BY <2>1, <2>2, IdleComes DEF Comes, Armed
  <2>4. ASSUME NEW t \in Outs, Comes(t)
        PROVE  /\ Comes(ScheduleRenderAfter(t)) /\ Armed(ScheduleRenderAfter(t), scene, p)
               /\ ScheduleRenderAfter(t) \in Outs
    BY <2>4 DEF ScheduleRenderAfter, Comes, Awaiting, Armed, Outs
  <2>5. \/ e = r /\ ~HasDamage(r, scene)
        \/ e = s
        \/ \E t \in {r, s, ScheduleRenderAfter(r)} : e = ScheduleRenderAfter(t)
    BY <1>2 DEF RenderSurface, RenderEnds, s
  <2>6. ~HasDamage(r, scene) => Armed(r, scene, p)
    BY DEF Armed
  <2> QED BY <2>1, <2>3, <2>4, <2>5, <2>6
<1> QED BY <1>1, <1>2

\* A commit schedules, so it keeps what waits and arms what it damages.
LEMMA ReleasedArms ==
  ASSUME NEW outs \in [Outputs -> Outs], NEW e \in Released(outs), NEW o \in Outputs,
         Comes(outs[o])
  PROVE  /\ Comes(e[o])
         /\ \A scene, p : Armed(outs[o], scene, p) => Armed(e[o], scene, p)
         /\ ~Awaiting(outs[o]) => ~Awaiting(e[o])
<1>1. CASE e = outs
  BY <1>1
<1>2. ASSUME NEW S \in SUBSET Outputs, e = Commit(outs, S)
      PROVE  /\ Comes(e[o])
             /\ \A scene, p : Armed(e[o], scene, p)
             /\ ~Awaiting(outs[o]) => ~Awaiting(e[o])
  <2> DEFINE damaged == IF outs[o].conn /\ o \in S THEN [outs[o] EXCEPT !.dirty = TRUE] ELSE outs[o]
  <2>1. /\ damaged \in Outs /\ Comes(damaged)
        /\ Awaiting(damaged) => Awaiting(outs[o])
    BY DEF Outs, Comes, Awaiting
  <2>2. e[o] = ScheduleRender(damaged)
    BY <1>2 DEF Commit, ScheduleAll
  <2> HIDE DEF damaged
  <2>3. Comes(e[o]) /\ \A scene, p : Armed(e[o], scene, p)
    BY <2>1, <2>2, ScheduleArms
  <2>4. ~Awaiting(damaged) => ~Awaiting(ScheduleRender(damaged))
    BY <2>1 DEF ScheduleRender, Awaiting, Outs
  <2> QED BY <2>1, <2>2, <2>3, <2>4
<1> QED BY <1>1, <1>2 DEF Released

LEMMA AwaitedInit == Init => AwaitedComes
<1> SUFFICES ASSUME Init, NEW o \in Outputs PROVE Comes(out[o])
  BY DEF AwaitedComes, Comes
<1> DEFINE g == Gone("Idle", 0)
           r == [g EXCEPT !.conn = TRUE]
<1>1. g \in Outs /\ g.state = "Idle"
  BY GoneType, MaxIdlesAssumption DEF Gone, RepaintStates
<1>2. r \in Outs /\ r.state = "Idle"
  BY <1>1 DEF Outs
<1>3. Comes(NewOutput(g))
  BY <1>2, IdleComes, ScheduleArms DEF NewOutput
<1> QED BY <1>1, <1>3, IdleComes DEF Init

\* What a step may do to an output: what waits still comes, and an armed output
\* stays armed.
StillArmed(o) ==
  /\ Comes(out'[o])
  /\ Armed(out[o], Scene(lock), paused) => Armed(out'[o], Scene(lock'), paused')

LEMMA ArmedStep ==
  ASSUME TypeOK, AwaitedComes, [Next]_vars, NEW o \in Outputs
  PROVE  StillArmed(o) \/ (Comes(out'[o]) /\ FrameFinishFailed(o))
<1> USE DEF TypeOK
<1>1. \A q \in Outputs : Comes(out[q])
  BY DEF AwaitedComes, Comes
<1>2. \A outs : Scene(MaybeSendLocked(lock, outs)) = Scene(lock)
  BY DEF MaybeSendLocked, Scene, IsLocked
\* The other outputs, as long as scene and session stay.
<1>3. ASSUME out'[o] = out[o], Scene(lock') = Scene(lock), paused' = paused PROVE StillArmed(o)
  BY <1>1, <1>3 DEF StillArmed
<1>4. ASSUME NEW outs \in [Outputs -> Outs], out' \in Released(outs), Comes(outs[o]),
             outs[o] = out[o] \/ Armed(outs[o], Scene(lock), paused),
             Scene(lock') = Scene(lock), paused' = paused
      PROVE  StillArmed(o)
  BY <1>4, ReleasedArms DEF StillArmed
<1>5. ASSUME NEW S \in SUBSET Outputs, ClientCommit(S) PROVE StillArmed(o)
  <2>1. out' \in Released(out)
    BY <1>5 DEF ClientCommit, Released
  <2> QED BY <1>1, <1>4, <1>5, <2>1 DEF ClientCommit
<1>6. CASE Lock \/ Unlock
  <2>1. ResetLockFrames(out)[o] \in Outs /\ Comes(ResetLockFrames(out)[o])
    BY <1>1 DEF ResetLockFrames, Outs, LockFrames, Comes, Awaiting
  <2>2. out'[o] = ScheduleRender(ResetLockFrames(out)[o])
    BY <1>6 DEF Lock, Unlock, ScheduleAll
  <2> QED BY <2>1, <2>2, ScheduleArms DEF StillArmed
<1>7. ASSUME NEW r \in Outs PROVE Comes(PoweredOn(r)) /\ \A scene, p : Armed(PoweredOn(r), scene, p)
  <2> DEFINE s == [DpmsOn(r) EXCEPT !.off = FALSE]
  <2>1. DpmsOn(r) \in Outs /\ DpmsOn(r).state = "Idle"
    BY ClearType, ClearFields
  <2>2. s \in Outs /\ s.state = "Idle"
    BY <2>1 DEF Outs
  <2> QED BY <2>2, IdleComes, ScheduleArms DEF PoweredOn
<1>8. CASE WakeOutputs
  BY <1>1, <1>7, <1>8 DEF WakeOutputs, StillArmed
<1>9. ASSUME NEW q \in Outputs, PowerOn(q) PROVE StillArmed(o)
  BY <1>1, <1>7, <1>9 DEF PowerOn, StillArmed
<1>10. [out[o] EXCEPT !.state = "Idle"] \in Outs /\ [out[o] EXCEPT !.state = "Idle"].state = "Idle"
  BY DEF Outs, RepaintStates
<1>11. ASSUME NEW F \in SUBSET Outputs, Pause(F) PROVE StillArmed(o)
  <2> DEFINE idle == [out[o] EXCEPT !.state = "Idle"]
  <2>1. idle \in Outs /\ idle.state = "Idle"
    BY <1>10
  <2>2. out'[o] \in {idle, [idle EXCEPT !.shown = "other"],
                    [DropFrames(idle) EXCEPT !.shown = "other"]}
    BY <1>11 DEF Pause
  <2> HIDE DEF idle
  <2>3. DropFrames(idle) \in Outs /\ DropFrames(idle).state = "Idle"
    BY <2>1, DropFields
  <2>4. out'[o].state = "Idle"
    BY <2>1, <2>2, <2>3 DEF Outs
  <2> QED BY <1>11, <2>4, IdleComes DEF Pause, StillArmed, Armed, Live
<1>12. ASSUME NEW R \in SUBSET Outputs, Resume(R) PROVE StillArmed(o)
  <2> DEFINE active == Activated(out[o])
  <2>1. /\ active \in Outs /\ active.state = "Idle" /\ active.conn = out[o].conn
        /\ active.off = out[o].off
    BY ActivatedFields
  <2>2. \/ out'[o] = [out[o] EXCEPT !.state = "Idle"] /\ ~out[o].conn
        \/ out'[o] = active /\ out[o].off
        \/ out'[o] = DpmsOff(active) /\ out[o].off
        \/ out'[o] = ScheduleRender(active)
    BY <1>12 DEF Resume, Resumed
  <2> HIDE DEF active
  <2>3. DpmsOff(active).state = "Idle" /\ DpmsOff(active).off = active.off
    BY <2>1, ClearFields
  <2>4. [out[o] EXCEPT !.state = "Idle"].conn = out[o].conn
    BY DEF Outs
  <2>5. CASE out'[o] = ScheduleRender(active)
    BY <2>1, <2>5, IdleComes, ScheduleArms DEF StillArmed
  <2>6. CASE out'[o].state = "Idle" /\ (out'[o].off \/ ~out'[o].conn)
    BY <2>6, IdleComes DEF StillArmed, Armed, Live
  <2> QED BY <1>10, <2>1, <2>2, <2>3, <2>4, <2>5, <2>6
<1>13. CASE Drain \/ UNCHANGED vars
  BY <1>3, <1>13 DEF Drain, vars
<1>14. ASSUME NEW q \in Outputs, PowerOff(q) PROVE StillArmed(o)
  <2> DEFINE r == [DpmsOff(out[q]) EXCEPT !.off = TRUE]
             outs == [out EXCEPT ![q] = r]
  <2>1. DpmsOff(out[q]) \in Outs /\ DpmsOff(out[q]).state = "Idle"
    BY ClearType, ClearFields
  <2>2. r \in Outs /\ r.state = "Idle" /\ r.off
    BY <2>1 DEF Outs
  <2>3. Comes(r) /\ Armed(r, Scene(lock), paused)
    BY <2>2, IdleComes DEF Armed, Live
  <2>4. /\ outs \in [Outputs -> Outs] /\ Comes(outs[o])
        /\ outs[o] = out[o] \/ Armed(outs[o], Scene(lock), paused)
    BY <1>1, <2>2, <2>3
  <2>5. out' \in Released(outs) /\ Scene(lock') = Scene(lock) /\ paused' = paused
    BY <1>2, <1>14 DEF PowerOff
  <2> HIDE DEF outs
  <2> QED BY <1>4, <2>4, <2>5
<1>15. ASSUME NEW q \in Outputs, Connect(q) PROVE StillArmed(o)
  <2> DEFINE r == [out[q] EXCEPT !.conn = TRUE]
  <2>1. r \in Outs /\ Comes(r)
    BY <1>1 DEF Outs, Comes, Awaiting
  <2>2. Comes(NewOutput(out[q])) /\ \A scene, p : Armed(NewOutput(out[q]), scene, p)
    BY <2>1, ScheduleArms DEF NewOutput
  <2> QED BY <1>3, <1>15, <2>2 DEF Connect, StillArmed
<1>16. ASSUME NEW q \in Outputs, Disconnect(q) PROVE StillArmed(o)
  <2> DEFINE r == [out[q] EXCEPT !.state = "Idle", !.wake = FALSE]
             dropped == [out EXCEPT ![q] = r]
  <2>1. r \in Outs /\ r.state = "Idle"
    BY DEF Outs, RepaintStates
  <2>2. PICK outs \in Released(dropped) :
          out' = [outs EXCEPT ![q] = Gone(outs[q].state, outs[q].idles)]
    BY <1>16 DEF Disconnect
  <2>3. /\ dropped \in [Outputs -> Outs] /\ dropped[q].state = "Idle"
        /\ o # q => dropped[o] = out[o]
    BY <2>1
  <2> HIDE DEF dropped
  <2>4. outs \in [Outputs -> Outs]
    BY <2>3, ReleasedType
  <2>5. Scene(lock') = Scene(lock) /\ paused' = paused
    BY <1>2, <1>16 DEF Disconnect
  <2>6. CASE o # q
    <3>1. out'[o] = outs[o]
      BY <2>2, <2>4, <2>6
    <3> QED BY <1>1, <2>3, <2>5, <2>6, <3>1, ReleasedArms DEF StillArmed
  <2>7. CASE o = q
    <3> DEFINE s == outs[o].state
               n == outs[o].idles
    <3>1. Comes(outs[o]) /\ ~Awaiting(outs[o])
      BY <2>3, <2>7, IdleComes, ReleasedArms DEF Awaiting
    <3>2. out'[o] = Gone(s, n)
      BY <2>2, <2>4, <2>7
    <3>3. ~Gone(s, n).conn /\ Gone(s, n).state = s /\ Gone(s, n).idles = n
      BY DEF Gone
    <3>4. Comes(out'[o])
      BY <3>1, <3>2, <3>3 DEF Comes, Awaiting
    <3> QED BY <3>2, <3>3, <3>4 DEF StillArmed, Armed, Live
  <2> QED BY <2>6, <2>7
<1>17. ASSUME NEW q \in Outputs, RenderWake(q) PROVE StillArmed(o)
  <2> DEFINE r == [out[q] EXCEPT !.wake = FALSE]
  <2>1. r \in Outs /\ Comes(r)
    BY <1>1 DEF Outs, Comes, Awaiting
  <2>2. Comes(ScheduleRender(r)) /\ \A scene, p : Armed(ScheduleRender(r), scene, p)
    BY <2>1, ScheduleArms
  <2> QED BY <1>3, <1>17, <2>2 DEF RenderWake, StillArmed
<1>18. ASSUME NEW q \in Outputs, RunIdle(q) PROVE StillArmed(o)
  <2> DEFINE idle == [out[q] EXCEPT !.state = "Idle", !.idles = @ - 1]
  <2>1. idle \in Outs /\ idle.state = "Idle"
    <3>1. out[q] \in Outs /\ out[q].idles - 1 \in 0..MaxIdles
      BY <1>18, MaxIdlesAssumption DEF RunIdle, Outs
    <3> QED BY <3>1 DEF Outs, RepaintStates
  <2>2. PICK r \in RenderSurface(idle, Scene(lock), paused) : out' = [out EXCEPT ![q] = r]
    BY <1>18 DEF RunIdle
  <2> HIDE DEF idle
  <2>3. Comes(r) /\ Armed(r, Scene(lock), paused)
    BY <2>1, <2>2, SceneType, RenderArms
  <2> QED BY <1>3, <1>18, <2>2, <2>3 DEF RunIdle, StillArmed
<1>19. ASSUME NEW q \in Outputs, FrameFinish(q) PROVE StillArmed(o)
  <2> DEFINE done == Presented(out[q], paused)
  <2>1. done \in Outs /\ done.state = "Idle"
    BY <1>19, FinishType, FinishFields DEF FrameFinish
  <2>2. /\ done.conn = out[q].conn /\ done.off = out[q].off /\ done.idles = out[q].idles
        /\ done.wake = out[q].wake /\ done.dirty = out[q].dirty /\ done.drawn = out[q].drawn
    BY DEF Presented, FrameSubmitted, Outs
  <2>3. Scene(lock') = Scene(lock) /\ paused' = paused
    BY <1>2, <1>19 DEF FrameFinish
  <2>4. PICK r \in (IF out[q].state = "AwaitingDamaged"
                    THEN RenderSurface(done, Scene(lock), paused) ELSE {done}) :
          out' \in Released([out EXCEPT ![q] = r])
    BY <1>19 DEF FrameFinish
  <2> HIDE DEF done
  <2>5. /\ r \in Outs /\ Comes(r)
        /\ Armed(out[q], Scene(lock), paused) => Armed(r, Scene(lock), paused)
    <3>1. CASE out[q].state = "AwaitingDamaged"
      BY <2>1, <2>4, <3>1, SceneType, RenderType, RenderArms
    <3>2. CASE out[q].state # "AwaitingDamaged"
      <4>1. r = done
        BY <2>4, <3>2
      <4> QED BY <2>1, <2>2, <3>2, <4>1, IdleComes DEF Armed, Live, HasDamage
    <3> QED BY <3>1, <3>2
  <2> DEFINE outs == [out EXCEPT ![q] = r]
  <2>6. /\ outs \in [Outputs -> Outs] /\ Comes(outs[o])
        /\ Armed(out[o], Scene(lock), paused) => Armed(outs[o], Scene(lock), paused)
    BY <1>1, <2>5
  <2> HIDE DEF outs
  <2>7. out' \in Released(outs)
    BY <2>4 DEF outs
  <2> QED BY <2>3, <2>6, <2>7, ReleasedArms DEF StillArmed
<1>20. ASSUME NEW q \in Outputs, FrameFinishFailed(q)
       PROVE  StillArmed(o) \/ (Comes(out'[o]) /\ FrameFinishFailed(o))
  <2>1. SubmitFailed(out[q], paused).state = "Idle"
    BY DEF SubmitFailed, FrameSubmitted, Outs
  <2>2. CASE o = q
    BY <1>20, <2>1, <2>2, IdleComes DEF FrameFinishFailed
  <2>3. CASE o # q
    BY <1>3, <1>20, <2>3 DEF FrameFinishFailed
  <2> QED BY <2>2, <2>3
\* Nothing waits for the flip of a cancelled frame.
<1>21. ASSUME NEW q \in Outputs, LateVblank(q) PROVE StillArmed(o)
  <2> DEFINE r == [out[q] EXCEPT !.late = FALSE, !.state = "Idle"]
  <2>1. ~Awaiting(out[q])
    BY <1>1, <1>21 DEF LateVblank, Comes
  <2>2. out' = [out EXCEPT ![q] = r]
    BY <1>21 DEF LateVblank
  <2>3. r.state = "Idle" /\ (Armed(out[q], Scene(lock), paused) => Armed(r, Scene(lock), paused))
    BY <2>1 DEF Armed, Live, HasDamage, Awaiting, Outs
  <2> HIDE DEF r
  <2>4. Comes(r)
    BY <2>3, IdleComes
  <2> QED BY <1>3, <1>21, <2>2, <2>3, <2>4 DEF LateVblank, StillArmed
<1> QED
  BY <1>5, <1>6, <1>8, <1>9, <1>11, <1>12, <1>13, <1>14, <1>15, <1>16, <1>17, <1>18, <1>19,
     <1>20, <1>21 DEF Next

\* Whoever waits for a callback or a flip will get one, for any number of waiting
\* callbacks.
THEOREM AwaitedHolds == Spec => []AwaitedComes
<1>1. TypeOK /\ AwaitedComes /\ [Next]_vars => AwaitedComes'
  BY ArmedStep DEF StillArmed, Comes, AwaitedComes
<1> QED BY <1>1, AwaitedInit, TypeCorrect, PTL DEF Spec

\* schedule_render, the retry after a failed render, the timers and frame_finish lose
\* no redraw; a frame_submitted that fails may.
THEOREM RedrawsAreKept == Spec => OnlyFailedSubmitStrands
<1> DEFINE Step == \A o \in Outputs :
             Armed(out[o], Scene(lock), paused) /\ ~Armed(out'[o], Scene(lock'), paused')
               => FrameFinishFailed(o)
<1>1. TypeOK /\ AwaitedComes /\ [Next]_vars => [Step]_vars
  BY ArmedStep DEF StillArmed
<1> HIDE DEF Step
<1>2. Spec => [][Step]_vars
  BY TypeCorrect, AwaitedHolds, <1>1, PTL DEF Spec
<1> QED BY <1>2 DEF Step, OnlyFailedSubmitStrands
=============================================================================
