# A TLA+ model of mechanix-comp

mechanix-comp is a single-threaded Wayland compositor in Rust, built on smithay, for
phones and tablets: one active window group at a time fills the screen, dialogs float
above their parents, layer surfaces hold panels and keyboards, and a lock screen
hides it all. This directory models its core in TLA+, checks the models with TLC on
small instances and proves the most important facts with TLAPS for all instances.

Source paths below are relative to `src/src/`. `PROJECT.json` lists the runs, the
mutants that show each property can fail, the source lines of every definition, the
findings, the hazards and the theorems.

## 1. Inventory

Every handler, timer, idle callback and DRM event runs to its end in the one thread of
a calloop event loop, so a handler is atomic; what interleaves is the order in which
requests, callbacks, timers, flips and session events are dispatched. At the end of
each turn of the loop `refresh_space`, `foreign_toplevel_refresh` and
`update_idle_inhibit` run (`backend/udev.rs:475-480`).

| component | state | operations | talks to | hard behaviours |
|---|---|---|---|---|
| repaint loop (`backend/udev.rs`) | `repaints`: per CRTC `Idle / RenderQueued / AwaitingVblank{damage_pending}`, `last_ack`, `render_wake`; `paused` | `schedule_render`, `schedule_render_after`, `render_surface`, `frame_finish`, `set_output_dpms`, pause, `prepare_resume` | DrmCompositor's frame queue (calls, flip events), lock, fifo barriers | callbacks that outlive their state, damage during a scanout, failed renders, late flips |
| session lock (`handlers/session_lock.rs`, `state.rs`) | `lock_phase`, `lock_surfaces`, `LockFrame` per output | `lock`, `unlock`, `new_surface`, `lock_frame_queued`, `lock_frame_presented`, `maybe_send_locked` | repaint loop, keyboard, power | `locked` must wait for frames on many panels that go off, unplug and flip at their own time |
| output power (`handlers/output_power.rs`) | `off`, `handles` | `set_output_power`, `wake_outputs_if_off`, `resume_drm_session`, `output_removed`, requests of handles | DPMS, lock, input | blanking against frames in flight, VT switches, handles and bits of outputs that left |
| hotplug (`backend/udev.rs`) | `devices`, `surfaces`, outputs of the Space | `device_added/changed/removed`, `connector_connected/disconnected` | all of the above, `layouts` | unplugging what somebody waits for, renderer loss |
| xdg toplevels and focus (`handlers/xdg_shell/mod.rs`, `state.rs`) | `toplevels` (mode, mapped, modal), `active_window`, `layer_shell_on_demand_focus`, keyboard focus | requests of xdg_toplevel, commit, `focus_window`, `focus_topmost`, `map_toplevel`, `unmap_toplevel`, `update_keyboard_focus` | layout, layers, lock, input | many orders of map, unmap, reparent, fullscreen, activation, lock |
| layout (`layout.rs`) | `Layout.stack`, work zone | `activate_group`, `placement_mode`, `apply_layout`, `visible` | Space, toplevels | four copies of the window order |
| layer shell (`handlers/layer_shell.rs`) | LayerMap of the output | new, commit, destroy | layout (work zone), focus | exclusive keyboard against windows |
| rendering (`render.rs`) | none | `output_elements` | layout, lock | which windows are drawn |
| input (`input.rs`) | `suppressed_keys`, pointer location | `surface_under`, click focus, bindings, waking | focus, power, idle | what is clicked, focused and shown must agree; events that waking consumes |
| foreign toplevels (`handlers/foreign_toplevel.rs`) | `toplevels` announced, `wlr_management_instances`, handles | `foreign_toplevel_refresh`, bind, stop, destroy, activate, close | toplevels, taskbar clients | events between reconciliations, parents in any order |
| commit barriers (`handlers/compositor.rs`, `state.rs`, `backend/mod.rs`) | barriers in surface state, one timer | `new_surface` hook, `commit`, `release_blockers`, `wake_at` | repaint loop | fifo and timed commits of hidden or blanked outputs |
| scale, cursor (`backend/mod.rs`, `cursor.rs`) | none | pure arithmetic | | rounding at boundaries |
| idle inhibit (`handlers/idle.rs`) | `idle_inhibiting_surfaces` | inhibit, uninhibit, `update_idle_inhibit` | | surfaces that die |

What makes each correct:

* lock: from `locked` to the unlock no panel shows the desktop, beyond its next flip at
  the latest; a lock that is requested is granted; an output counts only with a frame of
  this lock.
* repaint loop: no damage is lost, no output is rendered while blanked, paused or in
  flight, and the state agrees with the driver.
* power: a blanked panel stays dark, a client knows the mode of its output, an input
  event wakes every panel, and an output that is on is lit or can be woken.
* hotplug: a new output does not overlap the others.
* commit barriers: a commit waits for something that comes, and not beyond it.
* input and idle: a press and its release go the same way; an inhibitor that lives
  keeps idle clients silent, one that died does not.
* windows and focus: stack, Space, screen, keyboard and pointer agree; a fullscreen
  window is not displaced and keeps the keyboard; the highest exclusive layer gets it; no
  window has it while the session is locked.
* foreign toplevels: what a client was told is what was announced, parents included,
  and what was announced follows the windows.

What is not modelled, and why, is in section 5.

## 2. Modules

    Crtc  <-  SessionLock  <-  MCSessionLock        (TLC)
                  |        <-  SessionLockProofs  <-  SessionLockSafety   (TLAPS)
                  +-- INSTANCE LockPromise          (abstract specification)
    Stack  <-  Toplevels  <-  MCToplevels           (TLC)
    Stack  <-  StackProofs,  Toplevels and StackProofs  <-  ToplevelsProofs   (TLAPS)
    ForeignToplevel  <-  MCForeignToplevel          (TLC)
                     <-  ForeignToplevelProofs      (TLAPS)
    Outputs  <-  MCOutputs (TLC),  OutputsProofs (TLAPS)
    Commits  <-  MCCommits (TLC),  CommitsProofs (TLAPS)
    Input    <-  MCInput   (TLC),  InputProofs   (TLAPS)

**`Crtc`** is one output: a record with the repaint state, the blanked bit, the
lock-frame mark and the frames the display driver holds, and one operator per function
of the code (`ScheduleRender`, `ScheduleRenderAfter`, `RenderSurface`, `DpmsOff`,
`Presented`, ...) from the record to the records it may become. `render_surface` can
queue a frame, fail (and arm the retry), or find nothing to draw.

The driver (smithay's DrmCompositor) is modelled from its use in `backend/udev.rs`:
`queue_frame` submits the frame, or keeps it behind the pending one, replacing what
waits there; `frame_submitted` retires the pending frame and submits the waiting one;
`clear` drops all frames, darkens the panel and leaves the flip event of the dropped
frame unread; such a late event finds nothing to retire; `reset_buffers` makes the
next render draw everything, and `clear` alone does not. A panel shows the desktop, the
lock scene, nothing (`dark`), or what another session left on it (`other`).

**`SessionLock`** puts the outputs and the event loop together. Variables: `out` (a
`Crtc` record per output), `lock` (LockPhase), `paused`, and `draining`: calloop
dispatches all idle callbacks of a turn before any further event, so `Drain` starts
that phase and `RunIdle` runs the callbacks one by one (in any order, which includes
the order of insertion), each with the whole of `render_surface`. Actions: commits of clients, `Lock`, `Unlock`, `PowerOff`,
`PowerOn`, `WakeOutputs`, `Pause`, `Resume`, `Connect`, `Disconnect`, the paced redraw
timer (`RenderWake`), `FrameFinish`, `FrameFinishFailed`, `LateVblank`. Commits that a
fifo barrier held back are released inside the action that signals the barrier. `Pause(F)`
fails to cancel the frames of the outputs in F; `Resume(R)` blanks again what was off, and
the driver refuses that on the outputs in R, which the code ignores.

**`LockPromise`** is what a session lock promises with no frames, marks or event loop: the
phase, the panels that show the desktop (`showing`), and those whose next flip is not sure
to hide it (`bare`). The lock is granted only with no bare panel, and from then on the
desktop only disappears. `SessionLock` implements it (`KeepsPromise`) with `showing` the
outputs that show the desktop and `bare` those not `Covered`.

**`Toplevels`** is the windows of one output. `desk` is the record of what the handlers
of `handlers/xdg_shell/mod.rs` share (toplevels, stack, Space order, active window,
on-demand layer, keyboard focus). Each function of that file and of `layout.rs` is an
operator from a desktop to the desktop it leaves, and each request, commit, click,
layer event and lock event is an action that composes them as the handler does.
`Refresh` is the part of the loop callback that prunes the stack and recomputes the
keyboard focus. `Drawn` is the windows that are on the screen and `Covers` their order:
fullscreen windows above all others, each kind in the order of the Space. **`Stack`** is what `retain` and the raising loop of `layout.rs` do to an
order of windows: `Without` and `Within`.

**`ForeignToplevel`** is the reconciliation between the windows and their
announcements: `toplevels` (as far as it is read), `announced`, `managers`, and
`view`, what each client has been told by the events sent to its handles. `Refresh` is
the whole of `foreign_toplevel_refresh`; `Bind`, `Stop` and `HandleDestroyed` are the
requests of taskbars.

**`Outputs`** is hotplug and power without frames: the cards and the renderer, the
connectors the scanner knows, the outputs of the Space with their places, the blanked
bits and the power handles. An `Output` is a counted object: one that left the Space
lives on in a handle or in `off`, and still names its CRTC, where another output may be
by then. `set_output_power` looks up the CRTC, `render_surface` the output of the Space;
what follows from that difference is the subject of the module. `damaged` holds the CRTCs
whose next render finds something to present: without damage `render_surface` presents
nothing, so a redraw alone does not light a panel that a stale handle cleared.

**`Commits`** is what a commit waits for: `held` is a queue per surface of commits with a
deadline, a fence and a fifo flag; `barrier` the surfaces whose fifo barrier is set;
`timer` the one wakeup. `Resume` is `blocker_cleared`: it applies the longest prefix of
each queue that is ready, which can map, unmap or damage. It is called from a commit, a
fence, the timer, a flip, blanking and unplugging, each inside its action. Deadlines and timer
count down together, so time has no bound of its own.

**`Input`** is `process_input_event`: waking, activity, the keyboard filter with its
suppressed keysyms over the count xkb keeps of each modifier, and the touch capability;
and the idle inhibitors with the loop callback that forgets dead ones. `lost` is a history
variable: what waking consumed and nothing made good since.

These three do not repeat the frame pipeline: `Outputs` and `Commits` take from
`SessionLock` that a live output with damage renders, and `Input` from `Outputs` what
waking does.

## 3. Runs

| run | instance | question and result |
|---|---|---|
| `full` | 2 outputs, `MaxIdles = 2` | the lock is granted over covered panels, one step alone exposes the desktop and one alone strands damage, repaint states wait for what comes, blanked shows nothing, frames only to live outputs, refinement of `LockPromise`: hold |
| `live` | 2 outputs, of which one is either absent for ever, or both stay, fair | a single output grants a lock though its surfaces never rest; two grant it once they rest; damage on a live output keeps flipping: hold |
| `double` | 1 output that is blanked and woken and nothing else, `MaxIdles = 2` | `PresentedMeansShown`: **violated** (finding 1) |
| `starve` | 2 connected outputs, fair | `LockIsGranted`: **violated** (finding 2) |
| `windows` | 3 windows, no layers | z-order, active window, keyboard, pointer, fullscreen: hold |
| `focus` | 1 window, 2 layers, modal hints, lock, fair | the highest exclusive layers, when they stay, get the keyboard: holds |
| `keyboard` | 3 windows, lock | `LockedKeyboard`: **violated** (finding 3) |
| `covered` | 2 windows | `FullscreenKeepsKeyboard`: **violated** (finding 4) |
| `taskbars` | 2 windows, 1 taskbar, 2 infos, fair | told what is announced, parents told, catches up: hold |
| `outputs` | 2 cards with a CRTC each, a panel of scale 1 and one of scale 2, 2 outputs, 2 handles, fair | handles are told the truth, blanked is dark, waking is complete, outputs tile, dark is wakeable, damage is lit: hold |
| `commits` | a timed layer, a window with fifo and fences, 1 output, fair | nothing ready waits, the timer covers, barriers have a flip, nothing early, nothing for ever: hold |
| `input` | a modifier, Return and F1, a touchscreen, an inhibitor, fair | only waking loses events, inhibitors hold, idleness comes: hold |

### Findings

1. Blanking and waking an output resets the repaint state (`udev.rs:213-217`) while the
   redraw callback it does not cancel still waits; the next `schedule_render` inserts a
   second. Two frames are then in the driver, and the flip of the first, which can show the
   desktop, marks the output `Presented`. `locked` can be sent one flip early. (A VT switch
   resets the state too, `udev.rs:227-229` and `434-436`; the run leaves it out to show the
   way through DPMS.) That one flip is the worst case is proved (`LockGap`), and that the
   flip of a frame with the lock frame behind it is the only way there
   (`OnlyPiledFramesExpose`).
2. `lock_frame_queued` puts a `Presented` output back to `Queued` on every re-render. Two
   animated lock surfaces out of step keep `maybe_send_locked` from ever seeing all
   outputs `Presented`.
3. `focus_window` does not look at the lock: a fullscreen request, an activation, or a window
   that maps, takes the keyboard from the lock screen, and `update_keyboard_focus`
   leaves it there until the next click on the lock surface.
4. A window that asks for fullscreen before it maps keeps that mode; when another window has
   the focus by the time it maps, `map_toplevel` finds a fullscreen window, the new one
   itself, and does not focus it. It is drawn over the focused window, which keeps the
   keyboard, against `state.rs:703-704`. That nothing but a fullscreen window ever covers
   the one that is typed to is proved (`KeyboardIsSeen`).

### Known divergences

Seen while modelling, in the models as the code has them, with no run of their own:

* A window that becomes active before it maps (fullscreen request, wlr `activate`) is laid out
  or skipped by `map_toplevel` but never gets the activated state
  (`handlers/xdg_shell/mod.rs:228` says every toplevel of the group does).
* The fast path of `output_elements` compares the number of visible surfaces with the
  number of mapped windows; an unmapped parent in the stack makes them equal, and a hidden
  window is drawn (`render.rs:191` says hidden windows are skipped). What gets input is
  drawn all the same (`PointerGoesToScreen`); no property says that nothing else is.
* `resume_drm_session` ignores a driver that refuses to blank an output again
  (`output_power.rs:134`): the panel keeps what the other session left, while the comment
  says "keeping DPMS-off outputs blanked". `OffStaysDark` says that nothing of the compositor is
  shown.
* `has_buffer` is true from a surface's first commit, with or without a buffer, while its
  comment says "True once the surface has committed a buffer" (`foreign_toplevel.rs:377`):
  taskbars get handles of windows that never mapped. `TaskbarsCatchUp` covers those too.
* A handle of an output that left can clear the CRTC of one that is on, which then stays dark
  until it has damage, or an input event wakes the bit (`DarkIsWakeable`).
* The blanked bit of an output that left, set by a stale handle, cannot be cleared while
  its CRTC has no output; as long, `wake_outputs_if_off` consumes every input event.
  Nothing else stays blanked (`WakingWakesAllPanels`).
* The event that wakes is consumed whatever it is: the release of a key, the arrival of a
  touchscreen, and user activity are lost with it (`OnlyWakingLoses` says nothing else is).
* A key whose keysym depends on a modifier misses its release when the modifier goes first.
* When the renderer's card goes, outputs of other cards stay frozen until some redraw after
  another card came; a connector reported meanwhile gets no output.
* An output placed after one in the middle left overlaps its right neighbour.
* A timed commit of an unmapped window is in no list the timer visits, and waits for ever; a
  fifo commit that damages nothing waits for somebody else's flip.

### Bounds

`MaxIdles` bounds the redraw callbacks one output has waiting; the guard
`CanScheduleAll` stops the actions that would exceed it. 2 is the smallest bound with which
callbacks pile up, as they do in the code (finding 1); the safety runs use it, and every
safety theorem holds for any bound. The two runs with liveness use 1, which leaves pile-ups
out of what they show: `live` says that locks are granted and damage is drawn when no reset
meets a waiting callback. Two outputs are the smallest number on which `locked` has to wait
for one while another moves; a third adds another independent record, and the proofs
hold for any set. Three windows give a parent, its dialog and a stranger, which every
property of `Toplevels` that compares windows needs; layers, modal hints and lock get
a run of their own because they meet windows only through focus. `windows` and `full` use
symmetry in windows or outputs, which no definition tells apart; the runs with
liveness use none. Two windows make a parent and a child for taskbars; longer chains and
more taskbars are covered by the proofs.

Two cards with a CRTC each are the smallest system in which the renderer's card goes
while another's outputs stay, and in which an output comes to a CRTC that a stale
handle names; with two `Displays` one can be stale and one new. Two handles give two clients on
one output, or a stale handle beside a fresh one. `MaxDelay = 2` orders two deadlines
and lets the timer be late, and `MaxHeld = 2` lets a commit wait behind another; the
layer is timed and the window has fifo and fences because the two meet only in the
timer and the flip. The proofs drop these bounds. `MaxPresses = 2` is the first count of a
modifier at which one release does not end it, which waking can bring about.

### Fairness

* `WF(Drain)`, `WF(RunIdle)`: calloop runs what was inserted.
* `SF(RenderWake)`, `SF(FrameFinish)`: timers and flip events that have come are
  dispatched in a later turn; strong, because nothing is dispatched while callbacks run.
* `SF(RunIdle /\ a frame is queued)`: rendering does not fail for ever.
* `SF(LockClientDraws)`: a client that asked for the lock draws its surfaces.
* `WF(Refresh)` in `Toplevels` and `ForeignToplevel`: the loop callback runs each turn.
* `WF(RenderSurface)` in `Outputs`: the redraw callbacks run, and rendering does not fail
  for ever.
* `WF(Tick)`, `WF(TimerFires)`, `WF(Render)`, `WF(FrameFinish)`, `WF(FenceSignals)` in
  `Commits`: time passes, the loop serves timer and flips, a live output with damage
  renders (`DamageIsDrawn`), and GPUs finish.
* `WF(EndTurn)`, `WF(IdleTimeout)` in `Input`: turns end, idle timers run out.

Nothing else is assumed of clients, and nothing of hotplug, power or VT switches.

### Assumptions

* Crtc and SessionLock: switching between desktop and lock scene is always damage.
  Refusals and failures that change nothing are stutters. While paused the panel shows
  nothing of the compositor and the driver refuses DPMS off and new outputs. Activation
  on resume succeeds, drops what was left and leaves the other session's picture. The flip
  event of a dropped frame is read while nothing is pending; one that meets a newer frame
  and retires it early is not modelled. Renderer-card removal and power handles of removed
  outputs are the subject of `Outputs`.
* Toplevels: one permanent output. smithay refuses a ring of parents and keeps the
  parent pointer when the parent unmaps or dies. A buffer before the first configure is
  a protocol error. An unmapped toplevel needs a new initial configure and keeps its
  Activated flag. Geometry is abstracted: any mapped window may be the one under the
  pointer. A surface that dies is reused only when nothing refers to it. Popup grabs are left
  out. `Unlock` may come any time after `Lock`: when it is granted is `SessionLock`'s subject.
* ForeignToplevel: one manager object per client at a time, bound again only with no
  handles left. Title, app_id, states and output are one value `Info`; versions of the
  protocol and the ext-list handles, which smithay keeps, are abstracted.

* Outputs: any Output object may be the one a wl_output resolves to, also one that left and is kept
  by a layout. One connector per CRTC, and names are not reused while a card stays.
  VT switches are in `SessionLock`.
* Commits: smithay applies the commits of a surface in order and asks a fifo commit for
  the barrier the one before it set. A surface stands for its tree. A layer or a window is
  on one output, a window on none when its output left, until a layout pass moves it; lock
  surfaces, which are on every output, the cursor and drag icons are left out. So are moves
  between outputs, and the flip whose `frame_submitted` fails, which releases no barrier
  (`udev.rs:1079-1091`).
* Input: one keyboard; the library forwards a release as the filter says. A
  keysym that no modifier changes belongs to one key. Idle timers are one.

## 4. Proofs

All theorems are for any constants that satisfy the modules' assumptions. Every safety
invariant and every action property of a passing run is the conclusion of one of them.

`SessionLockProofs` proves type correctness: one lemma per operator of `Crtc` (what a
record becomes has its type), then one step per action.

`SessionLockSafety` proves safety with any number of waiting callbacks. Two invariants
carry it.

* `PipelineInv` ties, per output, the lock mark to what is shown, pending and queued. While
  locked, `Queued` means that a desktop frame on its way has the lock frame behind it, and
  `Presented`, like the phase Locked, that the output is `Covered`: the desktop is gone or goes
  with the next flip. Off and unconnected mean that nothing of the compositor is shown or
  on its way. The frames behind the shown one are needed because a flip moves them on.
  It yields `LockGap` and `BlankedStaysDark`, and with them `OnlyPiledFramesExpose`: a mark
  or a grant meets a shown desktop only at a flip that moves the lock frame up from behind.
* `AwaitedComes` is inductive with the types: who waits for a flip has a frame pending, who
  waits for a callback has one. A callback may be one too many, never one too few.
  `RedrawsAreKept` follows step by step: damage that something will draw stays so, except
  when `frame_submitted` fails.

`FramesGoToLive` needs types only: a frame enters an empty pipeline in `render_surface`,
which checks that the output is live, or when a flip moves the waiting frame up, and
every step that blanks, unplugs or pauses leaves the pipeline empty or as it was.

`LockKeepsPromise` proves the refinement from `PipelineInv`: initial states map to initial
states and each action to a step of `LockPromise` or a stutter.

`ForeignToplevelProofs` proves `ForeignTypeCorrect`, `ToldIsTrue` and
`ParentsAreTold`. The inductive invariant adds that a window not announced has no
handles, without which a new announcement would inherit old ones. The heart is
`RefreshKeeps`: a parent event is due only if the window or its parent is
among the targets, and `Followers`, the least set closed under children, has those.

`OutputsProofs` proves `ClientsKnowTheMode`, `BlankedStaysDark`, `WakingIsComplete` and
`DarkOutputsWake`. The
strengthening is `CrtcsApart`: outputs of the Space have CRTCs of their own, whose
connectors the scanner knows. Without it a frame for one output could light the panel
of another that is blanked, and unplugging one take the damage of another.

`OutputsTypeCorrect` and `ConnectingTiles` add that the Space stays finite and what is in it has a
positive width (`LayoutTypes`). The place of a new output is a sum over the outputs it
finds; a sum over a finite set is unfolded by the smallest set for which it might have no
value, or two (`SumsExist`, `SumsUnique`), and then grows by the width of what is added
(`WidthsAdd`). `AddedKeepsTiling` is the point of it: where outputs tile, the first free
place is the sum of all widths, so the new output touches the last and overlaps none.

`CommitsProofs` proves types, `NothingReadyWaits`, `NothingAppliesEarly`,
`TimerIsEnough` and `BarriersAreReleased`. All steps that apply commits go through
`Resume`; `ResumeTakes` says once what it does to a surface (a ready prefix goes, the
rest stays, a new barrier comes with damage) and `Resumes` that each action calls it
with queues that differ only at the surfaces it resumes. `HeadWaits` is the core of
the first theorem: what is left behind a longest ready prefix is not ready, even
though the prefix may have set the barrier. Minima of sets of deadlines come from
well-foundedness of the naturals (`NatMin`).

`InputProofs` proves types, `WakingAloneLoses` and `InhibitorsHold`. `KeysInv` is the
strengthening: a keysym in the filter belongs to a key that is down and kept from the
client, or to one whose release was consumed. That a keysym of a plain key belongs to no other key is the
assumption on the layout it needs.

`StackProofs` says what filtering a stack leaves, for stacks of any length: what is in it,
in which order, and how it commutes with appending, with a second filter, and with taking off
the top. The library's induction rules cannot be used here, so a fact about all
sequences is proved of the set of sequences that have it, which holds the empty one and
is closed under `Append` (`SeqsByAppend`, by a shortest counterexample).

`ToplevelsProofs` proves types, `SpaceFollowsStack`, `ActiveOnTopOfSpace`, `KeyboardIsSeen`,
`PointerIsSeen` and `FullscreenStays`. The inductive invariant `DeskInv` has three parts.

* `Tidy` holds inside handlers too, between an assignment and the layout pass that follows:
  the types, no ring of parents, no parent of a surface that is no toplevel, and nothing in
  the Space that is not mapped and stacked. Without a ring the climb to the ancestors ends
  within the number of windows and meets no window twice (`ChainDistinct`, `ChainShort`), so
  `AncestorChain` is the whole chain and its last window the one it was asked for.
* `Sorted` is what a layout pass makes of it (`ApplyLayoutIs`): the active window is on top
  of the stack and nowhere below, and the Space is the stack filtered. A handler that takes
  a window away keeps it (`BothWithout`, `TopWithout`), which is why a death needs no new
  layout.
* `FocusIsActive`: a window that has the keyboard is the active one. It turns what is proved of the
  stack into what is proved of the keyboard: what is drawn above the last of the Space, and is
  not later in it, is fullscreen (`ActiveIsCoveredByFullscreen`).

Each handler gets one lemma, which says that it keeps `DeskInv` and takes nothing from
an active fullscreen window (`KeptBy`); `NextKept` puts them together. The longest is
`MapToplevelInv`: a window that maps lies on top of the stack and of the Space for a moment, and it
is the focus it gets, or the layout pass it gets when a window is fullscreen, that puts both
in order again.

Only model-checked:

* Liveness, which needs `ENABLED` and fairness and is beyond the prover:
  `SingleLockIsGranted`, `RestingLockIsGranted`, `DamageIsDrawn`,
  `ExclusiveGetsKeyboard`, `TaskbarsCatchUp`, `LiveIsLit`, `TimedCommitsApply`, `FifoMovesOn`
  and `IdleComes`.
* The findings, which are counterexamples.

## 5. What is left

All planned components are modelled. What is not, or in part:

* The nested winit backend: one output that is always on, and queues and presents a
  frame in one step on its host's redraw event. None of the states the modules are about
  arise in it.
* Seat, selections, drag and drop, buffer import, icons, decorations, start-up: they
  delegate to smithay or the GPU, keep no state that interacts with the above, and what they
  do is decided in code outside this repository.
* Geometry: sizes and locations of windows, layers and popups, clamping of the pointer,
  touch slots and axis frames. They are arithmetic on one handler's arguments. Of scale
  arithmetic only `guess_default_scale` decides something other components see (the place
  of the next output), and it is in `Outputs`.
* Popups and their grabs, which smithay keeps.
* Layouts of several outputs: `Toplevels` has one permanent output, so windows stacked on
  an output that left are not in it. Its state is at the edge of what a run can cover with one.

Worth proving next: under which steps finding 3 arises, that is, that the keyboard comes to a window
under the lock by `focus_window` alone; and an abstract specification of focus that `Toplevels`
implements.
