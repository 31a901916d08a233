------------------------------ MODULE Toplevels ------------------------------
(***************************************************************************)
(* The windows of one output: the toplevel table and the active window of  *)
(* state.rs, the window stack of layout.rs, the z-order of the Space, the  *)
(* activated states, and the keyboard focus they share with layer surfaces *)
(* and the lock screen.                                                    *)
(*                                                                         *)
(* Every handler runs to its end in the compositor's one thread, so each   *)
(* action is a handler.  The handlers are compositions of the functions of *)
(* handlers/xdg_shell/mod.rs; each of those is an operator from a desktop  *)
(* (a record of the state they share) to the desktop it leaves.            *)
(***************************************************************************)
EXTENDS Stack

CONSTANTS
  Windows,      \* the toplevel surfaces clients can create
  Layers,       \* the layer surfaces clients can create
  LockSurface,  \* stands for whichever lock surface has the keyboard
  None,         \* no surface
  ModalHints,   \* hints xdg_dialog clients may set; {FALSE} without its global
  LockClients   \* whether there is a client to lock the session

VARIABLES
  desk,    \* the toplevels, their order and the focus, a Desktop
  layers,  \* [Layers -> LayerStates], the output's LayerMap
  locked,  \* LockPhase is not Unlocked
  curtain  \* lock_surfaces is not empty

ASSUME SurfacesAssumption ==
  /\ None \notin Windows \cup Layers \cup {LockSurface}
  /\ LockSurface \notin Windows \cup Layers
  /\ Windows \cap Layers = {}
  /\ IsFiniteSet(Windows)
ASSUME ClientsAssumption == ModalHints \subseteq BOOLEAN /\ LockClients \in BOOLEAN

vars == <<desk, layers, locked, curtain>>

\* A toplevel before its first configure, after it, with a buffer, with its buffer
\* taken away, and destroyed while its wl_surface lives.
Known  == {"new", "configured", "mapped", "unmapped"}
Stages == Known \cup {"none", "gone"}
Modes  == {"Floating", "Maximized", "Fullscreen"}

WindowStates ==
  [ stage     : Stages,
    mode      : Modes,                    \* WindowState.mode
    modal     : BOOLEAN,                  \* WindowState.modal
    parent    : Windows \cup {None},      \* the xdg parent smithay keeps
    activated : BOOLEAN ]                 \* xdg state Activated

Absent == [stage |-> "none", mode |-> "Floating", modal |-> FALSE,
           parent |-> None, activated |-> FALSE]

LayerStates ==
  [tier : {"none", "overlay", "top", "bottom"},
   interactivity : {"none", "ondemand", "exclusive"},
   configured : BOOLEAN]

NoLayer == [tier |-> "none", interactivity |-> "none", configured |-> FALSE]

Desktop ==
  [ win      : [Windows -> WindowStates],
    stack    : Seq(Windows),              \* Layout.stack, back to front
    order    : Seq(Windows),              \* Space elements, back to front
    active   : Windows \cup {None},       \* active_window
    onDemand : Layers \cup {None},        \* layer_shell_on_demand_focus
    focus    : Windows \cup Layers \cup {LockSurface, None} ]  \* the keyboard's

TypeOK == /\ desk \in Desktop
          /\ layers \in [Layers -> LayerStates]
          /\ locked \in BOOLEAN
          /\ curtain \in BOOLEAN

-----------------------------------------------------------------------------
(* The Comet layout (layout.rs).                                           *)

IsDialog(d, w) == d.win[w].parent # None

ParentOf(d, w) == IF d.win[w].stage \in Known THEN d.win[w].parent ELSE None

\* The focused window after its ancestors, root first.
AncestorChain(d, w) ==
  LET climb[n \in 0..Cardinality(Windows)] ==
        IF n = 0 THEN <<w>>
        ELSE LET p == ParentOf(d, Head(climb[n - 1]))
             IN  IF p = None THEN climb[n - 1] ELSE <<p>> \o climb[n - 1]
  IN  climb[Cardinality(Windows)]

ActiveGroup(d) == IF d.active = None THEN {} ELSE ToSet(AncestorChain(d, d.active))

ActivateGroup(stack, chain) == Without(stack, ToSet(chain)) \o chain

PlacementMode(d, w) ==
  CASE d.win[w].mode = "Fullscreen" -> "Fullscreen"
    [] d.win[w].mode # "Fullscreen" /\ IsDialog(d, w) -> "Floating"
    [] OTHER -> "Maximized"

\* Mutant: as if the Space followed the stack by itself.
RaiseNothing(order, stack, stacked) == order

\* The Space after the toplevels of a stack were raised one by one.
Raised(order, stack, stacked) ==
  Without(order, stacked) \o Within(stack, stacked \cap ToSet(order))

\* apply_layout: the active group to the front of the stack, each stacked toplevel
\* into its mode, and the Space raised in the order of the stack.
ApplyLayout(d) ==
  LET stack == IF d.active = None THEN d.stack
               ELSE ActivateGroup(d.stack, AncestorChain(d, d.active))
      stacked == {w \in ToSet(stack) : d.win[w].stage \in Known}
  IN  [d EXCEPT !.stack = stack,
                !.win = [w \in Windows |-> IF w \in stacked
                           THEN [d.win[w] EXCEPT !.mode = PlacementMode(d, w)] ELSE d.win[w]],
                !.order = Raised(@, stack, stacked)]

Visible(d) == ActiveGroup(d) \cap ToSet(d.stack)

-----------------------------------------------------------------------------
(* Focus (state.rs and handlers/xdg_shell/mod.rs).                         *)

Topmost(d, S) == LET found == Within(d.order, S) IN IF found = <<>> THEN None ELSE Last(found)

Fullscreens(d)      == {w \in ToSet(d.order) : d.win[w].mode = "Fullscreen"}
ActiveFullscreen(d) == Topmost(d, Fullscreens(d))
ActiveModal(d)      == Topmost(d, {w \in Windows : d.win[w].modal})

SetActivatedGroup(d) ==
  [d EXCEPT !.win = [w \in Windows |-> IF w \in ToSet(d.order)
     THEN [d.win[w] EXCEPT !.activated = w \in ActiveGroup(d)] ELSE d.win[w]]]

\* Mutants: focus_window without its guard, or without the layout pass.
FocusAnyWindow(d, w) ==
  [SetActivatedGroup(ApplyLayout([d EXCEPT !.active = w, !.onDemand = None]))
     EXCEPT !.focus = w]
FocusWithoutLayout(d, w) ==
  IF ActiveFullscreen(d) \notin {None, w} THEN d
  ELSE SetActivatedGroup([d EXCEPT !.active = w, !.onDemand = None, !.focus = w])

\* focus_window: refused while another window is fullscreen; a window that is
\* active already is not laid out or activated again.
FocusWindow(d, w) ==
  LET focused == [d EXCEPT !.active = w, !.onDemand = None]
      laidOut == IF d.active = w THEN focused ELSE SetActivatedGroup(ApplyLayout(focused))
  IN  IF ActiveFullscreen(d) \notin {None, w} THEN d ELSE [laidOut EXCEPT !.focus = w]

FocusNone(d) == [d EXCEPT !.active = None, !.onDemand = None, !.focus = None]

FocusTopmost(d) ==
  IF d.stack # <<>> /\ d.win[Last(d.stack)].stage \in Known
  THEN FocusWindow(d, Last(d.stack)) ELSE FocusNone(d)

\* Mutant: a window that maps under a fullscreen one is not laid out.
MapOverFullscreen(d, w) ==
  LET mapped == [d EXCEPT !.stack = IF Contains(@, w) THEN @ ELSE Append(@, w),
                          !.order = Append(@, w),
                          !.win[w].stage = "mapped"]
  IN  IF ActiveFullscreen(mapped) = None THEN FocusWindow(mapped, w) ELSE mapped

\* map_toplevel: a new window takes the focus unless a window is fullscreen.
MapToplevel(d, w) ==
  LET mapped == [d EXCEPT !.stack = IF Contains(@, w) THEN @ ELSE Append(@, w),
                          !.order = Append(@, w),
                          !.win[w].stage = "mapped"]
  IN  IF ActiveFullscreen(mapped) = None THEN FocusWindow(mapped, w) ELSE ApplyLayout(mapped)

UnmapToplevel(d, w) ==
  FocusTopmost([d EXCEPT !.stack = Without(@, {w}), !.order = Without(@, {w}),
                         !.win[w] = [@ EXCEPT !.stage = "unmapped", !.mode = "Floating"]])

ConfigureToplevel(d, w) == [d EXCEPT !.win[w].mode = PlacementMode(d, w)]

\* reply_placement: lay a mapped window out, answer one that waits for a configure.
ReplyPlacement(d, w) ==
  CASE d.win[w].stage = "mapped"     -> ApplyLayout(d)
    [] d.win[w].stage = "configured" -> ConfigureToplevel(d, w)
    [] OTHER                         -> d

ApplyModeRequest(d, w, mode) == ReplyPlacement([d EXCEPT !.win[w].mode = mode], w)

\* compute_keyboard_focus: an exclusive layer, else the on-demand layer that was
\* opened or clicked, else the active window while its surface lives.
Exclusive(l) == layers[l].interactivity = "exclusive" /\ layers[l].tier \in {"overlay", "top"}

\* Mutant: the exclusive layers are searched without regard to their kind.
AnyExclusiveLayer(d) ==
  LET exclusive == {l \in Layers : Exclusive(l)}
  IN  IF exclusive # {} THEN exclusive
      ELSE {IF d.active # None /\ d.win[d.active].stage # "none" THEN d.active ELSE None}

KeyboardFocus(d) ==
  LET overlays == {l \in Layers : Exclusive(l) /\ layers[l].tier = "overlay"}
      tops     == {l \in Layers : Exclusive(l) /\ layers[l].tier = "top"}
  IN  CASE overlays # {} -> overlays
        [] overlays = {} /\ tops # {} -> tops
        [] overlays \cup tops = {} /\ d.onDemand # None /\ layers[d.onDemand].interactivity = "ondemand" ->
             {d.onDemand}
        [] OTHER -> {IF d.active # None /\ d.win[d.active].stage # "none" THEN d.active ELSE None}

-----------------------------------------------------------------------------
(* What output_elements draws of the windows.  Fullscreen windows are drawn  *)
(* whoever is active; of the others the visible ones.  When the visible and  *)
(* the mapped windows are equally many, it draws the whole Space.            *)
Drawn(d) ==
  LET mapped == ToSet(d.order)
  IN  IF Fullscreens(d) = {} /\ Cardinality(Visible(d)) = Len(d.order) THEN mapped
      ELSE Fullscreens(d) \cup (Visible(d) \cap mapped)

\* Whether v is drawn above w.  Fullscreen windows lie above all others, and each of
\* the two kinds in the order of the Space.
Covers(d, v, w) ==
  /\ v \in Drawn(d) \ {w}
  /\ IF v \in Fullscreens(d) <=> w \in Fullscreens(d)
     THEN \E i, j \in 1..Len(d.order) : i < j /\ d.order[i] = w /\ d.order[j] = v
     ELSE v \in Fullscreens(d)

\* Mutant: the pointer reaches whatever window lies under it.
HitAnything(d) ==
  {w \in ToSet(d.order) : ActiveModal(d) \in {None, w}}

\* surface_under: the windows the pointer can enter, each where nothing covers it.
\* Hidden windows take no input, a modal one is the only one that does, and a locked
\* session has none.
Hit(d) ==
  {w \in ToSet(d.order) : ~locked /\ w \in ActiveGroup(d) /\ ActiveModal(d) \in {None, w}}

-----------------------------------------------------------------------------
Init == /\ desk = [win |-> [w \in Windows |-> Absent], stack |-> <<>>, order |-> <<>>,
                   active |-> None, onDemand |-> None, focus |-> None]
        /\ layers = [l \in Layers |-> NoLayer]
        /\ locked = FALSE
        /\ curtain = FALSE

(* The xdg_shell requests of a client.                                     *)

\* get_toplevel on a surface nothing refers to any more.
NewToplevel(w) ==
  /\ desk.win[w].stage = "none"
  /\ w \notin ToSet(desk.stack) \cup {desk.active, desk.focus}
  /\ \A c \in Windows : desk.win[c].parent # w
  /\ desk' = [desk EXCEPT !.win[w].stage = "new"]
  /\ UNCHANGED <<layers, locked, curtain>>

ToplevelDestroyed(w) ==
  /\ desk.win[w].stage \in Known
  /\ LET removed == [desk EXCEPT !.stack = Without(@, {w}), !.order = Without(@, {w}),
                                 !.win[w] = [Absent EXCEPT !.stage = "gone"]]
     IN  desk' = IF Contains(desk.order, w) THEN FocusTopmost(removed) ELSE removed
  /\ UNCHANGED <<layers, locked, curtain>>

\* The client destroys the wl_surface that is left.
SurfaceDestroyed(w) ==
  /\ desk.win[w].stage = "gone"
  /\ desk' = [desk EXCEPT !.win[w].stage = "none"]
  /\ UNCHANGED <<layers, locked, curtain>>

\* set_parent, then parent_changed.
Reparented(d, w, p) ==
  LET d2 == [d EXCEPT !.win[w].parent = p]
  IN  IF d.win[w].stage = "mapped" THEN ApplyLayout(d2) ELSE d2

\* smithay refuses a parent that descends from the window.
ParentChanged(w, p) ==
  /\ desk.win[w].stage \in Known
  /\ p # None => desk.win[p].stage \in Known /\ w \notin ToSet(AncestorChain(desk, p))
  /\ desk' = Reparented(desk, w, p)
  /\ UNCHANGED <<layers, locked, curtain>>

DialogHintChanged(w, modal) ==
  /\ desk.win[w].stage \in Known
  /\ desk' = [desk EXCEPT !.win[w].modal = modal]
  /\ UNCHANGED <<layers, locked, curtain>>

MaximizeRequest(w) ==
  /\ desk.win[w].stage \in Known
  /\ ~IsDialog(desk, w) /\ desk.win[w].mode # "Fullscreen"
  /\ desk' = ApplyLayout(desk)
  /\ UNCHANGED <<layers, locked, curtain>>

UnmaximizeRequest(w) ==
  /\ desk.win[w].stage \in Known
  /\ ~IsDialog(desk, w) /\ desk.win[w].mode = "Maximized"
  /\ desk' = ApplyLayout(desk)
  /\ UNCHANGED <<layers, locked, curtain>>

FullscreenRequest(w) ==
  /\ desk.win[w].stage \in Known
  /\ ~IsDialog(desk, w) /\ desk.win[w].mode # "Fullscreen"
  /\ desk' = FocusWindow(ApplyModeRequest(desk, w, "Fullscreen"), w)
  /\ UNCHANGED <<layers, locked, curtain>>

UnfullscreenRequest(w) ==
  /\ desk.win[w].stage \in Known
  /\ desk.win[w].mode = "Fullscreen"
  /\ desk' = ApplyModeRequest(desk, w, "Maximized")
  /\ UNCHANGED <<layers, locked, curtain>>

\* A commit with a buffer (which the protocol allows once the toplevel was
\* configured), and one without.
CommitBuffer(w) ==
  /\ desk.win[w].stage = "configured"
  /\ desk' = MapToplevel(desk, w)
  /\ UNCHANGED <<layers, locked, curtain>>

CommitNoBuffer(w) ==
  /\ desk.win[w].stage \in Known
  /\ desk' = IF desk.win[w].stage = "mapped" THEN UnmapToplevel(desk, w)
             ELSE [ConfigureToplevel(desk, w) EXCEPT !.win[w].stage = "configured"]
  /\ UNCHANGED <<layers, locked, curtain>>

-----------------------------------------------------------------------------
(* Requests to focus a window.                                             *)

\* xdg_activation, for any window of the Space.
RequestActivation(w) ==
  /\ Contains(desk.order, w)
  /\ desk' = FocusWindow(desk, w)
  /\ UNCHANGED <<layers, locked, curtain>>

\* The wlr activate request.  has_buffer announces a toplevel at its first commit,
\* with or without a buffer.
ForeignActivate(w) ==
  /\ desk.win[w].stage \in Known \ {"new"}
  /\ desk' = FocusWindow(desk, w)
  /\ UNCHANGED <<layers, locked, curtain>>

\* assign_pointer_click_focus on a window.  Any mapped window may be the topmost
\* one under the pointer.
ClickWindow(w) ==
  /\ ~locked
  /\ Contains(desk.order, w) /\ ActiveModal(desk) \in {None, w}
  /\ desk' = FocusWindow(desk, w)
  /\ UNCHANGED <<layers, locked, curtain>>

\* ... on a layer surface: a fullscreen window covers all but the overlay.
ClickLayer(l) ==
  /\ ~locked
  /\ layers[l].interactivity = "ondemand"
  /\ layers[l].tier # "overlay" => ActiveFullscreen(desk) = None
  /\ desk' = [desk EXCEPT !.onDemand = l]
  /\ UNCHANGED <<layers, locked, curtain>>

\* ... on a lock surface.
ClickLock ==
  /\ locked /\ curtain
  /\ desk' = [desk EXCEPT !.focus = LockSurface]
  /\ UNCHANGED <<layers, locked, curtain>>

\* The loop callback at the end of every turn (refresh_space): stacked surfaces
\* that died are pruned and the keyboard focus is computed again.
Refresh ==
  /\ LET pruned == [desk EXCEPT !.stack = Without(@, {w \in Windows : desk.win[w].stage = "none"})]
     IN  IF locked THEN desk' = pruned
         ELSE \E f \in KeyboardFocus(desk) : desk' = [pruned EXCEPT !.focus = f]
  /\ UNCHANGED <<layers, locked, curtain>>

-----------------------------------------------------------------------------
(* Layer surfaces.  A change of the work zone lays the windows out again.  *)

NewLayerSurface(l, tier) ==
  /\ layers[l].tier = "none" /\ l # desk.focus
  /\ layers' = [layers EXCEPT ![l] = [NoLayer EXCEPT !.tier = tier]]
  /\ UNCHANGED <<desk, locked, curtain>>

LaidOut(zoneChanged) == IF zoneChanged THEN ApplyLayout(desk) ELSE desk

\* handle_commit: an on-demand layer above the windows is focused as it opens.
LayerCommit(l, interactivity, zoneChanged) ==
  /\ layers[l].tier # "none"
  /\ layers' = [layers EXCEPT ![l].interactivity = interactivity, ![l].configured = TRUE]
  /\ desk' = IF /\ ~layers[l].configured
                /\ interactivity = "ondemand" /\ layers[l].tier \in {"overlay", "top"}
             THEN [LaidOut(zoneChanged) EXCEPT !.onDemand = l] ELSE LaidOut(zoneChanged)
  /\ UNCHANGED <<locked, curtain>>

LayerDestroyed(l, zoneChanged) ==
  /\ layers[l].tier # "none"
  /\ layers' = [layers EXCEPT ![l] = NoLayer]
  /\ desk' = [LaidOut(zoneChanged) EXCEPT !.onDemand = IF @ = l THEN None ELSE @]
  /\ UNCHANGED <<locked, curtain>>

-----------------------------------------------------------------------------
(* The lock screen (module SessionLock has the lock itself).               *)

Lock ==
  /\ LockClients /\ ~locked
  /\ locked' = TRUE
  /\ desk' = [desk EXCEPT !.focus = None]
  /\ UNCHANGED <<layers, curtain>>

\* The first lock surface gets the keyboard.
NewLockSurface ==
  /\ locked
  /\ curtain' = TRUE
  /\ desk' = IF curtain THEN desk ELSE [desk EXCEPT !.focus = LockSurface]
  /\ UNCHANGED <<layers, locked>>

\* Mutant: whatever had the keyboard at the unlock becomes the active window.
UnlockKeepsFocus ==
  /\ locked
  /\ locked' = FALSE /\ curtain' = FALSE
  /\ desk' = [desk EXCEPT !.active = desk.focus]
  /\ UNCHANGED layers

Unlock ==
  /\ locked
  /\ locked' = FALSE /\ curtain' = FALSE
  /\ desk' = FocusTopmost(desk)
  /\ UNCHANGED layers

-----------------------------------------------------------------------------
Next ==
  \/ \E w \in Windows :
       \/ NewToplevel(w)
       \/ ToplevelDestroyed(w)
       \/ SurfaceDestroyed(w)
       \/ \E p \in Windows \cup {None} : ParentChanged(w, p)
       \/ \E modal \in ModalHints : DialogHintChanged(w, modal)
       \/ MaximizeRequest(w)
       \/ UnmaximizeRequest(w)
       \/ FullscreenRequest(w)
       \/ UnfullscreenRequest(w)
       \/ CommitBuffer(w)
       \/ CommitNoBuffer(w)
       \/ RequestActivation(w)
       \/ ForeignActivate(w)
       \/ ClickWindow(w)
  \/ \E l \in Layers :
       \/ \E tier \in {"overlay", "top", "bottom"} : NewLayerSurface(l, tier)
       \/ \E i \in {"none", "ondemand", "exclusive"}, z \in BOOLEAN : LayerCommit(l, i, z)
       \/ \E z \in BOOLEAN : LayerDestroyed(l, z)
       \/ ClickLayer(l)
  \/ ClickLock
  \/ Refresh
  \/ Lock
  \/ NewLockSurface
  \/ Unlock

Spec == Init /\ [][Next]_vars

\* The loop callback runs at the end of every turn of the event loop.
FairSpec == Spec /\ WF_vars(Refresh)

-----------------------------------------------------------------------------
(* What the window management promises.                                    *)

\* The Space and the window stack never disagree: the mapped windows lie in the
\* Space in the order the layout stacked them, whichever of map, unmap, destroy,
\* reparent, activate and click came last.
ZOrderIsStack == desk.order = Within(desk.stack, ToSet(desk.order))

\* The active window, when it is mapped, is the topmost of the Space.
ActiveIsTop ==
  desk.active \in ToSet(desk.order) => desk.active = Last(desk.order)

\* A fullscreen window that is active stays active while it is mapped and
\* fullscreen ("other windows can't steal it"): no map, activation, click, lock or
\* death of another window moves it.
FullscreenNotStolen ==
  [][\A w \in Windows :
       desk.active = w /\ ActiveFullscreen(desk) = w /\ w \in Fullscreens(desk')
         => desk'.active = w /\ ActiveFullscreen(desk') = w]_vars

\* Who types sees where: a mapped window that has the keyboard is drawn, and no window
\* is drawn above it but a fullscreen one above one that is not.
KeyboardGoesToScreen ==
  \A w \in ToSet(desk.order) : desk.focus = w =>
    /\ w \in Drawn(desk)
    /\ \A v \in Windows :
         Covers(desk, v, w) => v \in Fullscreens(desk) /\ w \notin Fullscreens(desk)

\* The topmost fullscreen window "keeps keyboard focus" (active_fullscreen_window): no
\* other mapped window has the keyboard.
FullscreenKeepsKeyboard ==
  ActiveFullscreen(desk) # None /\ desk.focus \in ToSet(desk.order)
    => desk.focus = ActiveFullscreen(desk)

\* The pointer reaches only what is shown ("clicks in the clear area don't reach
\* what isn't shown").
PointerGoesToScreen == Hit(desk) \subseteq Drawn(desk)

\* "The top-most Exclusive layer (Overlay/Top)" gets the keyboard: when the highest
\* exclusive layers stay the same one of them does, again and again, whatever windows
\* and lower layers take it meanwhile.
HighestExclusive ==
  {l \in Layers : Exclusive(l) /\ \A m \in Layers :
     Exclusive(m) /\ layers[m].tier = "overlay" => layers[l].tier = "overlay"}

ExclusiveGetsKeyboard ==
  \A S \in SUBSET Layers :
    S # {} /\ <>[](~locked /\ HighestExclusive = S) => []<>(desk.focus \in S)

\* While the session is locked the keyboard is with no window ("clear keyboard
\* focus from all normal clients").
LockedKeyboard == locked => desk.focus \notin Windows
=============================================================================
