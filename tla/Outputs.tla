------------------------------- MODULE Outputs -------------------------------
(***************************************************************************)
(* Hotplug and output power: the cards and the shared renderer of          *)
(* backend/udev.rs, the outputs of the Space with their places, and the    *)
(* blanked outputs and clients' power handles of                           *)
(* handlers/output_power.rs.                                               *)
(*                                                                         *)
(* An Output object lives on after it left the Space while anything holds  *)
(* it: the set of blanked outputs, or the user data of a power handle.  It *)
(* names its CRTC (OutputKey), on which another output may be by then.     *)
(*                                                                         *)
(* device_changed handles the changes of a card one connector after the    *)
(* other; here each is an action.  When a frame is rendered and how it     *)
(* reaches the panel is the subject of module SessionLock.                 *)
(***************************************************************************)
EXTENDS Integers, FiniteSetsExt

CONSTANTS
  Cards,      \* the KMS devices
  Crtcs,      \* their CRTCs, one connector each
  CardOf,     \* [Crtcs -> Cards]
  Panels,     \* the displays people plug in, see PanelType
  Displays,   \* the Output objects
  Handles,    \* the zwlr_output_power_v1 objects clients can create
  None

VARIABLES
  cards,      \* UdevData.devices: the cards in use
  renderer,   \* UdevData.renderer_node, None without a renderer
  seen,       \* the CRTCs whose connector the scanner knows as connected
  space,      \* the outputs of the Space
  place,      \* [Displays -> where and how wide it lies in the Space]
  crtc,       \* [Displays -> OutputKey], None before the object was used
  off,        \* OutputPowerManagerState.off
  handles,    \* [Handles -> OutputPowerUdata, registration, newest event]
  redraw,     \* the CRTCs with a render scheduled
  damaged,    \* the CRTCs whose next render finds something to present
  lit         \* the CRTCs that show a frame

vars == <<cards, renderer, seen, space, place, crtc, off, handles, redraw, damaged, lit>>

PanelType == [mm : Nat \X Nat, mode : (Nat \ {0}) \X (Nat \ {0})]

ASSUME CardOfAssumption == CardOf \in [Crtcs -> Cards]
ASSUME PanelsAssumption == Panels \subseteq PanelType
ASSUME NoneAssumption   == None \notin Cards \cup Crtcs \cup Displays

HandleStates == [of : Displays \cup {None}, listed : BOOLEAN,
                 told : {"none", "on", "off", "failed"}]
NoHandle == [of |-> None, listed |-> FALSE, told |-> "none"]
Nowhere  == [x |-> 0, w |-> 0]

TypeOK ==
  /\ cards \subseteq Cards
  /\ renderer \in cards \cup {None}
  /\ seen \subseteq Crtcs
  /\ space \subseteq Displays
  /\ place \in [Displays -> [x : Nat, w : Nat]]
  /\ crtc \in [Displays -> Crtcs \cup {None}]
  /\ off \subseteq Displays
  /\ handles \in [Handles -> HandleStates]
  /\ redraw \subseteq Crtcs
  /\ damaged \subseteq Crtcs
  /\ lit \subseteq Crtcs

-----------------------------------------------------------------------------
(* Where a new output goes (backend/mod.rs, connector_connected).          *)

\* Sizes that EDIDs use to report an aspect ratio only.
Bogus == {<<1600, 900>>, <<1600, 1000>>, <<160, 90>>, <<160, 100>>, <<16, 9>>, <<16, 10>>}

\* guess_default_scale: 2 for a tall panel with more than 192 dots per inch both ways.
GuessDefaultScale(p) ==
  IF /\ p.mm[1] # 0 /\ p.mm[2] # 0 /\ p.mm \notin Bogus
     /\ p.mode[2] >= 1200
     /\ \A i \in 1..2 : p.mode[i] * 254 > 192 * 10 * p.mm[i]
  THEN 2 ELSE 1

LogicalWidth(p) == p.mode[1] \div GuessDefaultScale(p)

\* Mutant: in the columns of a grid, as if all outputs were alike.
NextColumn(S) == Cardinality(S) * 1000

\* A new output goes to the right of the existing ones.
RightEdge(S) == MapThenSumSet(LAMBDA o : place[o].w, S)

\* The outputs in S lie side by side, from the origin on.
Tiled(S, at) ==
  \A o \in S : at[o].x = MapThenSumSet(LAMBDA p : at[p].w, {p \in S : at[p].x < at[o].x})

-----------------------------------------------------------------------------
\* The CRTC drives an output (device.surfaces).
HasSurface(c) == \E o \in space : crtc[o] = c

\* Listed handles of the outputs in S are told something (send_mode, failed).
Tell(hs, S, what) ==
  [h \in Handles |-> IF hs[h].listed /\ hs[h].of \in S THEN [hs[h] EXCEPT !.told = what]
                     ELSE hs[h]]

\* An Output object nothing holds any more.
Free(o) == o \notin space \cup off /\ \A h \in Handles : handles[h].of # o

\* The compositor does not start without a usable card.
Init == /\ cards \in SUBSET Cards
        /\ renderer \in cards
        /\ seen = {} /\ space = {} /\ off = {}
        /\ redraw = {} /\ damaged = {} /\ lit = {}
        /\ place = [o \in Displays |-> Nowhere]
        /\ crtc = [o \in Displays |-> None]
        /\ handles = [h \in Handles |-> NoHandle]

-----------------------------------------------------------------------------
(* Cards and connectors.                                                   *)

\* device_added: the first usable card also makes the renderer.
DeviceAdded(g) ==
  /\ g \notin cards
  /\ cards' = cards \cup {g}
  /\ renderer' = IF renderer = None THEN g ELSE renderer
  /\ UNCHANGED <<seen, space, place, crtc, off, handles, redraw, damaged, lit>>

\* connector_connected.  The scanner reports the connector once; without a renderer,
\* or when the driver cannot initialize the output, that was it.
ConnectorConnected(c, p) ==
  /\ CardOf[c] \in cards /\ c \notin seen
  /\ renderer # None
  /\ seen' = seen \cup {c}
  /\ \E o \in Displays :
       /\ Free(o)
       /\ space' = space \cup {o}
       /\ place' = [place EXCEPT ![o] = [x |-> RightEdge(space), w |-> LogicalWidth(p)]]
       /\ crtc' = [crtc EXCEPT ![o] = c]
  /\ redraw' = redraw \cup {c}
  /\ damaged' = damaged \cup {c}
  /\ UNCHANGED <<cards, renderer, off, handles, lit>>

ConnectorLost(c) ==
  /\ CardOf[c] \in cards /\ c \notin seen
  /\ seen' = seen \cup {c}
  /\ UNCHANGED <<cards, renderer, space, place, crtc, off, handles, redraw, damaged, lit>>

\* output_removed: the handles fail and the blanked bit is dropped.
OutputRemoved(S) ==
  /\ handles' = [h \in Handles |->
       IF handles[h].of \in S /\ handles[h].listed
       THEN [handles[h] EXCEPT !.listed = FALSE, !.told = "failed"] ELSE handles[h]]
  /\ off' = off \ S

\* connector_disconnected, for the CRTCs in C.
Disconnected(C) ==
  LET gone == {o \in space : crtc[o] \in C}
  IN  /\ space' = space \ gone
      /\ place' = [o \in Displays |-> IF o \in gone THEN Nowhere ELSE place[o]]
      /\ OutputRemoved(gone)
      /\ lit' = lit \ {crtc[o] : o \in gone}
      /\ damaged' = damaged \ {crtc[o] : o \in gone}
      /\ seen' = seen \ C
      /\ UNCHANGED <<crtc, redraw>>

ConnectorDisconnected(c) ==
  /\ c \in seen
  /\ Disconnected({c})
  /\ UNCHANGED <<cards, renderer>>

\* Mutant: the renderer of a removed card stays in use.
KeepRenderer(g) ==
  /\ g \in cards
  /\ Disconnected({c \in Crtcs : CardOf[c] = g})
  /\ cards' = cards \ {g}
  /\ UNCHANGED renderer

\* device_removed: the renderer goes with the card it was made on.
DeviceRemoved(g) ==
  /\ g \in cards
  /\ Disconnected({c \in Crtcs : CardOf[c] = g})
  /\ cards' = cards \ {g}
  /\ renderer' = IF renderer = g THEN None ELSE renderer

-----------------------------------------------------------------------------
(* Output power.                                                           *)

\* get_output_power, on a wl_output whose Output object is alive (besides handles, the
\* layouts keep objects of outputs that left), or is gone.
GetOutputPower(h, o) ==
  /\ handles[h] = NoHandle
  /\ o # None => crtc[o] # None
  /\ handles' = [handles EXCEPT ![h] =
       IF o = None THEN [NoHandle EXCEPT !.told = "failed"]
       ELSE [of |-> o, listed |-> TRUE, told |-> IF o \in off THEN "off" ELSE "on"]]
  /\ UNCHANGED <<cards, renderer, seen, space, place, crtc, off, redraw, damaged, lit>>

\* set_output_power(off).  The CRTC is cleared, whichever output is on it; without one,
\* or when the driver refuses, listed handles fail.  Clearing leaves the buffers as
\* they are and asks for no redraw; one that waits for a flip is lost with the frame.
PowerOff(h, refused) ==
  /\ handles[h].of # None
  /\ LET o == handles[h].of
     IN  /\ o \notin off
         /\ IF HasSurface(crtc[o]) /\ ~refused
            THEN /\ off' = off \cup {o}
                 /\ lit' = lit \ {crtc[o]}
                 /\ redraw' \in {redraw, redraw \ {crtc[o]}}
                 /\ handles' = Tell(handles, {o}, "off")
            ELSE /\ handles' = Tell(handles, {o}, "failed")
                 /\ UNCHANGED <<off, redraw, lit>>
  /\ UNCHANGED <<cards, renderer, seen, space, place, crtc, damaged>>

\* Mutants: the buffers are not reset; only the handle that asked is told.
TurnOnAsItWas(S) ==
  LET ready == {o \in S : HasSurface(crtc[o])}
  IN  /\ off' = off \ ready
      /\ redraw' = redraw \cup {crtc[o] : o \in ready}
      /\ damaged' = damaged
      /\ handles' = Tell(Tell(handles, ready, "on"), S \ ready, "failed")
TurnOnQuietly(S) ==
  LET ready == {o \in S : HasSurface(crtc[o])}
  IN  /\ off' = off \ ready
      /\ redraw' = redraw \cup {crtc[o] : o \in ready}
      /\ damaged' = damaged \cup {crtc[o] : o \in ready}
      /\ handles' = handles

\* set_output_power(on), for the blanked outputs in S: the buffers of the CRTC are reset,
\* so that the redraw presents all of the screen.
TurnOn(S) ==
  LET ready == {o \in S : HasSurface(crtc[o])}
  IN  /\ off' = off \ ready
      /\ redraw' = redraw \cup {crtc[o] : o \in ready}
      /\ damaged' = damaged \cup {crtc[o] : o \in ready}
      /\ handles' = Tell(Tell(handles, ready, "on"), S \ ready, "failed")

PowerOn(h) ==
  /\ handles[h].of \in off
  /\ TurnOn({handles[h].of})
  /\ UNCHANGED <<cards, renderer, seen, space, place, crtc, lit>>

HandleDestroyed(h) ==
  /\ handles[h] # NoHandle
  /\ handles' = [handles EXCEPT ![h] = NoHandle]
  /\ UNCHANGED <<cards, renderer, seen, space, place, crtc, off, redraw, damaged, lit>>

\* wake_outputs_if_off, at an input event: the event is consumed if it returns true.
Consumed == off # {}

\* Mutant: only outputs of the Space are woken.
WakeSpace == /\ TurnOn(off \cap space)
             /\ UNCHANGED <<cards, renderer, seen, space, place, crtc, lit>>

WakeOutputs == /\ TurnOn(off)
               /\ UNCHANGED <<cards, renderer, seen, space, place, crtc, lit>>

InputConsumed == Consumed /\ WakeOutputs

-----------------------------------------------------------------------------
(* Rendering.                                                              *)

\* A surface commit, or a layout change, asks for a redraw of every output.  What it
\* changes is on some of them.
ScheduleRender ==
  /\ redraw' = redraw \cup {crtc[o] : o \in space}
  /\ \E D \in SUBSET {crtc[o] : o \in space} : damaged' = damaged \cup D
  /\ UNCHANGED <<cards, renderer, seen, space, place, crtc, off, handles, lit>>

\* Mutants: without the check for a blanked output; the blanked bit looked up by CRTC.
RendersBlanked(c) == renderer # None /\ HasSurface(c)
RendersByCrtc(c)  == renderer # None /\ HasSurface(c) /\ \A o \in off : crtc[o] # c

\* render_surface gets as far as rendering: the output on the CRTC is not blanked.
Renders(c) == renderer # None /\ \E o \in space \ off : crtc[o] = c

\* Without damage nothing is presented.  A render that fails is tried again by a timer,
\* with its redraw and its damage as they were.
RenderSurface(c) ==
  /\ c \in redraw
  /\ redraw' = redraw \ {c}
  /\ IF Renders(c) /\ c \in damaged
     THEN lit' = lit \cup {c} /\ damaged' = damaged \ {c}
     ELSE UNCHANGED <<damaged, lit>>
  /\ UNCHANGED <<cards, renderer, seen, space, place, crtc, off, handles>>

-----------------------------------------------------------------------------
Next ==
  \/ \E g \in Cards : DeviceAdded(g) \/ DeviceRemoved(g)
  \/ \E c \in Crtcs :
       \/ \E p \in Panels : ConnectorConnected(c, p)
       \/ ConnectorLost(c)
       \/ ConnectorDisconnected(c)
       \/ RenderSurface(c)
  \/ \E h \in Handles :
       \/ \E o \in Displays \cup {None} : GetOutputPower(h, o)
       \/ \E refused \in BOOLEAN : PowerOff(h, refused)
       \/ PowerOn(h)
       \/ HandleDestroyed(h)
  \/ InputConsumed
  \/ ScheduleRender

Spec == Init /\ [][Next]_vars

\* The event loop runs the redraw callbacks, and rendering does not fail for ever.
FairSpec == Spec /\ \A c \in Crtcs : WF_vars(RenderSurface(c))

-----------------------------------------------------------------------------
(* What hotplug and power promise.                                         *)

\* A client that was told a mode and not that its handle failed was told the mode the
\* output has now, whoever changed it: another client, the user, or nobody since the
\* handle was made (send_mode).
ToldIsMode ==
  \A h \in Handles : handles[h].told \in {"on", "off"} =>
    handles[h].listed /\ (handles[h].told = "off" <=> handles[h].of \in off)

\* An output that is blanked and connected stays dark, though handles of outputs that
\* were on its CRTC before keep switching the CRTC.
BlankedIsDark == \A o \in off \cap space : crtc[o] \notin lit

\* A consumed input event leaves no output of the Space blanked: each blanked output with a
\* panel is redrawn as a whole and all its clients know, and so is one that left while another output
\* is on its CRTC (wake_outputs_if_off: "Wake every blanked output").
WokenByInput ==
  /\ off' \cap space' = {}
  /\ \A o \in off : HasSurface(crtc[o]) =>
       /\ o \notin off'
       /\ crtc[o] \in redraw' \cap damaged'
       /\ \A h \in Handles : handles[h].listed /\ handles[h].of = o => handles'[h].told = "on"

WakingWakesAllPanels == [][InputConsumed => WokenByInput]_vars

\* While no gap was left behind, a new output neither overlaps the others nor leaves one
\* ("place each output to the right of the existing ones"), whatever their scales.
ConnectKeepsTiling ==
  [][Tiled(space, place) /\ space \subseteq space' => Tiled(space', place')]_vars

\* An output that is on is dark only while its next render presents a frame, or while a
\* blanked output on its CRTC lets the next input event light it (a handle of an output
\* that left can clear the CRTC under a live one).
DarkIsWakeable ==
  \A o \in space \ off : crtc[o] \notin lit =>
    crtc[o] \in damaged \/ \E p \in off : crtc[p] = crtc[o]

\* An output that is on, has damage and was asked to redraw shows a frame, unless outputs
\* are blanked or woken meanwhile, it leaves or the renderer does: the bit of an output
\* that left keeps no other one dark.
LiveIsLit ==
  \A o \in Displays : \A K \in SUBSET (Displays \ {o}) :
    o \in space /\ off = K /\ crtc[o] \in redraw \cap damaged
      ~> crtc[o] \in lit \/ o \notin space \/ off # K \/ renderer = None
=============================================================================
