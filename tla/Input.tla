-------------------------------- MODULE Input --------------------------------
(***************************************************************************)
(* Input events and user idleness: process_input_event and the keyboard    *)
(* filter of input.rs, the touch capability of the seat, and the idle      *)
(* inhibitors of handlers/idle.rs.                                         *)
(*                                                                         *)
(* While outputs are blanked an event wakes them and goes no further       *)
(* (module Outputs says what waking does; an output that left can stay     *)
(* blanked for ever).  The keyboard of the library keeps the keys clients  *)
(* see pressed, and counts the presses of a modifier key as xkb does.      *)
(***************************************************************************)
EXTENDS Integers

CONSTANTS
  Keys,        \* the keys of the keyboard
  Modifiers,   \* those that are modifiers, named as in ModifiersState
  Sym,         \* [Keys -> [SUBSET Modifiers -> keysym]], the layout
  Surfaces,    \* surfaces of clients that inhibit idling
  MaxPresses   \* bound on the presses xkb has counted of one modifier key

VARIABLES
  down,        \* the keys that are down
  pressed,     \* [Modifiers -> presses xkb has counted]
  client,      \* the keys clients see pressed
  suppressed,  \* State.suppressed_keys
  off,         \* some output is blanked
  screen,      \* a touchscreen is there
  touch,       \* the seat has the touch capability
  inhibiting,  \* State.idle_inhibiting_surfaces
  alive,       \* the surfaces that exist
  inhibited,   \* IdleNotifierState: inhibited,
  idle,        \*   and idle clients were told so
  lost,        \* history: the keys, or "screen", whose release or arrival was consumed
  turn,        \* the event loop has handled an event since its last refresh
  running      \* the event loop runs

keyboard == <<down, pressed, client, suppressed>>
devices  == <<screen, touch>>
idling   == <<inhibiting, alive, inhibited, idle>>
vars     == <<keyboard, off, devices, idling, lost, turn, running>>

Keysyms == {Sym[k][M] : k \in Keys, M \in SUBSET Modifiers}

ASSUME KeysAssumption   == Modifiers \subseteq Keys /\ "screen" \notin Keys
ASSUME BoundAssumption  == MaxPresses \in Nat \ {0}

\* Keys whose keysym no modifier changes.
Plain == {k \in Keys : \A M \in SUBSET Modifiers : Sym[k][M] = Sym[k][{}]}

ASSUME LayoutAssumption ==
  \A k \in Plain, l \in Keys, M \in SUBSET Modifiers : Sym[l][M] = Sym[k][{}] => l = k

TypeOK ==
  /\ down \subseteq Keys
  /\ pressed \in [Modifiers -> 0..MaxPresses]
  /\ client \subseteq Keys
  /\ suppressed \subseteq Keysyms
  /\ off \in BOOLEAN
  /\ screen \in BOOLEAN /\ touch \in BOOLEAN
  /\ inhibiting \subseteq Surfaces /\ alive \subseteq Surfaces
  /\ inhibited \in BOOLEAN /\ idle \in BOOLEAN
  /\ lost \subseteq Keys \cup {"screen"}
  /\ turn \in BOOLEAN /\ running \in BOOLEAN

Init ==
  /\ down = {} /\ client = {} /\ suppressed = {} /\ lost = {}
  /\ pressed = [m \in Modifiers |-> 0]
  /\ off = FALSE /\ screen = FALSE /\ touch = FALSE
  /\ inhibiting = {} /\ alive = {} /\ inhibited = FALSE /\ idle = FALSE
  /\ turn = FALSE /\ running = TRUE

-----------------------------------------------------------------------------
(* The keyboard.                                                           *)

\* process_keyboard_shortcut.
Shortcut(M, sym) ==
  CASE \/ {"ctrl", "alt"} \subseteq M /\ sym = "BackSpace"
       \/ "logo" \in M /\ sym = "q"              -> "Quit"
    [] sym = "XF86Switch_VT"                     -> "VtSwitch"
    [] "logo" \in M /\ sym = "Return"            -> "Run"
    [] OTHER                                     -> "None"

\* The modifiers in effect, and the keysym of a key under them.
InEffect(p) == {m \in Modifiers : p[m] > 0}

\* Mutant: a release is counted although the press was not.
CountedDown(k, by) == [m \in Modifiers |-> IF m = k THEN pressed[m] + by ELSE pressed[m]]

Counted(k, by) ==
  [m \in Modifiers |-> IF m = k THEN IF pressed[m] + by < 0 THEN 0 ELSE pressed[m] + by
                       ELSE pressed[m]]

\* The filter of a press: a shortcut is kept from the client, and its keysym
\* remembered.
Press(k) ==
  LET p      == Counted(k, 1)
      sym    == Sym[k][InEffect(p)]
      action == Shortcut(InEffect(p), sym)
  IN  /\ pressed' = p
      /\ client' = IF action = "None" THEN client \cup {k} ELSE client
      /\ suppressed' = IF action = "None" THEN suppressed ELSE suppressed \cup {sym}
      /\ running' = (action # "Quit")
      /\ UNCHANGED lost

\* Mutant: a keysym is remembered for ever.
ReleaseKeeps(k) ==
  LET p   == Counted(k, -1)
      sym == Sym[k][InEffect(p)]
  IN  /\ pressed' = p
      /\ client' = IF sym \in suppressed THEN client ELSE client \ {k}
      /\ lost' = IF k \in client' THEN lost ELSE lost \ {k}
      /\ UNCHANGED <<suppressed, running>>

\* The filter of a release: the release of a shortcut is kept from the client too.  What
\* waking lost of the key is made good if the client and the filter have forgotten it.
Release(k) ==
  LET p   == Counted(k, -1)
      sym == Sym[k][InEffect(p)]
  IN  /\ pressed' = p
      /\ client' = IF sym \in suppressed THEN client ELSE client \ {k}
      /\ suppressed' = suppressed \ {sym}
      /\ lost' = IF k \in client' THEN lost ELSE lost \ {k}
      /\ UNCHANGED running

-----------------------------------------------------------------------------
(* Input events.                                                           *)

\* wake_outputs_if_off consumes the event: a release, or the arrival of a touchscreen,
\* is lost.
Wake(what) ==
  /\ off
  /\ off' \in BOOLEAN
  /\ lost' = lost \cup what
  /\ UNCHANGED <<pressed, client, suppressed, touch, idle, running>>

\* Any other event counts as activity.
Active == ~off /\ off' = off /\ idle' = FALSE

KeyDown(k) ==
  /\ k \notin down
  /\ k \in Modifiers => pressed[k] < MaxPresses
  /\ down' = down \cup {k}
  /\ \/ Wake({})
     \/ Active /\ Press(k) /\ UNCHANGED touch
  /\ UNCHANGED <<screen, inhibiting, alive, inhibited>>

KeyUp(k) ==
  /\ k \in down
  /\ down' = down \ {k}
  /\ \/ Wake({k})
     \/ Active /\ Release(k) /\ UNCHANGED touch
  /\ UNCHANGED <<screen, inhibiting, alive, inhibited>>

\* on_device_added, for a device with the touch capability.
DeviceAdded == touch' = TRUE

\* DeviceAdded and DeviceRemoved of a touchscreen; nothing happens when one goes.
ScreenAdded ==
  /\ ~screen /\ screen' = TRUE
  /\ \/ Wake({"screen"})
     \/ /\ Active /\ DeviceAdded
        /\ lost' = lost \ {"screen"}
        /\ UNCHANGED <<pressed, client, suppressed, running>>
  /\ UNCHANGED <<down, inhibiting, alive, inhibited>>

ScreenRemoved ==
  /\ screen /\ screen' = FALSE
  /\ \/ Wake({})
     \/ Active /\ UNCHANGED <<pressed, client, suppressed, touch, lost, running>>
  /\ UNCHANGED <<down, inhibiting, alive, inhibited>>

\* Pointers, touches and gestures.
OtherInput ==
  /\ \/ Wake({})
     \/ Active /\ UNCHANGED <<pressed, client, suppressed, touch, lost, running>>
  /\ UNCHANGED <<down, screen, inhibiting, alive, inhibited>>

\* A client blanks an output (handlers/output_power.rs), or its output leaves.
Blanked ==
  /\ off' = ~off
  /\ UNCHANGED <<keyboard, devices, idling, lost, running>>

-----------------------------------------------------------------------------
(* Idleness.                                                               *)

\* set_is_inhibited tells idle clients that they are not.
SetIsInhibited(yes) ==
  /\ inhibited' = yes
  /\ idle' = (idle /\ ~yes)

\* Mutant: surfaces that died are not forgotten.
UpdateKeepsDead(S) == inhibiting' = S /\ SetIsInhibited(S # {})

\* update_idle_inhibit, with the surfaces S that inhibit.
UpdateIdleInhibit(S) == inhibiting' = S \cap alive' /\ SetIsInhibited(S \cap alive' # {})

\* Mutant: inhibitors count from the end of the turn.
InhibitLater(s) ==
  /\ s \in alive \ inhibiting
  /\ inhibiting' = inhibiting \cup {s}
  /\ UNCHANGED <<keyboard, off, devices, alive, inhibited, idle, lost, running>>

Inhibit(s) ==
  /\ s \in alive \ inhibiting
  /\ alive' = alive
  /\ UpdateIdleInhibit(inhibiting \cup {s})
  /\ UNCHANGED <<keyboard, off, devices, lost, running>>

Uninhibit(s) ==
  /\ s \in inhibiting
  /\ alive' = alive
  /\ UpdateIdleInhibit(inhibiting \ {s})
  /\ UNCHANGED <<keyboard, off, devices, lost, running>>

\* Clients create and destroy surfaces; a surface can die with its inhibitor in place.
SurfaceMade(s) ==
  /\ s \notin alive \cup inhibiting
  /\ alive' = alive \cup {s}
  /\ UNCHANGED <<keyboard, off, devices, inhibiting, inhibited, idle, lost, running>>

SurfaceDied(s) ==
  /\ s \in alive
  /\ alive' = alive \ {s}
  /\ UNCHANGED <<keyboard, off, devices, inhibiting, inhibited, idle, lost, running>>

\* The idle timers of the library run out.
IdleTimeout ==
  /\ ~inhibited /\ ~idle
  /\ idle' = TRUE
  /\ UNCHANGED <<keyboard, off, devices, inhibiting, alive, inhibited, lost, running>>

-----------------------------------------------------------------------------
InputEvent ==
  \/ \E k \in Keys : KeyDown(k) \/ KeyUp(k)
  \/ ScreenAdded \/ ScreenRemoved
  \/ OtherInput

Handled ==
  /\ running
  /\ turn' = TRUE
  /\ \/ InputEvent
     \/ Blanked
     \/ \E s \in Surfaces :
          Inhibit(s) \/ Uninhibit(s) \/ SurfaceMade(s) \/ SurfaceDied(s)
     \/ IdleTimeout

\* The callback of the event loop.
EndTurn ==
  /\ running /\ turn
  /\ turn' = FALSE
  /\ alive' = alive
  /\ UpdateIdleInhibit(inhibiting)
  /\ UNCHANGED <<keyboard, off, devices, lost, running>>

Next == Handled \/ EndTurn

Spec == Init /\ [][Next]_vars

\* Turns end, and idle timers run out when nothing resets them.
FairSpec == Spec /\ WF_vars(EndTurn) /\ WF_vars(Handled /\ IdleTimeout)

-----------------------------------------------------------------------------
(* What users and idle clients are promised.                               *)

\* Waking is all that loses an event: a client holds a key that is up, or a touchscreen
\* does not work, only if the release or the screen came while outputs were blanked, or,
\* for a key, if such a release left its keysym with the filter ("so that we can decide on
\* a release if the key should be forwarded").  Keys whose keysym depends on modifiers are
\* left out: the filter can miss their release.
OnlyWakingLoses ==
  /\ client \cap Plain \subseteq down \cup lost
  /\ screen => touch \/ "screen" \in lost

\* Nobody is told the user is idle while a surface that exists inhibits that, not even
\* between the requests of one turn.
InhibitorKeepsAwake == idle => inhibiting \cap alive = {}

\* The inductive invariants the proofs use: unless waking lost its release, the filter
\* remembers a key only while it is down and kept from the clients.
KeysInv ==
  \A k \in Plain \ lost :
    /\ k \in client => k \in down
    /\ Sym[k][{}] \in suppressed => k \in down /\ k \notin client

ScreenInv == screen => touch \/ "screen" \in lost

AwakeInv == /\ inhibiting \cap alive # {} => inhibited
            /\ inhibited => ~idle

\* Once input stops and no inhibiting surface is left, idle clients hear of it, also when
\* the surface died with its inhibitor in place.
IdleComes ==
  /\ <>[][~InputEvent]_vars
  /\ <>[](running /\ inhibiting \cap alive = {})
  => <>[]idle
=============================================================================
