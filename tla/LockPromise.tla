----------------------------- MODULE LockPromise -----------------------------
(***************************************************************************)
(* What a session lock promises, without frames, marks or event loops: the *)
(* `locked` event is sent only when every panel is sure to hide the        *)
(* desktop with its next flip at the latest, and from then until the       *)
(* unlock the desktop only disappears from panels.                         *)
(***************************************************************************)
VARIABLES
  phase,      \* "Unlocked", "Locking" or "Locked", as LockPhase of state.rs
  showing,    \* the panels that show the desktop
  bare        \* the panels whose next flip is not sure to hide the desktop

vars == <<phase, showing, bare>>

Init == phase = "Unlocked" /\ showing = {} /\ bare = {}

\* A client asks for the lock.  It is granted at once when there is nothing to
\* hide and nothing to wait for.
Request == /\ phase = "Unlocked"
           /\ phase' \in {"Locking", "Locked"}
           /\ phase' = "Locked" => bare' = {}

Grant == phase = "Locking" /\ phase' = "Locked" /\ bare' = {}

Release == phase = "Locked" /\ phase' = "Unlocked"

\* The panels change at will while the lock is not granted, and for the better
\* after.
Screen == /\ phase' = phase
          /\ phase = "Locked" => showing' \subseteq showing /\ bare' = {}

Next == Request \/ Grant \/ Release \/ Screen

Spec == Init /\ [][Next]_vars
=============================================================================
