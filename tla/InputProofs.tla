----------------------------- MODULE InputProofs -----------------------------
(***************************************************************************)
(* What module Input promises holds for any keyboard, layout and surfaces. *)
(***************************************************************************)
EXTENDS Input, TLAPS

\* Types are kept by every step.
LEMMA TypeInit == Init => TypeOK
<1> SUFFICES ASSUME Init PROVE TypeOK
  OBVIOUS
<1>1. pressed \in [Modifiers -> 0..MaxPresses]
  BY BoundAssumption DEF Init
<1>2. /\ down \subseteq Keys /\ client \subseteq Keys /\ suppressed \subseteq Keysyms
      /\ inhibiting \subseteq Surfaces /\ alive \subseteq Surfaces
      /\ lost \subseteq Keys \cup {"screen"}
  BY DEF Init
<1>3. /\ off \in BOOLEAN /\ screen \in BOOLEAN /\ touch \in BOOLEAN
      /\ inhibited \in BOOLEAN /\ idle \in BOOLEAN /\ turn \in BOOLEAN /\ running \in BOOLEAN
  BY DEF Init
<1> QED
  BY <1>1, <1>2, <1>3 DEF TypeOK

LEMMA CountedUp ==
  ASSUME TypeOK, NEW k \in Keys, k \in Modifiers => pressed[k] < MaxPresses
  PROVE  Counted(k, 1) \in [Modifiers -> 0..MaxPresses]
BY BoundAssumption DEF TypeOK, Counted

LEMMA CountedLess ==
  ASSUME TypeOK, NEW k \in Keys
  PROVE  Counted(k, -1) \in [Modifiers -> 0..MaxPresses]
BY BoundAssumption DEF TypeOK, Counted

LEMMA InEffectType == ASSUME NEW p PROVE InEffect(p) \in SUBSET Modifiers
BY DEF InEffect

LEMMA SymType == ASSUME NEW k \in Keys, NEW M \in SUBSET Modifiers PROVE Sym[k][M] \in Keysyms
BY DEF Keysyms

LEMMA PressTypes ==
  ASSUME TypeOK, NEW k \in Keys, k \in Modifiers => pressed[k] < MaxPresses, Press(k)
  PROVE  /\ pressed' \in [Modifiers -> 0..MaxPresses]
         /\ client' \subseteq Keys /\ suppressed' \subseteq Keysyms
         /\ lost' \subseteq Keys \cup {"screen"} /\ running' \in BOOLEAN
<1> DEFINE sym == Sym[k][InEffect(Counted(k, 1))]
<1>1. sym \in Keysyms
  BY InEffectType, SymType
<1>2. suppressed' \in {suppressed, suppressed \cup {sym}}
  BY DEF Press
<1>3. suppressed' \subseteq Keysyms
  BY <1>1, <1>2 DEF TypeOK
<1>4. client' \in {client, client \cup {k}} /\ lost' = lost /\ running' \in BOOLEAN
  BY DEF Press
<1> QED
  BY <1>3, <1>4, CountedUp DEF TypeOK, Press

LEMMA ReleaseTypes ==
  ASSUME TypeOK, NEW k \in Keys, Release(k)
  PROVE  /\ pressed' \in [Modifiers -> 0..MaxPresses]
         /\ client' \subseteq Keys /\ suppressed' \subseteq Keysyms
         /\ lost' \subseteq Keys \cup {"screen"} /\ running' \in BOOLEAN
<1>1. client' \in {client, client \ {k}} /\ lost' \in {lost, lost \ {k}} /\ running' = running
  BY DEF Release
<1>2. suppressed' \subseteq suppressed
  BY DEF Release
<1> QED
  BY <1>1, <1>2, CountedLess DEF TypeOK, Release

LEMMA TypeStep == TypeOK /\ [Next]_vars => TypeOK'
<1> SUFFICES ASSUME TypeOK, [Next]_vars PROVE TypeOK'
  OBVIOUS
<1> USE DEF keyboard, devices, idling
<1>1. ASSUME NEW k \in Keys, KeyDown(k), turn' \in BOOLEAN PROVE TypeOK'
  <2>1. CASE Wake({})
    BY <1>1, <2>1 DEF KeyDown, Wake, TypeOK
  <2>2. CASE Active /\ Press(k) /\ UNCHANGED touch
    <3>1. off' = off /\ idle' = FALSE /\ touch' = touch
      BY <2>2 DEF Active
    <3>2. down' \subseteq Keys /\ UNCHANGED <<screen, inhibiting, alive, inhibited>>
      BY <1>1 DEF KeyDown, TypeOK
    <3>3. k \in Modifiers => pressed[k] < MaxPresses
      BY <1>1 DEF KeyDown
    <3> HIDE DEF keyboard, devices, idling
    <3> QED
      BY <1>1, <2>2, <3>1, <3>2, <3>3, PressTypes DEF TypeOK
  <2> QED
    BY <1>1, <2>1, <2>2 DEF KeyDown
<1>2. ASSUME NEW k \in Keys, KeyUp(k), turn' \in BOOLEAN PROVE TypeOK'
  <2>1. CASE Wake({k})
    BY <1>2, <2>1 DEF KeyUp, Wake, TypeOK
  <2>2. CASE Active /\ Release(k) /\ UNCHANGED touch
    <3>1. off' = off /\ idle' = FALSE /\ touch' = touch
      BY <2>2 DEF Active
    <3>2. down' \subseteq Keys /\ UNCHANGED <<screen, inhibiting, alive, inhibited>>
      BY <1>2 DEF KeyUp, TypeOK
    <3> HIDE DEF keyboard, devices, idling
    <3> QED
      BY <1>2, <2>2, <3>1, <3>2, ReleaseTypes DEF TypeOK
  <2> QED
    BY <1>2, <2>1, <2>2 DEF KeyUp
<1>3. ASSUME ScreenAdded \/ ScreenRemoved \/ OtherInput, turn' \in BOOLEAN PROVE TypeOK'
  BY <1>3 DEF ScreenAdded, ScreenRemoved, OtherInput, Wake, Active, DeviceAdded, TypeOK
<1>4. ASSUME NEW s \in Surfaces, turn' \in BOOLEAN,
             Inhibit(s) \/ Uninhibit(s) \/ SurfaceMade(s) \/ SurfaceDied(s)
      PROVE  TypeOK'
  BY <1>4 DEF Inhibit, Uninhibit, SurfaceMade, SurfaceDied, UpdateIdleInhibit, SetIsInhibited,
              TypeOK
<1>5. ASSUME Blanked \/ IdleTimeout, turn' \in BOOLEAN PROVE TypeOK'
  BY <1>5 DEF Blanked, IdleTimeout, TypeOK
<1>6. CASE EndTurn
  BY <1>6 DEF EndTurn, UpdateIdleInhibit, SetIsInhibited, TypeOK
<1>7. CASE UNCHANGED vars
  BY <1>7 DEF vars, TypeOK
<1> QED
  BY <1>1, <1>2, <1>3, <1>4, <1>5, <1>6, <1>7 DEF Next, Handled, InputEvent

\* Every reachable state has its types, for any keys, layout and surfaces.
THEOREM InputTypeCorrect == Spec => []TypeOK
BY TypeInit, TypeStep, PTL DEF Spec

-----------------------------------------------------------------------------
(* Events are lost by waking only.                                         *)

LEMMA KeysStep == TypeOK /\ KeysInv /\ [Next]_vars => KeysInv'
<1> SUFFICES ASSUME TypeOK, KeysInv, [Next]_vars, NEW j \in Plain, j \notin lost'
             PROVE  /\ j \in client' => j \in down'
                    /\ Sym[j][{}] \in suppressed' => j \in down' /\ j \notin client'
  BY DEF KeysInv, Plain
<1>1. j \in Keys /\ \A M \in SUBSET Modifiers : Sym[j][M] = Sym[j][{}]
  BY DEF Plain
<1>2. ASSUME UNCHANGED <<down, client, suppressed, lost>>
      PROVE  /\ j \in client' => j \in down'
             /\ Sym[j][{}] \in suppressed' => j \in down' /\ j \notin client'
  BY <1>2 DEF KeysInv
<1>3. ASSUME NEW k \in Keys, KeyDown(k)
      PROVE  /\ j \in client' => j \in down'
             /\ Sym[j][{}] \in suppressed' => j \in down' /\ j \notin client'
  <2>1. down' = down \cup {k} /\ k \notin down
    BY <1>3 DEF KeyDown
  <2>2. CASE Wake({})
    BY <2>1, <2>2 DEF Wake, KeysInv
  <2>3. CASE Press(k)
    <3> DEFINE sym == Sym[k][InEffect(Counted(k, 1))]
    <3>1. lost' = lost
      BY <2>3 DEF Press
    <3>2. \/ client' = client \cup {k} /\ suppressed' = suppressed
          \/ client' = client /\ suppressed' = suppressed \cup {sym}
      BY <2>3 DEF Press
    <3>3. sym = Sym[j][{}] => k = j
      BY LayoutAssumption, InEffectType
    <3> HIDE DEF sym
    <3> QED
      BY <2>1, <3>1, <3>2, <3>3 DEF KeysInv
  <2> QED
    BY <1>3, <2>2, <2>3 DEF KeyDown
<1>4. ASSUME NEW k \in Keys, KeyUp(k)
      PROVE  /\ j \in client' => j \in down'
             /\ Sym[j][{}] \in suppressed' => j \in down' /\ j \notin client'
  <2>1. down' = down \ {k} /\ k \in down
    BY <1>4 DEF KeyUp
  <2>2. CASE Wake({k})
    BY <2>1, <2>2 DEF Wake, KeysInv
  <2>3. CASE Release(k)
    <3> DEFINE sym == Sym[k][InEffect(Counted(k, -1))]
    <3>1. /\ lost' = IF k \in client' THEN lost ELSE lost \ {k}
          /\ client' = IF sym \in suppressed THEN client ELSE client \ {k}
          /\ suppressed' = suppressed \ {sym}
      BY <2>3 DEF Release
    <3>2. CASE k = j
      <4>1. sym = Sym[j][{}]
        BY <1>1, <3>2, InEffectType
      <4> HIDE DEF sym
      <4> QED
        BY <2>1, <3>1, <3>2, <4>1 DEF KeysInv
    <3>3. CASE k # j
      <4>1. j \notin lost
        BY <3>1, <3>3
      <4> HIDE DEF sym
      <4> QED
        BY <2>1, <3>1, <3>3, <4>1 DEF KeysInv
    <3> QED
      BY <3>2, <3>3
  <2> QED
    BY <1>4, <2>2, <2>3 DEF KeyUp
<1>5. ASSUME ScreenAdded \/ ScreenRemoved \/ OtherInput
      PROVE  UNCHANGED <<down, client, suppressed>> /\ lost' \in {lost, lost \cup {"screen"}, lost \ {"screen"}}
  BY <1>5, Zenon DEF ScreenAdded, ScreenRemoved, OtherInput, Wake
<1>6. ASSUME ScreenAdded \/ ScreenRemoved \/ OtherInput
      PROVE  /\ j \in client' => j \in down'
             /\ Sym[j][{}] \in suppressed' => j \in down' /\ j \notin client'
  <2>1. j \notin lost
    BY <1>1, <1>5, <1>6, KeysAssumption
  <2> QED
    BY <1>5, <1>6, <2>1 DEF KeysInv
<1>7. ASSUME \/ Blanked \/ IdleTimeout \/ EndTurn \/ UNCHANGED vars
             \/ \E s \in Surfaces : Inhibit(s) \/ Uninhibit(s) \/ SurfaceMade(s) \/ SurfaceDied(s)
      PROVE  UNCHANGED <<down, client, suppressed, lost>>
  BY <1>7 DEF Blanked, IdleTimeout, EndTurn, Inhibit, Uninhibit, SurfaceMade, SurfaceDied, vars,
              keyboard
<1> QED
  BY <1>2, <1>3, <1>4, <1>6, <1>7 DEF Next, Handled, InputEvent

LEMMA ScreenStep == TypeOK /\ ScreenInv /\ [Next]_vars => ScreenInv'
<1> SUFFICES ASSUME TypeOK, ScreenInv, [Next]_vars PROVE ScreenInv'
  OBVIOUS
<1>1. ASSUME NEW k \in Keys, KeyDown(k) \/ KeyUp(k) PROVE ScreenInv'
  <2>1. screen' = screen /\ touch' = touch
    BY <1>1 DEF KeyDown, KeyUp, Wake
  <2>2. lost' \in {lost, lost \cup {}, lost \cup {k}, lost \ {k}}
    BY <1>1 DEF KeyDown, KeyUp, Wake, Press, Release
  <2> QED
    BY <2>1, <2>2, KeysAssumption DEF ScreenInv
<1>2. ASSUME ScreenAdded \/ ScreenRemoved \/ OtherInput PROVE ScreenInv'
  BY <1>2 DEF ScreenAdded, ScreenRemoved, OtherInput, Wake, Active, DeviceAdded, ScreenInv
<1>3. ASSUME \/ Blanked \/ IdleTimeout \/ EndTurn \/ UNCHANGED vars
             \/ \E s \in Surfaces : Inhibit(s) \/ Uninhibit(s) \/ SurfaceMade(s) \/ SurfaceDied(s)
      PROVE  ScreenInv'
  BY <1>3 DEF Blanked, IdleTimeout, EndTurn, Inhibit, Uninhibit, SurfaceMade, SurfaceDied, vars,
              devices, ScreenInv
<1> QED
  BY <1>1, <1>2, <1>3 DEF Next, Handled, InputEvent

\* A client holds a key that is up, or a touchscreen is dead, only after waking consumed an
\* event (process_input_event), for any layout that keeps bound keysyms apart.
THEOREM WakingAloneLoses == Spec => []OnlyWakingLoses
<1>1. Init => KeysInv /\ ScreenInv
  BY DEF Init, KeysInv, ScreenInv
<1>2. TypeOK /\ KeysInv /\ ScreenInv => OnlyWakingLoses
  BY DEF TypeOK, KeysInv, ScreenInv, OnlyWakingLoses
<1> QED
  BY <1>1, <1>2, KeysStep, ScreenStep, InputTypeCorrect, PTL DEF Spec

-----------------------------------------------------------------------------
(* Inhibitors.                                                             *)

LEMMA AwakeStep == AwakeInv /\ [Next]_vars => AwakeInv'
<1> SUFFICES ASSUME AwakeInv, [Next]_vars PROVE AwakeInv'
  OBVIOUS
<1>1. ASSUME InputEvent PROVE AwakeInv'
  <2>1. UNCHANGED <<inhibiting, alive, inhibited>>
    BY <1>1 DEF InputEvent, KeyDown, KeyUp, ScreenAdded, ScreenRemoved, OtherInput
  <2>2. idle' = idle \/ idle' = FALSE
    BY <1>1 DEF InputEvent, KeyDown, KeyUp, ScreenAdded, ScreenRemoved, OtherInput, Wake, Active
  <2> QED
    BY <2>1, <2>2 DEF AwakeInv
<1>2. ASSUME Blanked \/ UNCHANGED vars PROVE AwakeInv'
  BY <1>2 DEF Blanked, vars, idling, AwakeInv
<1>3. ASSUME NEW s \in Surfaces, Inhibit(s) \/ Uninhibit(s) PROVE AwakeInv'
  BY <1>3 DEF Inhibit, Uninhibit, UpdateIdleInhibit, SetIsInhibited, AwakeInv
<1>4. ASSUME NEW s \in Surfaces, SurfaceMade(s) \/ SurfaceDied(s) PROVE AwakeInv'
  BY <1>4 DEF SurfaceMade, SurfaceDied, AwakeInv
<1>5. ASSUME IdleTimeout PROVE AwakeInv'
  BY <1>5 DEF IdleTimeout, AwakeInv
<1>6. ASSUME EndTurn PROVE AwakeInv'
  BY <1>6 DEF EndTurn, UpdateIdleInhibit, SetIsInhibited, AwakeInv
<1> QED
  BY <1>1, <1>2, <1>3, <1>4, <1>5, <1>6 DEF Next, Handled

\* No client is told the user is idle while a living surface inhibits that
\* (handlers/idle.rs, update_idle_inhibit), for any surfaces.
THEOREM InhibitorsHold == Spec => []InhibitorKeepsAwake
<1>1. Init => AwakeInv
  BY DEF Init, AwakeInv
<1>2. AwakeInv => InhibitorKeepsAwake
  BY DEF AwakeInv, InhibitorKeepsAwake
<1> QED
  BY <1>1, <1>2, AwakeStep, PTL DEF Spec
=============================================================================
