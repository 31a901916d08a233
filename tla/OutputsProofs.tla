---------------------------- MODULE OutputsProofs ----------------------------
(***************************************************************************)
(* What clients are told of the power of outputs, and that blanked outputs *)
(* stay dark, for any cards, connectors, displays and handles.  Both rest  *)
(* on CrtcsApart: the CRTC that a stale handle or bit names may drive      *)
(* another output by then, but never two of them.                          *)
(* And where outputs are placed: the sums of widths that the places are,   *)
(* and that outputs which tile do so after another came.                   *)
(***************************************************************************)
EXTENDS Outputs, FiniteSetTheorems, WellFoundedInduction, TLAPS

\* The part of TypeOK that the power of outputs needs.
PowerTypes ==
  /\ space \subseteq Displays
  /\ crtc \in [Displays -> Crtcs \cup {None}]
  /\ off \subseteq Displays
  /\ handles \in [Handles -> HandleStates]

\* Each output of the Space has a CRTC of its own, whose connector is known as connected.
CrtcsApart ==
  \A o \in space : /\ crtc[o] \in seen
                   /\ \A p \in space : crtc[p] = crtc[o] => p = o

-----------------------------------------------------------------------------
(* The operators on handles.                                               *)

LEMMA TellIs ==
  ASSUME NEW hs \in [Handles -> HandleStates], NEW S, NEW what \in {"on", "off", "failed"}
  PROVE  /\ Tell(hs, S, what) \in [Handles -> HandleStates]
         /\ \A h \in Handles :
              /\ Tell(hs, S, what)[h].of = hs[h].of
              /\ Tell(hs, S, what)[h].listed = hs[h].listed
              /\ Tell(hs, S, what)[h].told =
                   IF hs[h].listed /\ hs[h].of \in S THEN what ELSE hs[h].told
<1>1. ASSUME NEW s \in HandleStates
      PROVE  LET t == [s EXCEPT !.told = what]
             IN  t \in HandleStates /\ t.of = s.of /\ t.listed = s.listed /\ t.told = what
  BY DEF HandleStates
<1>2. \A h \in Handles : hs[h] \in HandleStates
  OBVIOUS
<1>3. \A h \in Handles : Tell(hs, S, what)[h] \in HandleStates
  BY <1>1, <1>2 DEF Tell
<1>4. Tell(hs, S, what) \in [Handles -> HandleStates]
  BY <1>3 DEF Tell
<1>5. ASSUME NEW h \in Handles
      PROVE  /\ Tell(hs, S, what)[h].of = hs[h].of
             /\ Tell(hs, S, what)[h].listed = hs[h].listed
             /\ Tell(hs, S, what)[h].told =
                  IF hs[h].listed /\ hs[h].of \in S THEN what ELSE hs[h].told
  BY <1>1, <1>2 DEF Tell
<1> QED
  BY <1>4, <1>5

LEMMA OutputRemovedIs ==
  ASSUME handles \in [Handles -> HandleStates], NEW S, OutputRemoved(S)
  PROVE  /\ handles' \in [Handles -> HandleStates]
         /\ off' = off \ S
         /\ \A h \in Handles :
              IF handles[h].of \in S /\ handles[h].listed
              THEN handles'[h].told = "failed"
              ELSE handles'[h] = handles[h]
<1>1. \A s \in HandleStates :
        [s EXCEPT !.listed = FALSE, !.told = "failed"] \in HandleStates
        /\ [s EXCEPT !.listed = FALSE, !.told = "failed"].told = "failed"
  BY DEF HandleStates
<1>2. \A h \in Handles : handles[h] \in HandleStates
  OBVIOUS
<1> QED
  BY <1>1, <1>2 DEF OutputRemoved

LEMMA TurnOnIs ==
  ASSUME handles \in [Handles -> HandleStates], NEW S, TurnOn(S)
  PROVE  LET ready == {o \in S : HasSurface(crtc[o])}
         IN  /\ handles' \in [Handles -> HandleStates]
             /\ off' = off \ ready
             /\ \A h \in Handles :
                  /\ handles'[h].of = handles[h].of
                  /\ handles'[h].listed = handles[h].listed
                  /\ handles'[h].told =
                       IF handles[h].listed /\ handles[h].of \in S
                       THEN IF handles[h].of \in ready THEN "on" ELSE "failed"
                       ELSE handles[h].told
<1> DEFINE ready == {o \in S : HasSurface(crtc[o])}
           first == Tell(handles, ready, "on")
<1>1. handles' = Tell(first, S \ ready, "failed") /\ off' = off \ ready
  BY DEF TurnOn
<1>2. ready \subseteq S
  OBVIOUS
<1> HIDE DEF ready
<1>3. first \in [Handles -> HandleStates]
      /\ \A h \in Handles :
           /\ first[h].of = handles[h].of
           /\ first[h].listed = handles[h].listed
           /\ first[h].told = IF handles[h].listed /\ handles[h].of \in ready THEN "on"
                              ELSE handles[h].told
  BY TellIs
<1> HIDE DEF first
<1>4. handles' \in [Handles -> HandleStates]
      /\ \A h \in Handles :
           /\ handles'[h].of = first[h].of
           /\ handles'[h].listed = first[h].listed
           /\ handles'[h].told = IF first[h].listed /\ first[h].of \in S \ ready THEN "failed"
                                 ELSE first[h].told
  BY <1>1, <1>3, TellIs
<1> QED
  BY <1>1, <1>2, <1>3, <1>4 DEF ready

\* A handle that was made.
LEMMA NewHandleType ==
  ASSUME NEW o \in Displays
  PROVE  /\ NoHandle \in HandleStates
         /\ [NoHandle EXCEPT !.told = "failed"] \in HandleStates
         /\ [of |-> o, listed |-> TRUE, told |-> IF o \in off THEN "off" ELSE "on"]
              \in HandleStates
BY DEF NoHandle, HandleStates

LEMMA NoHandleType ==
  /\ NoHandle \in HandleStates /\ NoHandle.told = "none"
  /\ [NoHandle EXCEPT !.told = "failed"] \in HandleStates
  /\ [NoHandle EXCEPT !.told = "failed"].told = "failed"
BY DEF NoHandle, HandleStates

-----------------------------------------------------------------------------
(* Types, CRTCs, and what handles were told.                               *)

PowerInv == PowerTypes /\ CrtcsApart /\ ToldIsMode /\ BlankedIsDark

\* Unplugging connectors, or a card with them.
LEMMA DisconnectedInv ==
  ASSUME PowerInv, NEW C, Disconnected(C)
  PROVE  PowerInv'
<1> DEFINE gone == {o \in space : crtc[o] \in C}
<1>1. /\ space' = space \ gone /\ crtc' = crtc /\ seen' = seen \ C
      /\ lit' \subseteq lit /\ OutputRemoved(gone)
  BY DEF Disconnected
<1>2. /\ handles' \in [Handles -> HandleStates]
      /\ off' = off \ gone
      /\ \A h \in Handles :
           IF handles[h].of \in gone /\ handles[h].listed
           THEN handles'[h].told = "failed"
           ELSE handles'[h] = handles[h]
  <2> HIDE DEF gone
  <2> QED
    BY <1>1, OutputRemovedIs DEF PowerInv, PowerTypes
<1>3. PowerTypes'
  BY <1>1, <1>2 DEF PowerInv, PowerTypes
<1>4. CrtcsApart'
  BY <1>1 DEF PowerInv, CrtcsApart
<1>5. ToldIsMode'
  <2> HIDE DEF gone
  <2> QED
    BY <1>2 DEF PowerInv, ToldIsMode
<1>6. BlankedIsDark'
  BY <1>1, <1>2 DEF PowerInv, BlankedIsDark
<1> QED
  BY <1>3, <1>4, <1>5, <1>6 DEF PowerInv

LEMMA ConnectedInv ==
  ASSUME PowerInv, NEW c \in Crtcs, NEW p \in Panels, ConnectorConnected(c, p)
  PROVE  PowerInv'
<1>1. PICK o \in Displays :
        /\ Free(o) /\ space' = space \cup {o} /\ crtc' = [crtc EXCEPT ![o] = c]
  BY DEF ConnectorConnected
<1>2. c \notin seen /\ seen' = seen \cup {c} /\ UNCHANGED <<off, handles, lit>>
  BY DEF ConnectorConnected
<1>3. o \notin space /\ o \notin off
  BY <1>1 DEF Free
<1>4. crtc'[o] = c /\ \A q \in space : crtc'[q] = crtc[q]
  BY <1>1, <1>3 DEF PowerInv, PowerTypes
<1>5. PowerTypes'
  BY <1>1, <1>2 DEF PowerInv, PowerTypes
<1>6. CrtcsApart'
  BY <1>1, <1>2, <1>4 DEF PowerInv, CrtcsApart
<1>7. ToldIsMode'
  BY <1>2 DEF PowerInv, ToldIsMode
<1>8. BlankedIsDark'
  BY <1>1, <1>2, <1>3, <1>4 DEF PowerInv, BlankedIsDark
<1> QED
  BY <1>5, <1>6, <1>7, <1>8 DEF PowerInv

LEMMA GetOutputPowerInv ==
  ASSUME PowerInv, NEW h \in Handles, NEW o \in Displays \cup {None}, GetOutputPower(h, o)
  PROVE  PowerInv'
<1>1. UNCHANGED <<seen, space, crtc, off, lit>>
  BY DEF GetOutputPower
<1> DEFINE new == IF o = None THEN [NoHandle EXCEPT !.told = "failed"]
                  ELSE [of |-> o, listed |-> TRUE, told |-> IF o \in off THEN "off" ELSE "on"]
<1>2. handles' = [handles EXCEPT ![h] = new]
  BY DEF GetOutputPower
<1>3. new \in HandleStates
  <2>1. CASE o = None
    BY <2>1, NoHandleType
  <2>2. CASE o # None
    BY <2>2, NewHandleType
  <2> QED
    BY <2>1, <2>2
<1>4. new.told \in {"on", "off"} => new.listed /\ (new.told = "off" <=> new.of \in off)
  <2>1. CASE o = None
    BY <2>1, NoHandleType
  <2>2. CASE o # None
    BY <2>2
  <2> QED
    BY <2>1, <2>2
<1> HIDE DEF new
<1>5. handles'[h] = new /\ \A k \in Handles \ {h} : handles'[k] = handles[k]
  BY <1>2 DEF PowerInv, PowerTypes
<1>6. ToldIsMode'
  BY <1>1, <1>4, <1>5 DEF PowerInv, ToldIsMode
<1> QED
  BY <1>1, <1>2, <1>3, <1>6 DEF PowerInv, PowerTypes, CrtcsApart, BlankedIsDark

LEMMA HandleDestroyedInv ==
  ASSUME PowerInv, NEW h \in Handles, HandleDestroyed(h)
  PROVE  PowerInv'
<1>1. UNCHANGED <<seen, space, crtc, off, lit>> /\ handles' = [handles EXCEPT ![h] = NoHandle]
  BY DEF HandleDestroyed
<1>2. handles'[h] = NoHandle /\ \A k \in Handles \ {h} : handles'[k] = handles[k]
  BY <1>1 DEF PowerInv, PowerTypes
<1>3. handles' \in [Handles -> HandleStates]
  BY <1>1, NoHandleType DEF PowerInv, PowerTypes
<1>4. ToldIsMode'
  BY <1>1, <1>2, NoHandleType DEF PowerInv, ToldIsMode
<1> QED
  BY <1>1, <1>3, <1>4 DEF PowerInv, PowerTypes, CrtcsApart, BlankedIsDark

LEMMA PowerOffInv ==
  ASSUME PowerInv, NEW h \in Handles, NEW refused \in BOOLEAN, PowerOff(h, refused)
  PROVE  PowerInv'
<1> DEFINE o == handles[h].of
<1>1. UNCHANGED <<seen, space, crtc>> /\ o # None
  BY DEF PowerOff
<1>2. o \in Displays
  BY <1>1 DEF PowerInv, PowerTypes, HandleStates
<1>3. \/ off' = off \cup {o} /\ lit' = lit \ {crtc[o]} /\ handles' = Tell(handles, {o}, "off")
      \/ UNCHANGED <<off, lit>> /\ handles' = Tell(handles, {o}, "failed")
  BY DEF PowerOff
<1> HIDE DEF o
<1>4. handles \in [Handles -> HandleStates]
  BY DEF PowerInv, PowerTypes
<1>5. PowerTypes'
  BY <1>1, <1>2, <1>3, <1>4, TellIs DEF PowerInv, PowerTypes
<1>6. ToldIsMode'
  <2> SUFFICES ASSUME NEW k \in Handles, handles'[k].told \in {"on", "off"}
               PROVE  handles'[k].listed /\ (handles'[k].told = "off" <=> handles'[k].of \in off')
    BY DEF ToldIsMode
  <2>1. handles[k].told \in {"on", "off"} =>
          handles[k].listed /\ (handles[k].told = "off" <=> handles[k].of \in off)
    BY DEF PowerInv, ToldIsMode
  <2>2. CASE off' = off \cup {o} /\ handles' = Tell(handles, {o}, "off")
    <3>1. /\ handles'[k].of = handles[k].of /\ handles'[k].listed = handles[k].listed
          /\ handles'[k].told = IF handles[k].listed /\ handles[k].of \in {o} THEN "off"
                                ELSE handles[k].told
      BY <1>4, <2>2, TellIs
    <3> QED
      BY <2>1, <2>2, <3>1
  <2>3. CASE off' = off /\ handles' = Tell(handles, {o}, "failed")
    <3>1. /\ handles'[k].of = handles[k].of /\ handles'[k].listed = handles[k].listed
          /\ handles'[k].told = IF handles[k].listed /\ handles[k].of \in {o} THEN "failed"
                                ELSE handles[k].told
      BY <1>4, <2>3, TellIs
    <3> QED
      BY <2>1, <2>3, <3>1
  <2> QED
    BY <1>3, <2>2, <2>3
<1>7. BlankedIsDark'
  BY <1>1, <1>3 DEF PowerInv, BlankedIsDark
<1> QED
  BY <1>1, <1>5, <1>6, <1>7 DEF PowerInv, CrtcsApart

LEMMA TurnOnInv ==
  ASSUME PowerInv, NEW S, TurnOn(S), UNCHANGED <<seen, space, crtc, lit>>
  PROVE  PowerInv'
<1> DEFINE ready == {o \in S : HasSurface(crtc[o])}
<1>1. /\ handles' \in [Handles -> HandleStates]
      /\ off' = off \ ready
      /\ \A h \in Handles :
           /\ handles'[h].of = handles[h].of
           /\ handles'[h].listed = handles[h].listed
           /\ handles'[h].told =
                IF handles[h].listed /\ handles[h].of \in S
                THEN IF handles[h].of \in ready THEN "on" ELSE "failed"
                ELSE handles[h].told
  BY TurnOnIs DEF PowerInv, PowerTypes
<1>2. ready \subseteq S
  OBVIOUS
<1> HIDE DEF ready
<1>3. ToldIsMode'
  BY <1>1, <1>2 DEF PowerInv, ToldIsMode
<1> QED
  BY <1>1, <1>3 DEF PowerInv, PowerTypes, CrtcsApart, BlankedIsDark

LEMMA RenderInv ==
  ASSUME PowerInv, NEW c \in Crtcs, RenderSurface(c)
  PROVE  PowerInv'
<1>1. UNCHANGED <<seen, space, crtc, off, handles>>
      /\ lit' \in {lit, lit \cup {c}} /\ (~Renders(c) => lit' = lit)
  BY DEF RenderSurface
<1>2. BlankedIsDark'
  <2> SUFFICES ASSUME NEW o \in off \cap space, crtc[o] = c, Renders(c) PROVE FALSE
    BY <1>1 DEF PowerInv, BlankedIsDark
  <2>1. PICK p \in space \ off : crtc[p] = c
    BY DEF Renders
  <2> QED
    BY <2>1 DEF PowerInv, CrtcsApart
<1> QED
  BY <1>1, <1>2 DEF PowerInv, PowerTypes, CrtcsApart, ToldIsMode

LEMMA PowerStep ==
  ASSUME PowerInv, [Next]_vars
  PROVE  PowerInv'
<1>1. ASSUME UNCHANGED <<space, crtc, off, handles, lit>>, seen \subseteq seen' PROVE PowerInv'
  BY <1>1 DEF PowerInv, PowerTypes, CrtcsApart, ToldIsMode, BlankedIsDark
<1>2. ASSUME NEW g \in Cards, DeviceAdded(g) PROVE PowerInv'
  BY <1>1, <1>2 DEF DeviceAdded
<1>3. ASSUME NEW g \in Cards, DeviceRemoved(g) PROVE PowerInv'
  BY <1>3, DisconnectedInv DEF DeviceRemoved
<1>4. ASSUME NEW c \in Crtcs, ConnectorLost(c) PROVE PowerInv'
  BY <1>1, <1>4 DEF ConnectorLost
<1>5. ASSUME NEW c \in Crtcs, ConnectorDisconnected(c) PROVE PowerInv'
  BY <1>5, DisconnectedInv DEF ConnectorDisconnected
<1>6. ASSUME NEW h \in Handles, PowerOn(h) PROVE PowerInv'
  BY <1>6, TurnOnInv DEF PowerOn
<1>7. ASSUME InputConsumed PROVE PowerInv'
  BY <1>7, TurnOnInv DEF InputConsumed, WakeOutputs
<1>8. ASSUME ScheduleRender \/ UNCHANGED vars PROVE PowerInv'
  BY <1>1, <1>8 DEF ScheduleRender, vars
<1> QED
  BY <1>2, <1>3, <1>4, <1>5, <1>6, <1>7, <1>8, ConnectedInv, GetOutputPowerInv,
     HandleDestroyedInv, PowerOffInv, RenderInv DEF Next

LEMMA PowerInit == Init => PowerInv
BY NoHandleType
   DEF Init, PowerInv, PowerTypes, CrtcsApart, ToldIsMode, BlankedIsDark

LEMMA PowerInvariant == Spec => []PowerInv
BY PowerInit, PowerStep, PTL DEF Spec

-----------------------------------------------------------------------------
\* What clients were told of an output's power stays true until they are told otherwise.
THEOREM ClientsKnowTheMode == Spec => []ToldIsMode
BY PowerInvariant, PTL DEF PowerInv

\* A blanked output stays dark, whichever outputs and handles share its CRTC over time.
THEOREM BlankedStaysDark == Spec => []BlankedIsDark
BY PowerInvariant, PTL DEF PowerInv

LEMMA WakingStep ==
  ASSUME PowerInv, InputConsumed
  PROVE  WokenByInput
<1> DEFINE ready == {o \in off : HasSurface(crtc[o])}
<1>1. /\ TurnOn(off) /\ UNCHANGED space
      /\ redraw' = redraw \cup {crtc[o] : o \in ready}
      /\ damaged' = damaged \cup {crtc[o] : o \in ready}
  BY DEF InputConsumed, WakeOutputs, TurnOn
<1>2. /\ off' = off \ ready
      /\ \A h \in Handles : handles[h].listed /\ handles[h].of \in ready =>
           handles'[h].told = "on"
  BY <1>1, TurnOnIs DEF PowerInv, PowerTypes
<1>3. off \cap space \subseteq ready
  BY DEF HasSurface
<1> QED
  BY <1>1, <1>2, <1>3 DEF WokenByInput

\* An input event that is consumed wakes every output that has a panel, and their clients.
THEOREM WakingIsComplete == Spec => WakingWakesAllPanels
<1>1. PowerInv /\ [Next]_vars => [InputConsumed => WokenByInput]_vars
  BY WakingStep
<1> QED
  BY <1>1, PowerInvariant, PTL DEF Spec, WakingWakesAllPanels

-----------------------------------------------------------------------------
(* Why an output that is on can be dark.                                   *)

\* Blanking an output takes the frame from whichever output is on its CRTC, whose bit is
\* set by then.
LEMMA PowerOffWakeable ==
  ASSUME PowerInv, DarkIsWakeable, NEW h \in Handles, NEW refused \in BOOLEAN,
         PowerOff(h, refused)
  PROVE  DarkIsWakeable'
<1> DEFINE o == handles[h].of
<1>1. UNCHANGED <<space, crtc, damaged>>
  BY DEF PowerOff
<1>2. \/ off' = off \cup {o} /\ lit' = lit \ {crtc[o]}
      \/ UNCHANGED <<off, lit>>
  BY DEF PowerOff
<1> HIDE DEF o
<1> QED
  BY <1>1, <1>2 DEF DarkIsWakeable

\* Waking an output leaves damage on its CRTC; the bits that stay have no output there.
LEMMA TurnOnWakeable ==
  ASSUME PowerInv, DarkIsWakeable, NEW S, TurnOn(S), UNCHANGED <<space, crtc, lit>>
  PROVE  DarkIsWakeable'
<1> DEFINE ready == {o \in S : HasSurface(crtc[o])}
<1>1. off' = off \ ready /\ damaged' = damaged \cup {crtc[o] : o \in ready}
  BY DEF TurnOn
<1> HIDE DEF ready
<1> SUFFICES ASSUME NEW q \in space \ off', crtc[q] \notin lit
             PROVE  crtc[q] \in damaged' \/ \E p \in off' : crtc[p] = crtc[q]
  BY DEF DarkIsWakeable
<1>2. CASE q \in off
  BY <1>1, <1>2
<1>3. CASE q \notin off
  <2>1. crtc[q] \in damaged \/ \E p \in off : crtc[p] = crtc[q]
    BY <1>3 DEF DarkIsWakeable
  <2>2. ASSUME NEW p \in off, p \notin off', crtc[p] = crtc[q]
        PROVE  crtc[q] \in damaged'
    BY <1>1, <2>2
  <2> QED
    BY <1>1, <2>1, <2>2
<1> QED
  BY <1>2, <1>3

\* The damage of a render goes to the panel, when there is an output to render for; the
\* outputs that left take theirs with them.
LEMMA OtherWakeable ==
  ASSUME PowerInv, PowerInv', DarkIsWakeable
  PROVE  /\ \A c \in Crtcs : RenderSurface(c) => DarkIsWakeable'
         /\ \A c \in Crtcs, p \in Panels : ConnectorConnected(c, p) => DarkIsWakeable'
         /\ \A C : Disconnected(C) => DarkIsWakeable'
<1>1. ASSUME NEW c \in Crtcs, RenderSurface(c) PROVE DarkIsWakeable'
  BY <1>1 DEF RenderSurface, DarkIsWakeable
<1>2. ASSUME NEW c \in Crtcs, NEW p \in Panels, ConnectorConnected(c, p)
      PROVE  DarkIsWakeable'
  <2>1. PICK o \in Displays :
           Free(o) /\ space' = space \cup {o} /\ crtc' = [crtc EXCEPT ![o] = c]
    BY <1>2 DEF ConnectorConnected
  <2>2. damaged' = damaged \cup {c} /\ UNCHANGED <<off, lit>>
    BY <1>2 DEF ConnectorConnected
  <2>3. o \notin space \cup off
    BY <2>1 DEF Free
  <2>4. crtc'[o] = c /\ \A q \in space \cup off : crtc'[q] = crtc[q]
    BY <2>1, <2>3 DEF PowerInv, PowerTypes
  <2> QED
    BY <2>1, <2>2, <2>3, <2>4 DEF DarkIsWakeable
<1>3. ASSUME NEW C, Disconnected(C) PROVE DarkIsWakeable'
  <2> DEFINE gone == {o \in space : crtc[o] \in C}
  <2>1. /\ space' = space \ gone /\ off' = off \ gone /\ crtc' = crtc
        /\ lit' = lit \ {crtc[o] : o \in gone} /\ damaged' = damaged \ {crtc[o] : o \in gone}
    BY <1>3 DEF Disconnected, OutputRemoved
  <2> SUFFICES ASSUME NEW o \in space', o \notin off', crtc[o] \notin lit'
               PROVE  crtc[o] \in damaged' \/ \E p \in off' : crtc[p] = crtc[o]
    BY <2>1 DEF DarkIsWakeable
  <2>2. o \in space /\ o \notin gone /\ o \notin off /\ gone \subseteq space
    BY <2>1
  <2>3. \A q \in gone : crtc[q] # crtc[o]
    BY <2>2 DEF PowerInv, CrtcsApart
  <2> HIDE DEF gone
  <2>4. crtc[o] \notin lit
    BY <2>1, <2>3
  <2> QED
    BY <2>1, <2>2, <2>3, <2>4 DEF DarkIsWakeable
<1> QED
  BY <1>1, <1>2, <1>3

\* An output that is on is dark only while its next render or the next input event
\* lights it, whatever handles and bits outputs that left have on its CRTC.
THEOREM DarkOutputsWake == Spec => []DarkIsWakeable
<1>1. Init => DarkIsWakeable
  BY DEF Init, DarkIsWakeable
<1>2. ASSUME PowerInv, PowerInv', DarkIsWakeable, [Next]_vars PROVE DarkIsWakeable'
  <2>1. ASSUME UNCHANGED <<space, crtc, off, lit>>, damaged \subseteq damaged'
        PROVE  DarkIsWakeable'
    BY <1>2, <2>1 DEF DarkIsWakeable
  <2>2. ASSUME NEW g \in Cards, DeviceAdded(g) \/ DeviceRemoved(g) PROVE DarkIsWakeable'
    BY <1>2, <2>1, <2>2, OtherWakeable DEF DeviceAdded, DeviceRemoved
  <2>3. ASSUME NEW c \in Crtcs, ConnectorLost(c) \/ ConnectorDisconnected(c)
        PROVE  DarkIsWakeable'
    BY <1>2, <2>1, <2>3, OtherWakeable DEF ConnectorLost, ConnectorDisconnected
  <2>4. ASSUME NEW h \in Handles, HandleDestroyed(h) \/ PowerOn(h) PROVE DarkIsWakeable'
    BY <1>2, <2>1, <2>4, TurnOnWakeable DEF HandleDestroyed, PowerOn
  <2>5. ASSUME NEW h \in Handles, NEW o \in Displays \cup {None}, GetOutputPower(h, o)
        PROVE  DarkIsWakeable'
    BY <2>1, <2>5 DEF GetOutputPower
  <2>6. ASSUME InputConsumed PROVE DarkIsWakeable'
    BY <1>2, <2>6, TurnOnWakeable DEF InputConsumed, WakeOutputs
  <2>7. ASSUME ScheduleRender \/ UNCHANGED vars PROVE DarkIsWakeable'
    BY <2>1, <2>7 DEF ScheduleRender, vars
  <2> QED
    BY <1>2, <2>2, <2>3, <2>4, <2>5, <2>6, <2>7, OtherWakeable, PowerOffWakeable DEF Next
<1> QED
  BY <1>1, <1>2, PowerInvariant, PTL DEF Spec

-----------------------------------------------------------------------------
(* The sum of widths, which MapThenSumSet computes by taking one output     *)
(* after the other, in any order.                                          *)

Widths(at, S) == MapThenSumSet(LAMBDA o : at[o].w, S)

\* The output that is taken first.
First(S) == CHOOSE o \in S : TRUE

\* sum[T] is the width of the outputs in T, for the subsets of S with up to n outputs,
\* and for all of them.
SumsUpTo(at, S, n, sum) ==
  sum = [T \in {R \in SUBSET S : Cardinality(R) <= n} |->
           IF T = {} THEN 0 ELSE at[First(T)].w + sum[T \ {First(T)}]]
Sums(at, S, sum) ==
  sum = [T \in SUBSET S |-> IF T = {} THEN 0 ELSE at[First(T)].w + sum[T \ {First(T)}]]

\* A set of numbers has a least one.
LEMMA NatMin ==
  ASSUME NEW T \in SUBSET Nat, T # {}
  PROVE  \E x \in T : \A y \in T : x <= y
<1> DEFINE R == OpToRel(<, Nat)
<1>1. IsWellFoundedOn(R, Nat)
  BY NatLessThanWellFounded
<1>2. PICK x \in T : \A y \in T : ~(<<y, x>> \in R)
  <2> HIDE DEF R
  <2> QED BY <1>1, WFMin
<1>3. \A y \in T : ~(y < x)
  BY <1>2 DEF OpToRel
<1> QED
  BY <1>3

\* Of the subsets of a finite set that are counterexamples, one is smallest.
LEMMA SmallestSet ==
  ASSUME NEW S, IsFiniteSet(S), NEW F \in SUBSET (SUBSET S), F # {}
  PROVE  \E R \in F : \A o \in R : R \ {o} \notin F
<1> DEFINE T == {Cardinality(R) : R \in F}
<1>1. \A R \in F : IsFiniteSet(R) /\ Cardinality(R) \in Nat
  BY FS_Subset, FS_CardinalityType
<1>2. PICK n \in T : \A m \in T : n <= m
  <2>1. T \in SUBSET Nat /\ T # {}
    BY <1>1
  <2> HIDE DEF T
  <2> QED
    BY <2>1, NatMin
<1>3. PICK R \in F : Cardinality(R) = n
  OBVIOUS
<1>4. ASSUME NEW o \in R, R \ {o} \in F PROVE FALSE
  <2>1. Cardinality(R \ {o}) = n - 1 /\ n \in Nat
    BY <1>1, <1>3, FS_RemoveElement
  <2>2. n <= Cardinality(R \ {o})
    BY <1>2, <1>4
  <2> QED
    BY <2>1, <2>2
<1> QED
  BY <1>4

\* The first output of a set is one of them; the rest are fewer.
LEMMA FirstIs ==
  ASSUME NEW S, IsFiniteSet(S), S # {}
  PROVE  /\ First(S) \in S
         /\ IsFiniteSet(S \ {First(S)}) /\ Cardinality(S \ {First(S)}) = Cardinality(S) - 1
         /\ Cardinality(S) \in Nat
<1>1. First(S) \in S
  BY DEF First
<1> QED
  BY <1>1, FS_RemoveElement, FS_CardinalityType

\* The recursion of the sum defines a function.
LEMMA SumsExist ==
  ASSUME NEW at, NEW S, IsFiniteSet(S)
  PROVE  \E sum : Sums(at, S, sum)
<1> DEFINE B == {n \in Nat : ~\E sum : SumsUpTo(at, S, n, sum)}
<1>0. \A R \in SUBSET S : IsFiniteSet(R) /\ Cardinality(R) \in Nat /\ Cardinality(R) <= Cardinality(S)
  BY FS_Subset, FS_CardinalityType
<1>1. B = {}
  <2> SUFFICES ASSUME B # {} PROVE FALSE
    OBVIOUS
  <2>1. PICK n \in B : \A m \in B : n <= m
    <3>1. B \in SUBSET Nat
      OBVIOUS
    <3> HIDE DEF B
    <3> QED
      BY <3>1, NatMin
  <2>2. n \in Nat /\ ~\E sum : SumsUpTo(at, S, n, sum)
    OBVIOUS
  <2>3. CASE n = 0
    <3>1. \A R \in SUBSET S : Cardinality(R) <= 0 => R = {}
      BY <1>0, FS_EmptySet
    <3>2. SumsUpTo(at, S, 0, [T \in {R \in SUBSET S : Cardinality(R) <= 0} |-> 0])
      BY <3>1 DEF SumsUpTo
    <3> QED
      BY <2>2, <2>3, <3>2
  <2>4. CASE n # 0
    <3>1. n - 1 \in Nat /\ n - 1 \notin B
      BY <2>1, <2>2, <2>4
    <3>2. PICK old : SumsUpTo(at, S, n - 1, old)
      BY <3>1
    <3> DEFINE D == {R \in SUBSET S : Cardinality(R) <= n}
               O == {R \in SUBSET S : Cardinality(R) <= n - 1}
               new == [T \in D |-> IF T = {} THEN 0 ELSE at[First(T)].w + old[T \ {First(T)}]]
    <3>3. ASSUME NEW T \in D, T # {} PROVE T \ {First(T)} \in O /\ T \ {First(T)} \in D
      <4>1. T \in SUBSET S /\ IsFiniteSet(T) /\ Cardinality(T) <= n
        BY <1>0, <3>3
      <4>2. /\ First(T) \in T /\ Cardinality(T \ {First(T)}) = Cardinality(T) - 1
            /\ Cardinality(T) \in Nat
        BY <3>3, <4>1, FirstIs
      <4> QED
        BY <2>2, <4>1, <4>2
    <3>4. \A T \in O : old[T] = IF T = {} THEN 0 ELSE at[First(T)].w + old[T \ {First(T)}]
      BY <3>2 DEF SumsUpTo
    <3>5. O \subseteq D
      BY <1>0, <2>2
    <3> HIDE DEF D, O
    <3>6. \A T \in O : new[T] = old[T]
      BY <3>4, <3>5
    <3>7. new = [T \in D |-> IF T = {} THEN 0 ELSE at[First(T)].w + new[T \ {First(T)}]]
      <4>1. \A T \in D : new[T] = IF T = {} THEN 0 ELSE at[First(T)].w + new[T \ {First(T)}]
        BY <3>3, <3>6
      <4> QED
        BY <4>1
    <3> HIDE DEF new
    <3>8. SumsUpTo(at, S, n, new)
      BY <3>7 DEF SumsUpTo, D
    <3> QED
      BY <2>2, <3>8
  <2> QED
    BY <2>3, <2>4
<1>2. PICK sum : SumsUpTo(at, S, Cardinality(S), sum)
  BY <1>0, <1>1
<1>3. {R \in SUBSET S : Cardinality(R) <= Cardinality(S)} = SUBSET S
  BY <1>0
<1>4. Sums(at, S, sum)
  BY <1>2, <1>3 DEF SumsUpTo, Sums
<1> QED
  BY <1>4

\* Two such functions agree where both are defined.
LEMMA SumsUnique ==
  ASSUME NEW at, NEW S, NEW R \in SUBSET S, IsFiniteSet(S),
         NEW j, Sums(at, R, j), NEW k, Sums(at, S, k)
  PROVE  j[R] = k[R]
<1> DEFINE F == {T \in SUBSET R : j[T] # k[T]}
<1> SUFFICES ASSUME R \in F PROVE FALSE
  OBVIOUS
<1>1. IsFiniteSet(R)
  BY FS_Subset
<1>2. PICK T \in F : \A o \in T : T \ {o} \notin F
  <2>1. F \in SUBSET (SUBSET R) /\ F # {}
    OBVIOUS
  <2> HIDE DEF F
  <2> QED
    BY <1>1, <2>1, SmallestSet
<1>3. /\ T \in SUBSET R /\ j[T] # k[T] /\ T \in SUBSET S
  OBVIOUS
<1>4. /\ j[T] = IF T = {} THEN 0 ELSE at[First(T)].w + j[T \ {First(T)}]
      /\ k[T] = IF T = {} THEN 0 ELSE at[First(T)].w + k[T \ {First(T)}]
  BY <1>3 DEF Sums
<1>5. T # {}
  BY <1>3, <1>4
<1>6. First(T) \in T
  BY <1>5 DEF First
<1>7. j[T \ {First(T)}] = k[T \ {First(T)}]
  BY <1>2, <1>3, <1>6
<1> QED
  BY <1>3, <1>4, <1>7

\* MapThenSumSet picks such a function.
LEMMA WidthsDefined ==
  ASSUME NEW at, NEW S, NEW i, Sums(at, S, i)
  PROVE  \E j : Sums(at, S, j) /\ Widths(at, S) = j[S]
BY DEF Sums, Widths, First, MapThenSumSet, MapThenFoldSet

\* The width of a set is the value of any such function.
LEMMA WidthsSums ==
  ASSUME NEW at, NEW S, IsFiniteSet(S), NEW R \in SUBSET S, NEW k, Sums(at, S, k)
  PROVE  Widths(at, R) = k[R]
<1>1. IsFiniteSet(R)
  BY FS_Subset
<1>2. PICK i : Sums(at, R, i)
  BY <1>1, SumsExist
<1>3. \E j : Sums(at, R, j) /\ Widths(at, R) = j[R]
  BY <1>2, WidthsDefined
<1> QED
  BY <1>3, SumsUnique

\* The equation the other lemmas rest on.
LEMMA WidthsIs ==
  ASSUME NEW at, NEW S, IsFiniteSet(S)
  PROVE  /\ S = {} => Widths(at, S) = 0
         /\ S # {} => Widths(at, S) = at[First(S)].w + Widths(at, S \ {First(S)})
<1>1. PICK k : Sums(at, S, k)
  BY SumsExist
<1>2. k[S] = IF S = {} THEN 0 ELSE at[First(S)].w + k[S \ {First(S)}]
  BY <1>1 DEF Sums
<1>3. Widths(at, S) = k[S] /\ Widths(at, S \ {First(S)}) = k[S \ {First(S)}]
  BY <1>1, WidthsSums
<1> QED
  BY <1>2, <1>3

\* Only the widths of the outputs in the set count.
LEMMA WidthsSame ==
  ASSUME NEW S, IsFiniteSet(S), NEW at, NEW bt, \A o \in S : at[o].w = bt[o].w
  PROVE  Widths(at, S) = Widths(bt, S)
<1>1. PICK k : Sums(at, S, k)
  BY SumsExist
<1>2. Sums(bt, S, k)
  <2>1. \A T \in SUBSET S : T # {} => at[First(T)].w = bt[First(T)].w
    BY DEF First
  <2> QED
    BY <1>1, <2>1 DEF Sums
<1> QED
  BY <1>1, <1>2, WidthsSums

\* ... and the sum is a number.
LEMMA WidthsType ==
  ASSUME NEW S, IsFiniteSet(S), NEW at, \A o \in S : at[o].w \in Nat
  PROVE  Widths(at, S) \in Nat
<1> DEFINE F == {R \in SUBSET S : Widths(at, R) \notin Nat}
<1> SUFFICES ASSUME S \in F PROVE FALSE
  OBVIOUS
<1>1. PICK R \in F : \A o \in R : R \ {o} \notin F
  <2>1. F \in SUBSET (SUBSET S) /\ F # {}
    OBVIOUS
  <2> HIDE DEF F
  <2> QED
    BY <2>1, SmallestSet
<1>2. R \in SUBSET S /\ Widths(at, R) \notin Nat /\ IsFiniteSet(R)
  BY FS_Subset
<1>3. R # {}
  <2>1. R = {} => Widths(at, R) = 0
    BY <1>2, WidthsIs
  <2> QED
    BY <1>2, <2>1
<1>4. First(R) \in R
  BY <1>3 DEF First
<1>5. Widths(at, R \ {First(R)}) \in Nat
  BY <1>1, <1>2, <1>4
<1> QED
  BY <1>2, <1>3, <1>4, <1>5, WidthsIs

\* The order in which the outputs are taken does not matter.
LEMMA WidthsAdd ==
  ASSUME NEW S, IsFiniteSet(S), NEW at, NEW o, o \notin S,
         \A p \in S \cup {o} : at[p].w \in Nat
  PROVE  Widths(at, S \cup {o}) = Widths(at, S) + at[o].w
<1> DEFINE A == S \cup {o}
           F == {R \in SUBSET A : ~\A q \in A \ R : Widths(at, R \cup {q}) = Widths(at, R) + at[q].w}
<1> SUFFICES ASSUME S \in F PROVE FALSE
  OBVIOUS
<1>0. IsFiniteSet(A)
  BY FS_AddElement
<1>1. PICK R \in F : \A p \in R : R \ {p} \notin F
  <2>1. F \in SUBSET (SUBSET A) /\ F # {}
    OBVIOUS
  <2> HIDE DEF F, A
  <2> QED
    BY <1>0, <2>1, SmallestSet
<1>2. PICK q \in A \ R : Widths(at, R \cup {q}) # Widths(at, R) + at[q].w
  OBVIOUS
<1>3. R \in SUBSET A /\ \A p \in A : at[p].w \in Nat
  OBVIOUS
<1> DEFINE W(T) == Widths(at, T)
           c == First(R \cup {q})
<1>4. \A p \in R : \A r \in A \ (R \ {p}) : W((R \ {p}) \cup {r}) = W(R \ {p}) + at[r].w
  BY <1>1, <1>3
<1> HIDE DEF F, A
<1>5. \A T \in SUBSET A : IsFiniteSet(T) /\ W(T) \in Nat
  BY <1>0, <1>3, FS_Subset, WidthsType
<1>6. c \in R \cup {q} /\ W(R \cup {q}) = at[c].w + W((R \cup {q}) \ {c})
  <2>1. R \cup {q} # {} /\ IsFiniteSet(R \cup {q})
    BY <1>3, <1>5
  <2> QED
    BY <2>1, WidthsIs DEF First
<1> HIDE DEF c
<1>7. CASE c = q
  <2>1. (R \cup {q}) \ {c} = R
    BY <1>2, <1>7
  <2>2. W(R \cup {q}) = at[q].w + W(R)
    BY <1>6, <1>7, <2>1
  <2>3. at[q].w \in Nat /\ W(R) \in Nat
    BY <1>2, <1>3, <1>5
  <2> QED
    BY <1>2, <2>2, <2>3
<1>8. CASE c # q
  <2>1. c \in R /\ (R \cup {q}) \ {c} = (R \ {c}) \cup {q} /\ (R \ {c}) \cup {c} = R
    BY <1>6, <1>8
  <2>2. W((R \ {c}) \cup {q}) = W(R \ {c}) + at[q].w
    BY <1>2, <1>4, <2>1
  <2>3. W((R \ {c}) \cup {c}) = W(R \ {c}) + at[c].w
    BY <1>3, <1>4, <2>1
  <2>4. /\ W(R \cup {q}) = at[c].w + (W(R \ {c}) + at[q].w)
        /\ W(R) = W(R \ {c}) + at[c].w
    BY <1>6, <2>1, <2>2, <2>3
  <2>5. W(R \ {c}) \in Nat /\ at[c].w \in Nat /\ at[q].w \in Nat
    BY <1>2, <1>3, <1>5, <2>1
  <2> QED
    BY <1>2, <2>4, <2>5
<1> QED
  BY <1>7, <1>8

\* More outputs are at least as wide.
LEMMA WidthsMono ==
  ASSUME NEW S, IsFiniteSet(S), NEW at, \A o \in S : at[o].w \in Nat, NEW R \in SUBSET S
  PROVE  Widths(at, R) <= Widths(at, S)
<1> DEFINE W(T) == Widths(at, T)
           F == {T \in SUBSET S : ~\A U \in SUBSET T : W(U) <= W(T)}
<1> SUFFICES ASSUME S \in F PROVE FALSE
  OBVIOUS
<1>1. PICK T \in F : \A o \in T : T \ {o} \notin F
  <2>1. F \in SUBSET (SUBSET S) /\ F # {}
    OBVIOUS
  <2> HIDE DEF F
  <2> QED
    BY <2>1, SmallestSet
<1>2. PICK U \in SUBSET T : ~(W(U) <= W(T))
  OBVIOUS
<1>3. T \in SUBSET S /\ \A o \in T : \A V \in SUBSET (T \ {o}) : W(V) <= W(T \ {o})
  BY <1>1
<1> HIDE DEF F
<1>4. \A V \in SUBSET S : IsFiniteSet(V) /\ W(V) \in Nat
  BY FS_Subset, WidthsType
<1>5. ASSUME NEW V \in SUBSET S, NEW o \in V PROVE W(V) = W(V \ {o}) + at[o].w
  <2>1. (V \ {o}) \cup {o} = V /\ V \ {o} \in SUBSET S
    OBVIOUS
  <2>2. W((V \ {o}) \cup {o}) = W(V \ {o}) + at[o].w
    BY <1>4, <2>1, WidthsAdd
  <2> QED
    BY <2>1, <2>2
<1>6. U # T
  BY <1>2, <1>3, <1>4
<1>7. PICK o \in T : o \notin U
  BY <1>6
<1>8. W(U) <= W(T \ {o})
  BY <1>3, <1>7
<1>9. W(T) = W(T \ {o}) + at[o].w /\ W(T \ {o}) \in Nat /\ at[o].w \in Nat /\ W(U) \in Nat
  BY <1>3, <1>4, <1>5, <1>7
<1> QED
  BY <1>2, <1>8, <1>9

-----------------------------------------------------------------------------
(* Types, and where outputs lie.                                           *)

\* The part of TypeOK that power does not touch.  Each output came in a step of its own,
\* so they are finitely many, and each has a width.
LayoutTypes ==
  /\ cards \subseteq Cards
  /\ renderer \in cards \cup {None}
  /\ seen \subseteq Crtcs
  /\ redraw \subseteq Crtcs
  /\ damaged \subseteq Crtcs
  /\ lit \subseteq Crtcs
  /\ place \in [Displays -> [x : Nat, w : Nat]]
  /\ IsFiniteSet(space)
  /\ \A o \in space : place[o].w > 0

OutputsInv == PowerInv /\ LayoutTypes

\* guess_default_scale halves only modes that are wide enough to stay visible.
LEMMA LogicalWidthType ==
  ASSUME NEW p \in PanelType
  PROVE  LogicalWidth(p) \in Nat /\ LogicalWidth(p) > 0
<1>1. /\ p.mode[1] \in Nat /\ p.mode[1] > 0 /\ p.mm[1] \in Nat
  BY DEF PanelType
<1>2. CASE GuessDefaultScale(p) = 2
  <2>1. p.mm[1] # 0 /\ p.mode[1] * 254 > 192 * 10 * p.mm[1]
    BY <1>2 DEF GuessDefaultScale
  <2>2. p.mode[1] > 1
    BY <1>1, <2>1
  <2>3. \A n \in Nat : n > 1 => n \div 2 \in Nat /\ n \div 2 > 0
    OBVIOUS
  <2> QED
    BY <1>1, <1>2, <2>2, <2>3 DEF LogicalWidth
<1>3. CASE GuessDefaultScale(p) = 1
  <2>1. \A n \in Nat : n \div 1 = n
    OBVIOUS
  <2> QED
    BY <1>1, <1>3, <2>1 DEF LogicalWidth
<1> QED
  BY <1>2, <1>3 DEF GuessDefaultScale

\* The right edge of the outputs is their width.
LEMMA EdgeIsWidths ==
  ASSUME NEW S
  PROVE  RightEdge(S) = Widths(place, S)
BY DEF RightEdge, Widths

\* In a row without a gap each output begins where those before it end.
LEMMA TiledIs ==
  ASSUME NEW S, NEW at
  PROVE  Tiled(S, at) <=>
           \A o \in S : at[o].x = Widths(at, {p \in S : at[p].x < at[o].x})
BY DEF Tiled, Widths

\* The new output, where it is put, and that the others stay.
LEMMA ConnectedIs ==
  ASSUME OutputsInv, NEW c \in Crtcs, NEW p \in Panels, ConnectorConnected(c, p)
  PROVE  \E o \in Displays :
           /\ o \notin space /\ space' = space \cup {o}
           /\ place' \in [Displays -> [x : Nat, w : Nat]]
           /\ place'[o].x = Widths(place, space)
           /\ place'[o].w > 0
           /\ \A q \in Displays \ {o} : place'[q] = place[q]
<1>1. PICK o \in Displays :
        /\ Free(o) /\ space' = space \cup {o}
        /\ place' = [place EXCEPT ![o] = [x |-> RightEdge(space), w |-> LogicalWidth(p)]]
  BY DEF ConnectorConnected
<1>2. LogicalWidth(p) \in Nat /\ LogicalWidth(p) > 0
  BY PanelsAssumption, LogicalWidthType
<1>3. RightEdge(space) = Widths(place, space) /\ RightEdge(space) \in Nat
  <2>1. IsFiniteSet(space) /\ \A q \in space : place[q].w \in Nat
    BY DEF OutputsInv, LayoutTypes, PowerInv, PowerTypes
  <2>2. Widths(place, space) \in Nat
    BY <2>1, WidthsType
  <2> QED
    BY <2>2, EdgeIsWidths
<1>4. o \notin space
  BY <1>1 DEF Free
<1>5. place \in [Displays -> [x : Nat, w : Nat]]
  BY DEF OutputsInv, LayoutTypes
<1> DEFINE new == [x |-> RightEdge(space), w |-> LogicalWidth(p)]
<1>6. new \in [x : Nat, w : Nat] /\ new.x = Widths(place, space) /\ new.w > 0
  BY <1>2, <1>3
<1> HIDE DEF new
<1>7. place' = [place EXCEPT ![o] = new]
  BY <1>1 DEF new
<1> QED
  BY <1>1, <1>4, <1>5, <1>6, <1>7

\* A new output leaves a row without a gap as one: it lies right of all the others.
LEMMA AddedKeepsTiling ==
  ASSUME NEW S \in SUBSET Displays, IsFiniteSet(S), NEW o \in Displays, o \notin S,
         NEW at \in [Displays -> [x : Nat, w : Nat]], \A q \in S : at[q].w > 0,
         NEW bt \in [Displays -> [x : Nat, w : Nat]], \A q \in S : bt[q] = at[q],
         bt[o].x = Widths(at, S),
         Tiled(S, at)
  PROVE  Tiled(S \cup {o}, bt)
<1> DEFINE Before(q) == {p \in S : at[p].x < at[q].x}
<1>1. \A q \in Displays : at[q].x \in Nat /\ at[q].w \in Nat
  OBVIOUS
<1>2. \A q \in S : at[q].x = Widths(at, Before(q))
  BY TiledIs
<1>3. ASSUME NEW q \in S PROVE at[q].x < bt[o].x
  <2> DEFINE B == Before(q)
  <2>1. B \in SUBSET S /\ q \notin B /\ q \in Displays
    BY <1>1
  <2> HIDE DEF Before
  <2>2. IsFiniteSet(B) /\ B \cup {q} \in SUBSET S
    BY <2>1, FS_Subset
  <2>3. Widths(at, B \cup {q}) = Widths(at, B) + at[q].w
    BY <1>1, <2>1, <2>2, WidthsAdd
  <2>4. Widths(at, B \cup {q}) <= Widths(at, S)
    BY <1>1, <2>2, WidthsMono
  <2>5. Widths(at, S) \in Nat
    BY <1>1, WidthsType
  <2> QED
    BY <1>1, <1>2, <2>1, <2>3, <2>4, <2>5
<1>4. ASSUME NEW q \in S \cup {o}
      PROVE  bt[q].x = Widths(bt, {p \in S \cup {o} : bt[p].x < bt[q].x})
  <2>1. CASE q = o
    <3>1. \A p \in S : bt[p].x < bt[o].x
      BY <1>3
    <3>2. ~(bt[o].x < bt[o].x)
      OBVIOUS
    <3>3. {p \in S \cup {o} : bt[p].x < bt[q].x} = S
      BY <2>1, <3>1, <3>2
    <3>4. Widths(at, S) = Widths(bt, S)
      BY WidthsSame
    <3> QED
      BY <2>1, <3>3, <3>4
  <2>2. CASE q # o
    <3>1. q \in S /\ bt[q].x = at[q].x
      BY <1>4, <2>2
    <3>2. ~(bt[o].x < bt[q].x)
      BY <1>1, <1>3, <3>1
    <3>3. {p \in S \cup {o} : bt[p].x < bt[q].x} = Before(q)
      BY <3>1, <3>2
    <3>4. Before(q) \in SUBSET S /\ IsFiniteSet(Before(q))
      BY FS_Subset
    <3>5. \A p \in Before(q) : at[p].w = bt[p].w
      BY <3>4
    <3> HIDE DEF Before
    <3>6. Widths(at, Before(q)) = Widths(bt, Before(q))
      BY <3>4, <3>5, WidthsSame
    <3> QED
      BY <1>2, <3>1, <3>3, <3>6
  <2> QED
    BY <2>1, <2>2
<1> QED
  BY <1>4, TiledIs

\* Unplugging connectors, or a card with them.
LEMMA DisconnectedLayout ==
  ASSUME OutputsInv, NEW C, Disconnected(C)
  PROVE  /\ seen' \subseteq Crtcs /\ redraw' \subseteq Crtcs /\ lit' \subseteq Crtcs
         /\ damaged' \subseteq Crtcs
         /\ place' \in [Displays -> [x : Nat, w : Nat]]
         /\ IsFiniteSet(space') /\ \A o \in space' : place'[o].w > 0
<1> DEFINE gone == {o \in space : crtc[o] \in C}
<1>1. /\ space' = space \ gone /\ seen' = seen \ C /\ redraw' = redraw /\ lit' \subseteq lit
      /\ damaged' \subseteq damaged
      /\ place' = [o \in Displays |-> IF o \in gone THEN Nowhere ELSE place[o]]
  BY DEF Disconnected
<1> HIDE DEF gone
<1>2. Nowhere \in [x : Nat, w : Nat]
  BY DEF Nowhere
<1>3. /\ place \in [Displays -> [x : Nat, w : Nat]] /\ space \subseteq Displays
      /\ IsFiniteSet(space) /\ \A o \in space : place[o].w > 0
      /\ seen \subseteq Crtcs /\ redraw \subseteq Crtcs /\ lit \subseteq Crtcs
      /\ damaged \subseteq Crtcs
  BY DEF OutputsInv, LayoutTypes, PowerInv, PowerTypes
<1>4. place' \in [Displays -> [x : Nat, w : Nat]] /\ \A o \in space' : place'[o].w > 0
  BY <1>1, <1>2, <1>3
<1>5. IsFiniteSet(space')
  BY <1>1, <1>3, FS_Subset
<1> QED
  BY <1>1, <1>3, <1>4, <1>5

\* Every handler keeps types, widths and the finite number of outputs.
LEMMA OutputsStep ==
  ASSUME OutputsInv, [Next]_vars
  PROVE  OutputsInv'
<1>1. PowerInv /\ PowerInv' /\ LayoutTypes
  BY PowerStep DEF OutputsInv
<1>2. \A o \in Displays : HasSurface(crtc[o]) => crtc[o] \in Crtcs
  BY <1>1 DEF HasSurface, PowerInv, CrtcsApart, LayoutTypes
<1>3. \A o \in space : crtc[o] \in Crtcs
  BY <1>1 DEF PowerInv, CrtcsApart, LayoutTypes
<1>4. ASSUME UNCHANGED <<cards, renderer, space, place>>,
             seen' \subseteq Crtcs, redraw' \subseteq Crtcs, lit' \subseteq Crtcs,
             damaged' \subseteq Crtcs
      PROVE  LayoutTypes'
  BY <1>1, <1>4 DEF LayoutTypes
<1>5. ASSUME NEW S \in SUBSET off, TurnOn(S), UNCHANGED <<cards, renderer, seen, space, place, crtc, lit>>
      PROVE  LayoutTypes'
  <2>1. redraw' \subseteq Crtcs /\ damaged' \subseteq Crtcs
    BY <1>1, <1>2, <1>5 DEF TurnOn, PowerInv, PowerTypes, LayoutTypes
  <2> QED
    BY <1>1, <1>4, <1>5, <2>1 DEF LayoutTypes
<1>6. ASSUME NEW g \in Cards, DeviceAdded(g) PROVE LayoutTypes'
  BY <1>1, <1>6 DEF DeviceAdded, LayoutTypes
<1>7. ASSUME NEW g \in Cards, DeviceRemoved(g) PROVE LayoutTypes'
  BY <1>1, <1>7, DisconnectedLayout DEF DeviceRemoved, OutputsInv, LayoutTypes
<1>8. ASSUME NEW c \in Crtcs, NEW p \in Panels, ConnectorConnected(c, p) PROVE LayoutTypes'
  <2>1. PICK o \in Displays :
           /\ o \notin space /\ space' = space \cup {o}
           /\ place' \in [Displays -> [x : Nat, w : Nat]]
           /\ place'[o].w > 0
           /\ \A q \in Displays \ {o} : place'[q] = place[q]
    BY <1>8, ConnectedIs
  <2>2. IsFiniteSet(space')
    BY <1>1, <2>1, FS_AddElement DEF LayoutTypes
  <2>3. \A q \in space' : place'[q].w > 0
    BY <1>1, <2>1 DEF LayoutTypes, PowerInv, PowerTypes
  <2>4. seen' = seen \cup {c} /\ redraw' = redraw \cup {c} /\ damaged' = damaged \cup {c}
        /\ UNCHANGED <<cards, renderer, lit>>
    BY <1>8 DEF ConnectorConnected
  <2> QED
    BY <1>1, <2>1, <2>2, <2>3, <2>4 DEF LayoutTypes
<1>9. ASSUME NEW c \in Crtcs, ConnectorLost(c) PROVE LayoutTypes'
  BY <1>1, <1>9 DEF ConnectorLost, LayoutTypes
<1>10. ASSUME NEW c \in Crtcs, ConnectorDisconnected(c) PROVE LayoutTypes'
  BY <1>1, <1>10, DisconnectedLayout DEF ConnectorDisconnected, OutputsInv, LayoutTypes
<1>11. ASSUME NEW c \in Crtcs, RenderSurface(c) PROVE LayoutTypes'
  BY <1>1, <1>11 DEF RenderSurface, LayoutTypes
<1>12. ASSUME NEW h \in Handles, NEW o \in Displays \cup {None}, GetOutputPower(h, o)
       PROVE  LayoutTypes'
  BY <1>1, <1>4, <1>12 DEF GetOutputPower, LayoutTypes
<1>13. ASSUME NEW h \in Handles, NEW refused \in BOOLEAN, PowerOff(h, refused)
       PROVE  LayoutTypes'
  <2>1. lit' \subseteq lit /\ redraw' \subseteq redraw /\ damaged' = damaged
    BY <1>13 DEF PowerOff
  <2> QED
    BY <1>1, <1>13, <2>1 DEF PowerOff, LayoutTypes
<1>14. ASSUME NEW h \in Handles, PowerOn(h) PROVE LayoutTypes'
  BY <1>5, <1>14 DEF PowerOn
<1>15. ASSUME NEW h \in Handles, HandleDestroyed(h) PROVE LayoutTypes'
  BY <1>1, <1>15 DEF HandleDestroyed, LayoutTypes
<1>16. ASSUME InputConsumed PROVE LayoutTypes'
  BY <1>5, <1>16 DEF InputConsumed, WakeOutputs
<1>17. ASSUME ScheduleRender PROVE LayoutTypes'
  BY <1>1, <1>3, <1>17 DEF ScheduleRender, LayoutTypes
<1>18. ASSUME UNCHANGED vars PROVE LayoutTypes'
  BY <1>1, <1>18 DEF vars, LayoutTypes
<1>19. LayoutTypes'
  BY <1>6, <1>7, <1>8, <1>9, <1>10, <1>11, <1>12, <1>13, <1>14, <1>15, <1>16, <1>17, <1>18
     DEF Next
<1> QED
  BY <1>1, <1>19 DEF OutputsInv

LEMMA OutputsInit == Init => OutputsInv
<1> SUFFICES ASSUME Init PROVE OutputsInv
  OBVIOUS
<1>1. Nowhere \in [x : Nat, w : Nat]
  BY DEF Nowhere
<1>2. LayoutTypes
  BY <1>1, FS_EmptySet DEF Init, LayoutTypes
<1> QED
  BY <1>2, PowerInit DEF OutputsInv

LEMMA OutputsInvariant == Spec => []OutputsInv
BY OutputsInit, OutputsStep, PTL DEF Spec

\* Cards, outputs, handles and flags keep their types, with any number of each and panels
\* of any size.
THEOREM OutputsTypeCorrect == Spec => []TypeOK
<1>1. OutputsInv => TypeOK
  BY DEF OutputsInv, LayoutTypes, PowerInv, PowerTypes, TypeOK
<1> QED
  BY OutputsInvariant, <1>1, PTL

\* A new output continues a row of outputs that has no gap.
LEMMA TilingStep ==
  ASSUME OutputsInv, [Next]_vars, Tiled(space, place), space \subseteq space'
  PROVE  Tiled(space', place')
<1>1. /\ space \in SUBSET Displays /\ IsFiniteSet(space)
      /\ place \in [Displays -> [x : Nat, w : Nat]] /\ \A q \in space : place[q].w > 0
  BY DEF OutputsInv, LayoutTypes, PowerInv, PowerTypes
<1>2. ASSUME UNCHANGED <<space, place>> PROVE Tiled(space', place')
  BY <1>2
<1>3. ASSUME NEW C, Disconnected(C) PROVE Tiled(space', place')
  <2>1. {o \in space : crtc[o] \in C} = {}
    BY <1>3 DEF Disconnected
  <2>2. space' = space /\ place' = place
    BY <1>1, <1>3, <2>1 DEF Disconnected
  <2> QED
    BY <1>2, <2>2
<1>4. ASSUME NEW c \in Crtcs, NEW p \in Panels, ConnectorConnected(c, p)
      PROVE  Tiled(space', place')
  <2>1. PICK o \in Displays :
           /\ o \notin space /\ space' = space \cup {o}
           /\ place' \in [Displays -> [x : Nat, w : Nat]]
           /\ place'[o].x = Widths(place, space)
           /\ \A q \in Displays \ {o} : place'[q] = place[q]
    BY <1>4, ConnectedIs
  <2>2. \A q \in space : place'[q] = place[q]
    BY <1>1, <2>1
  <2>3. Tiled(space \cup {o}, place')
    BY <1>1, <2>1, <2>2, AddedKeepsTiling
  <2> QED
    BY <2>1, <2>3
<1>5. CASE \E g \in Cards : DeviceAdded(g)
  BY <1>2, <1>5 DEF DeviceAdded
<1>6. CASE \E g \in Cards : DeviceRemoved(g)
  BY <1>3, <1>6 DEF DeviceRemoved
<1>7. CASE \E c \in Crtcs : ConnectorDisconnected(c)
  BY <1>3, <1>7 DEF ConnectorDisconnected
<1>8. CASE \E c \in Crtcs : ConnectorLost(c) \/ RenderSurface(c)
  BY <1>2, <1>8 DEF ConnectorLost, RenderSurface
<1>9. CASE \E h \in Handles :
             \/ \E o \in Displays \cup {None} : GetOutputPower(h, o)
             \/ \E refused \in BOOLEAN : PowerOff(h, refused)
             \/ PowerOn(h) \/ HandleDestroyed(h)
  BY <1>2, <1>9 DEF GetOutputPower, PowerOff, PowerOn, HandleDestroyed
<1>10. CASE InputConsumed \/ ScheduleRender \/ UNCHANGED vars
  BY <1>2, <1>10 DEF InputConsumed, WakeOutputs, ScheduleRender, vars
<1> QED
  BY <1>4, <1>5, <1>6, <1>7, <1>8, <1>9, <1>10 DEF Next

\* While no gap was left behind, a new output neither overlaps the others nor leaves a
\* gap, whatever the panels' modes and scales.
THEOREM ConnectingTiles == Spec => ConnectKeepsTiling
<1> DEFINE Tiles == Tiled(space, place) /\ space \subseteq space' => Tiled(space', place')
<1>1. OutputsInv /\ [Next]_vars => [Tiles]_vars
  BY TilingStep
<1> HIDE DEF Tiles
<1>2. Spec => [][Tiles]_vars
  BY OutputsInvariant, <1>1, PTL DEF Spec
<1> QED
  BY <1>2 DEF Tiles, ConnectKeepsTiling
=============================================================================
