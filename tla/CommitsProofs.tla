---------------------------- MODULE CommitsProofs ----------------------------
(***************************************************************************)
(* What module Commits promises about queues, timer and barriers holds for *)
(* any surfaces, outputs and delays.                                       *)
(***************************************************************************)
EXTENDS Commits, SequenceTheorems, WellFoundedInduction, TLAPS

-----------------------------------------------------------------------------
(* The operators.                                                          *)

LEMMA NatMin ==
  ASSUME NEW T \in SUBSET Nat, T # {}
  PROVE  \E x \in T : \A y \in T : x <= y
<1> DEFINE R == OpToRel(<, Nat)
<1>1. IsWellFoundedOn(R, Nat)
  BY NatLessThanWellFounded
<1>2. PICK x \in T : \A y \in T : ~(<<y, x>> \in R)
  <2> HIDE DEF R
  <2> QED BY <1>1, WFMin
<1>3. \A y \in T : ~(y < x)
  BY <1>2 DEF OpToRel
<1> QED
  BY <1>3

LEMMA EarliestMin ==
  ASSUME NEW D \in SUBSET Nat
  PROVE  /\ D = {} => Earliest(D) = None
         /\ D # {} => Earliest(D) \in D /\ \A e \in D : Earliest(D) <= e
BY NatMin DEF Earliest

\* ReadyCount is the length of the longest ready prefix.
LEMMA ReadyCountIs ==
  ASSUME NEW q \in Seq(CommitType), NEW s, NEW set
  PROVE  /\ ReadyCount(q, s \in set) \in 0..Len(q)
         /\ Ready(q, s \in set, ReadyCount(q, s \in set))
         /\ ReadyCount(q, s \in set) < Len(q) => ~Ready(q, s \in set, ReadyCount(q, s \in set) + 1)
<1> DEFINE T == {k \in 1..(Len(q) + 1) : k = Len(q) + 1 \/ ~Ready(q, s \in set, k)}
<1>1. PICK k \in T : \A y \in T : k <= y
  <2>1. Len(q) \in Nat /\ Len(q) + 1 \in T
    OBVIOUS
  <2>2. T \in SUBSET Nat
    OBVIOUS
  <2> HIDE DEF T
  <2> QED BY <2>1, <2>2, NatMin
<1>2. k \in 1..(Len(q) + 1) /\ k - 1 \in 0..Len(q) /\ (k - 1 < Len(q) => ~Ready(q, s \in set, (k - 1) + 1))
  BY <1>1
<1>3. Ready(q, s \in set, k - 1)
  <2>1. CASE k = 1
    BY <2>1 DEF Ready
  <2>2. CASE k # 1
    <3>1. k - 1 \in 1..Len(q) /\ k - 1 \notin T
      BY <1>1, <1>2, <2>2
    <3> QED
      BY <3>1
  <2> QED
    BY <2>1, <2>2
<1>4. \E n \in 0..Len(q) : Ready(q, s \in set, n) /\ (n < Len(q) => ~Ready(q, s \in set, n + 1))
  BY <1>2, <1>3
<1> QED
  BY <1>4 DEF ReadyCount

-----------------------------------------------------------------------------
(* What resuming clients does to one surface: n commits apply, and m is where they leave  *)
(* it.                                                                     *)

Took(s, S, q, set, n, m) ==
  /\ n \in 0..Len(q[s]) /\ m \in Places
  /\ Ready(q[s], s \in set, n)
  /\ s \in S /\ n < Len(q[s]) => ~Ready(q[s], s \in set, n + 1)
  /\ s \notin S => n = 0
  /\ n = 0 \/ s \notin Toplevels => m = place[s]
  /\ held'[s] = SubSeq(q[s], n + 1, Len(q[s]))
  /\ s \in barrier' <=> s \in set \/ \E i \in 1..n : q[s][i].fifo
  /\ place'[s] = Stays(s, m)
  /\ n > 0 /\ s \notin Quiet /\ m \in Outputs /\ mode'[m] # "gone" => m \in damage'

LEMMA MovedType ==
  ASSUME NEW s \in Surfaces, NEW q, NEW n \in Nat, NEW p \in Places, NEW primary \in Places
  PROVE  /\ Moved(s, q, n, p, primary) \in Places
         /\ n = 0 \/ s \notin Toplevels => Moved(s, q, n, p, primary) = p
BY DEF Moved, Places

LEMMA ResumeTakes ==
  ASSUME TypeOK, NEW S, NEW q \in [Surfaces -> Seq(CommitType)], NEW set \in SUBSET Surfaces,
         Resume(S, q, set)
  PROVE  /\ \A s \in Surfaces : \E n \in Nat, m \in Places : Took(s, S, q, set, n, m)
         /\ held' \in [Surfaces -> Seq(CommitType)]
         /\ barrier' \subseteq Surfaces
         /\ place' \in [Surfaces -> Places]
         /\ damage' \subseteq Outputs
         /\ \A o \in damage : mode'[o] # "gone" => o \in damage'
<1>1. PICK primary \in Primaries :
        LET n     == [s \in Surfaces |-> IF s \in S THEN ReadyCount(q[s], s \in set) ELSE 0]
            moved == [s \in Surfaces |-> Moved(s, q[s], n[s], place[s], primary)]
            drawn == {s \in Surfaces : n[s] > 0 /\ (s \notin Quiet \/ moved[s] # place[s])}
        IN  /\ held' = [s \in Surfaces |-> SubSeq(q[s], n[s] + 1, Len(q[s]))]
            /\ barrier' = set \cup {s \in Surfaces : \E i \in 1..n[s] : q[s][i].fifo}
            /\ place' = [s \in Surfaces |-> Stays(s, moved[s])]
            /\ damage' = {o \in Outputs : /\ mode'[o] # "gone"
                                         /\ \/ o \in damage
                                            \/ \E s \in drawn : o \in {place[s], moved[s]}}
  BY DEF Resume
<1> DEFINE n     == [s \in Surfaces |-> IF s \in S THEN ReadyCount(q[s], s \in set) ELSE 0]
           moved == [s \in Surfaces |-> Moved(s, q[s], n[s], place[s], primary)]
           drawn == {s \in Surfaces : n[s] > 0 /\ (s \notin Quiet \/ moved[s] # place[s])}
<1>2. /\ held' = [s \in Surfaces |-> SubSeq(q[s], n[s] + 1, Len(q[s]))]
      /\ barrier' = set \cup {s \in Surfaces : \E i \in 1..n[s] : q[s][i].fifo}
      /\ place' = [s \in Surfaces |-> Stays(s, moved[s])]
      /\ damage' = {o \in Outputs : /\ mode'[o] # "gone"
                                   /\ \/ o \in damage
                                      \/ \E s \in drawn : o \in {place[s], moved[s]}}
  BY <1>1
<1>3. primary \in Places
  BY DEF Primaries, Places
<1>4. \A s \in Surfaces : place[s] \in Places
  BY DEF TypeOK
<1>5. ASSUME NEW s \in Surfaces
      PROVE  /\ n[s] \in 0..Len(q[s])
             /\ Ready(q[s], s \in set, n[s])
             /\ s \in S /\ n[s] < Len(q[s]) => ~Ready(q[s], s \in set, n[s] + 1)
             /\ s \notin S => n[s] = 0
  <2>1. q[s] \in Seq(CommitType) /\ Len(q[s]) \in Nat
    OBVIOUS
  <2>3. CASE s \in S
    <3>1. n[s] = ReadyCount(q[s], s \in set)
      BY <2>3
    <3> HIDE DEF n
    <3> QED
      BY <2>1, <2>3, <3>1, ReadyCountIs
  <2>4. CASE s \notin S
    BY <2>1, <2>4 DEF Ready
  <2> QED
    BY <2>3, <2>4
<1>6. ASSUME NEW s \in Surfaces
      PROVE  moved[s] \in Places /\ (n[s] = 0 \/ s \notin Toplevels => moved[s] = place[s])
  <2>1. n[s] \in Nat
    BY <1>5
  <2>2. moved[s] = Moved(s, q[s], n[s], place[s], primary)
    OBVIOUS
  <2> HIDE DEF n, moved
  <2> QED
    BY <1>3, <1>4, <2>1, <2>2, MovedType
<1> HIDE DEF n, moved, drawn
<1>7. ASSUME NEW s \in Surfaces PROVE Took(s, S, q, set, n[s], moved[s])
  <2>1. held'[s] = SubSeq(q[s], n[s] + 1, Len(q[s])) /\ place'[s] = Stays(s, moved[s])
    BY <1>2
  <2>2. s \in barrier' <=> s \in set \/ \E i \in 1..n[s] : q[s][i].fifo
    BY <1>2
  <2>3. n[s] > 0 /\ s \notin Quiet => s \in drawn
    BY DEF drawn
  <2>4. n[s] > 0 /\ s \notin Quiet /\ moved[s] \in Outputs /\ mode'[moved[s]] # "gone"
          => moved[s] \in damage'
    BY <1>2, <2>3
  <2> QED
    BY <1>5, <1>6, <2>1, <2>2, <2>4 DEF Took
<1>8. held' \in [Surfaces -> Seq(CommitType)]
  <2>1. ASSUME NEW s \in Surfaces PROVE SubSeq(q[s], n[s] + 1, Len(q[s])) \in Seq(CommitType)
    BY <1>5, SubSeqProperties
  <2> QED
    BY <1>2, <2>1
<1>9. place' \in [Surfaces -> Places]
  BY <1>2, <1>6 DEF Stays, Places
<1>10. \A s \in Surfaces : \E k \in Nat, m \in Places : Took(s, S, q, set, k, m)
  <2> SUFFICES ASSUME NEW s \in Surfaces
               PROVE  \E k \in Nat, m \in Places : Took(s, S, q, set, k, m)
    OBVIOUS
  <2>1. n[s] \in Nat /\ moved[s] \in Places
    BY <1>5, <1>6
  <2> QED
    BY <1>7, <2>1
<1>11. barrier' \subseteq Surfaces /\ damage' \subseteq Outputs
  BY <1>2
<1>12. \A o \in damage : mode'[o] # "gone" => o \in damage'
  BY <1>2 DEF TypeOK
<1> QED
  BY <1>8, <1>9, <1>10, <1>11, <1>12

\* The queue a surface is left with.
LEMMA RestOfQueue ==
  ASSUME NEW r \in Seq(CommitType), NEW n \in 0..Len(r)
  PROVE  LET rest == SubSeq(r, n + 1, Len(r))
         IN  /\ rest \in Seq(CommitType) /\ Len(rest) = Len(r) - n
             /\ \A i \in 1..Len(rest) : rest[i] = r[n + i]
<1>1. Len(r) \in Nat /\ n + 1 \in Int /\ \A i \in (n + 1)..Len(r) : r[i] \in CommitType
  OBVIOUS
<1> QED
  BY <1>1, SubSeqProperties

\* A surface whose clients are resumed, or whose queue and barrier did not change, is left
\* with a head that waits.
LEMMA HeadWaits ==
  ASSUME NEW s \in Surfaces, NEW S, NEW q \in [Surfaces -> Seq(CommitType)],
         NEW set \in SUBSET Surfaces, NEW n \in Nat, NEW m \in Places, Took(s, S, q, set, n, m),
         s \notin S /\ q[s] # <<>> => ~Ready(q[s], s \in set, 1)
  PROVE  held'[s] # <<>> => ~Ready(held'[s], s \in barrier', 1)
<1> SUFFICES ASSUME held'[s] # <<>>, Ready(held'[s], s \in barrier', 1) PROVE FALSE
  OBVIOUS
<1> DEFINE r == q[s]
<1>1. r \in Seq(CommitType) /\ n \in 0..Len(r) /\ held'[s] = SubSeq(r, n + 1, Len(r))
  BY DEF Took
<1>2. Len(held'[s]) = Len(r) - n /\ (\A i \in 1..Len(held'[s]) : held'[s][i] = r[n + i])
      /\ held'[s] \in Seq(CommitType)
  BY <1>1, RestOfQueue
<1>3. Len(r) > n /\ held'[s][1] = r[n + 1]
  BY <1>1, <1>2
<1>4. /\ r[n + 1].due = None /\ ~r[n + 1].fence
      /\ r[n + 1].fifo => s \notin barrier'
  BY <1>3 DEF Ready
<1>5. r[n + 1].fifo => s \notin set /\ \A i \in 1..n : ~r[i].fifo
  BY <1>4 DEF Took
<1>6. Ready(r, s \in set, n)
  BY DEF Took
<1>7. Ready(r, s \in set, n + 1)
  BY <1>1, <1>4, <1>5, <1>6 DEF Ready
<1>8. CASE s \in S
  BY <1>3, <1>7, <1>8 DEF Took
<1>9. CASE s \notin S
  <2>1. n = 0 /\ r # <<>>
    BY <1>1, <1>3, <1>9 DEF Took
  <2> QED
    BY <1>7, <1>9, <2>1
<1> QED
  BY <1>8, <1>9

-----------------------------------------------------------------------------
(* The actions that resume clients, and the queues they resume them with.  *)

Resuming(S, q, set) ==
  /\ q \in [Surfaces -> Seq(CommitType)] /\ set \subseteq barrier
  /\ \A s \in Surfaces \ S : q[s] = held[s] /\ (s \in barrier => s \in set)
  /\ Resume(S, q, set)

Due(s) == Known(place, s) /\ Signalled(held[s]) # held[s]
DueQueues ==
  [s \in Surfaces |-> IF s \in {t \in Surfaces : Due(t)} THEN Signalled(held[s]) ELSE held[s]]

LEMMA SignalledType ==
  ASSUME NEW r \in Seq(CommitType)
  PROVE  /\ Signalled(r) \in Seq(CommitType) /\ Len(Signalled(r)) = Len(r)
         /\ \A i \in 1..Len(r) :
              Signalled(r)[i] = IF r[i].due = 0 THEN [r[i] EXCEPT !.due = None] ELSE r[i]
<1>1. \A i \in 1..Len(r) : r[i] \in CommitType
  OBVIOUS
<1>2. \A c \in CommitType : [c EXCEPT !.due = None] \in CommitType
  BY DEF CommitType
<1> QED
  BY <1>1, <1>2 DEF Signalled

LEMMA CommitResumes ==
  ASSUME TypeOK, NEW s \in Surfaces, NEW c \in CommitType, Commit(s, c)
  PROVE  Resuming({s}, [held EXCEPT ![s] = Append(@, c)], barrier)
<1>1. [held EXCEPT ![s] = Append(@, c)] \in [Surfaces -> Seq(CommitType)]
  BY DEF TypeOK
<1>2. \A t \in Surfaces \ {s} : [held EXCEPT ![s] = Append(@, c)][t] = held[t]
  BY DEF TypeOK
<1>3. Resume({s}, [held EXCEPT ![s] = Append(@, c)], barrier)
  BY DEF Commit
<1> QED
  BY <1>1, <1>2, <1>3 DEF Resuming

LEMMA FenceType ==
  ASSUME TypeOK, NEW s \in Surfaces, NEW i \in 1..Len(held[s])
  PROVE  LET q == [held EXCEPT ![s][i].fence = FALSE]
         IN  /\ q \in [Surfaces -> Seq(CommitType)]
             /\ \A t \in Surfaces : t # s => q[t] = held[t]
             /\ Len(q[s]) = Len(held[s])
             /\ \A j \in 1..Len(held[s]) : q[s][j].due = held[s][j].due
<1> DEFINE r == [held[s] EXCEPT ![i] = [held[s][i] EXCEPT !.fence = FALSE]]
<1>1. held[s] \in Seq(CommitType) /\ held[s][i] \in CommitType
  BY DEF TypeOK
<1>2. [held[s][i] EXCEPT !.fence = FALSE] \in CommitType
      /\ [held[s][i] EXCEPT !.fence = FALSE].due = held[s][i].due
  BY <1>1 DEF CommitType
<1>3. r \in Seq(CommitType) /\ Len(r) = Len(held[s])
      /\ \A j \in 1..Len(held[s]) : r[j].due = held[s][j].due
  BY <1>1, <1>2
<1>4. [held EXCEPT ![s][i].fence = FALSE] = [held EXCEPT ![s] = r]
  OBVIOUS
<1> HIDE DEF r
<1> QED
  BY <1>3, <1>4 DEF TypeOK

LEMMA FenceResumes ==
  ASSUME TypeOK, NEW s \in Surfaces, NEW i \in 1..Len(held[s]), FenceSignals(s, i)
  PROVE  Resuming({s}, [held EXCEPT ![s][i].fence = FALSE], barrier)
BY FenceType DEF FenceSignals, Resuming

LEMMA DueType ==
  ASSUME TypeOK
  PROVE  /\ DueQueues \in [Surfaces -> Seq(CommitType)]
         /\ \A s \in Surfaces :
              /\ Len(DueQueues[s]) = Len(held[s])
              /\ \A i \in 1..Len(held[s]) :
                   held[s][i].due \notin {None, 0} => DueQueues[s][i] = held[s][i]
<1>1. ASSUME NEW s \in Surfaces
      PROVE  /\ DueQueues[s] \in Seq(CommitType) /\ Len(DueQueues[s]) = Len(held[s])
             /\ \A i \in 1..Len(held[s]) :
                  held[s][i].due \notin {None, 0} => DueQueues[s][i] = held[s][i]
  <2>1. held[s] \in Seq(CommitType)
    BY DEF TypeOK
  <2>2. DueQueues[s] \in {held[s], Signalled(held[s])}
    BY DEF DueQueues
  <2> QED
    BY <2>1, <2>2, SignalledType
<1>2. DueQueues \in [Surfaces -> Seq(CommitType)]
  BY <1>1 DEF DueQueues
<1> QED
  BY <1>1, <1>2

LEMMA TimerResumes ==
  ASSUME TypeOK, TimerFires
  PROVE  Resuming({s \in Surfaces : Due(s)}, DueQueues, barrier)
<1>1. Resume({s \in Surfaces : Due(s)}, DueQueues, barrier)
  BY DEF TimerFires, Due, DueQueues
<1>2. \A s \in Surfaces \ {t \in Surfaces : Due(t)} : DueQueues[s] = held[s]
  BY DEF DueQueues
<1> QED
  BY <1>1, <1>2, DueType DEF Resuming

LEMMA ReleaseResumes ==
  ASSUME TypeOK, NEW o \in Outputs, ReleaseFifo(o)
  PROVE  Resuming({s \in barrier : place[s] = o}, held, barrier \ {s \in barrier : place[s] = o})
BY DEF TypeOK, ReleaseFifo, Resuming

\* Every step that resumes clients does so with one of these queues.
LEMMA Resumes ==
  ASSUME TypeOK,
         \/ \E s \in Surfaces : \/ \E c \in CommitType : Commit(s, c)
                               \/ \E i \in 1..Len(held[s]) : FenceSignals(s, i)
         \/ TimerFires
         \/ \E o \in Outputs : FrameFinish(o) \/ PowerOff(o) \/ Unplug(o)
  PROVE  \E S, q, set : Resuming(S, q, set)
BY CommitResumes, FenceResumes, TimerResumes, ReleaseResumes DEF FrameFinish, PowerOff, Unplug

LEMMA ResumingTypes ==
  ASSUME TypeOK, NEW S, NEW q, NEW set, Resuming(S, q, set)
  PROVE  /\ held' \in [Surfaces -> Seq(CommitType)]
         /\ barrier' \subseteq Surfaces
         /\ place' \in [Surfaces -> Places]
         /\ damage' \subseteq Outputs
BY ResumeTakes DEF Resuming, TypeOK

-----------------------------------------------------------------------------
(* Types.                                                                  *)

LEMMA PendingType ==
  ASSUME NEW q, NEW pl
  PROVE  /\ Pending(q, pl) \in SUBSET Nat
         /\ Earliest(Pending(q, pl)) \in Delays \cup {None}
<1>1. Pending(q, pl) \in SUBSET Nat /\ Pending(q, pl) \subseteq Delays
  BY BoundsAssumption DEF Pending, Delays
<1> QED
  BY <1>1, EarliestMin

LEMMA ArmedType ==
  ASSUME TypeOK, NEW c \in CommitType
  PROVE  Armed(c) \in Delays \cup {None}
<1>1. CASE c.due = None
  BY <1>1 DEF Armed, TypeOK
<1>2. CASE c.due # None
  <2>1. c.due \in Delays
    BY <1>2 DEF CommitType
  <2>2. Pending(held, place) \cup {c.due} \in SUBSET Nat
        /\ Pending(held, place) \cup {c.due} \subseteq Delays
        /\ Pending(held, place) \cup {c.due} # {}
    BY <2>1, BoundsAssumption DEF Pending, Delays
  <2>3. Earliest(Pending(held, place) \cup {c.due}) \in Delays
    BY <2>2, EarliestMin
  <2> QED
    BY <1>2, <2>3 DEF Armed
<1> QED
  BY <1>1, <1>2

LEMMA LessType ==
  ASSUME NEW d \in Delays \cup {None}
  PROVE  /\ Less(d) \in Delays \cup {None}
         /\ Less(d) = None <=> d = None
         /\ d # None => Less(d) = IF d = 0 THEN 0 ELSE d - 1
<1>1. CASE d = None
  BY <1>1 DEF Less
<1>2. CASE d = 0
  BY <1>2 DEF Less
<1>3. CASE d \in Delays /\ d # 0 /\ d # None
  <2>1. d \in Nat /\ d - 1 \in Delays /\ Less(d) = d - 1
    BY <1>3, BoundsAssumption DEF Less, Delays
  <2>2. d - 1 \in Nat
    BY <2>1, <1>3
  <2> QED
    BY <1>3, <2>1, <2>2, NamesAssumption
<1> QED
  BY <1>1, <1>2, <1>3

\* A tick keeps the queues, and takes a tick from each deadline.
LEMMA TickQueues ==
  ASSUME TypeOK, Tick
  PROVE  /\ held' \in [Surfaces -> Seq(CommitType)]
         /\ \A s \in Surfaces :
              /\ Len(held'[s]) = Len(held[s])
              /\ \A i \in 1..Len(held[s]) :
                   /\ held'[s][i].due = Less(held[s][i].due)
                   /\ held'[s][i].fence = held[s][i].fence
                   /\ held'[s][i].fifo = held[s][i].fifo
<1>1. ASSUME NEW c \in CommitType
      PROVE  /\ [c EXCEPT !.due = Less(@)] \in CommitType
             /\ [c EXCEPT !.due = Less(@)].due = Less(c.due)
             /\ [c EXCEPT !.due = Less(@)].fence = c.fence
             /\ [c EXCEPT !.due = Less(@)].fifo = c.fifo
  <2>1. Less(c.due) \in Delays \cup {None}
    BY LessType DEF CommitType
  <2> QED
    BY <2>1 DEF CommitType
<1>2. ASSUME NEW s \in Surfaces
      PROVE  /\ held'[s] = [i \in 1..Len(held[s]) |-> [held[s][i] EXCEPT !.due = Less(@)]]
             /\ \A i \in 1..Len(held[s]) : held[s][i] \in CommitType
             /\ Len(held[s]) \in Nat
  BY DEF Tick, TypeOK
<1>3. ASSUME NEW s \in Surfaces
      PROVE  /\ held'[s] \in Seq(CommitType) /\ Len(held'[s]) = Len(held[s])
             /\ \A i \in 1..Len(held[s]) :
                  /\ held'[s][i].due = Less(held[s][i].due)
                  /\ held'[s][i].fence = held[s][i].fence
                  /\ held'[s][i].fifo = held[s][i].fifo
  <2> DEFINE r == held[s]
             N == Len(r)
             f == [i \in 1..N |-> [r[i] EXCEPT !.due = Less(@)]]
  <2>1. held'[s] = f /\ N \in Nat
    BY <1>2
  <2>2. ASSUME NEW i \in 1..N
        PROVE  /\ f[i] \in CommitType /\ f[i].due = Less(r[i].due)
               /\ f[i].fence = r[i].fence /\ f[i].fifo = r[i].fifo
    <3>1. f[i] = [r[i] EXCEPT !.due = Less(@)] /\ r[i] \in CommitType
      BY <1>2
    <3> HIDE DEF f, r
    <3> QED
      BY <1>1, <3>1
  <2>3. DOMAIN f = 1..N
    OBVIOUS
  <2> HIDE DEF f, N
  <2>4. f \in Seq(CommitType) /\ Len(f) = N
    <3>1. f \in [1..N -> CommitType]
      <4>1. f = [i \in 1..N |-> f[i]]
        BY DEF f
      <4> QED
        BY <2>2, <4>1
    <3> QED
      BY <2>1, <3>1
  <2> QED
    BY <2>1, <2>2, <2>4 DEF N
<1>4. held' \in [Surfaces -> Seq(CommitType)]
  BY <1>3 DEF Tick
<1> QED
  BY <1>3, <1>4

LEMMA TypeStep ==
  ASSUME TypeOK, Next
  PROVE  TypeOK'
<1>1. ASSUME NEW s \in Surfaces, NEW o \in Outputs, NewLayer(s, o) PROVE TypeOK'
  BY <1>1 DEF TypeOK, NewLayer, Places
<1>2. ASSUME NEW s \in Surfaces, NEW o \in Outputs, Relocated(s, o) PROVE TypeOK'
  BY <1>2 DEF TypeOK, Relocated, Places
<1>3. ASSUME NEW s \in Surfaces, NEW c \in CommitType, Commit(s, c) PROVE TypeOK'
  <2>1. timer' \in Delays \cup {None} /\ UNCHANGED <<mode, flight, paused>>
    BY <1>3, ArmedType DEF Commit
  <2> QED
    BY <1>3, <2>1, CommitResumes, ResumingTypes DEF TypeOK
<1>4. ASSUME NEW s \in Surfaces, Destroyed(s) PROVE TypeOK'
  <2>1. <<>> \in Seq(CommitType)
    OBVIOUS
  <2> QED
    BY <1>4, <2>1 DEF TypeOK, Destroyed, Places
<1>5. ASSUME NEW s \in Surfaces, NEW i \in 1..Len(held[s]), FenceSignals(s, i) PROVE TypeOK'
  <2>1. UNCHANGED <<timer, mode, flight, paused>>
    BY <1>5 DEF FenceSignals
  <2> QED
    BY <1>5, <2>1, FenceResumes, ResumingTypes DEF TypeOK
<1>6. ASSUME TimerFires PROVE TypeOK'
  <2>1. timer' \in Delays \cup {None} /\ UNCHANGED <<mode, flight, paused>>
    BY <1>6, PendingType DEF TimerFires, Rescheduled
  <2> QED
    BY <1>6, <2>1, TimerResumes, ResumingTypes DEF TypeOK
<1>7. ASSUME Tick PROVE TypeOK'
  <2>1. timer' \in Delays \cup {None} /\ UNCHANGED <<place, barrier, mode, damage, flight, paused>>
    BY <1>7, LessType DEF Tick, TypeOK
  <2> QED
    BY <1>7, <2>1, TickQueues DEF TypeOK
<1>8. ASSUME NEW o \in Outputs, FrameFinish(o) \/ PowerOff(o) \/ Unplug(o) PROVE TypeOK'
  <2>1. ReleaseFifo(o)
    BY <1>8 DEF FrameFinish, PowerOff, Unplug
  <2>2. /\ timer' = timer /\ paused' = paused /\ flight' \subseteq Outputs
        /\ mode' \in [Outputs -> Modes]
    BY <1>8 DEF FrameFinish, PowerOff, Unplug, TypeOK, Modes
  <2> QED
    BY <2>1, <2>2, ReleaseResumes, ResumingTypes DEF TypeOK
<1>9. ASSUME NEW o \in Outputs, Render(o) \/ PowerOn(o) PROVE TypeOK'
  BY <1>9 DEF Render, PowerOn, TypeOK, Modes
<1>10. ASSUME NEW o \in Outputs, NEW S, Plug(o, S) PROVE TypeOK'
  BY <1>10 DEF Plug, TypeOK, Modes, Places
<1>11. ASSUME Pause \/ Activate PROVE TypeOK'
  BY <1>11 DEF Pause, Activate, TypeOK
<1> QED
  BY <1>1, <1>2, <1>3, <1>4, <1>5, <1>6, <1>7, <1>8, <1>9, <1>10, <1>11 DEF Next

LEMMA TypeInit == Init => TypeOK
<1>1. <<>> \in Seq(CommitType)
  OBVIOUS
<1> QED
  BY <1>1, BoundsAssumption DEF Init, TypeOK, Places, Modes

\* Queues hold commits, and the timer a delay, whatever clients commit and outputs do.
THEOREM CommitsTypeCorrect == Spec => []TypeOK
<1>1. TypeOK /\ [Next]_vars => TypeOK'
  BY TypeStep DEF vars, TypeOK
<1> QED
  BY <1>1, TypeInit, PTL DEF Spec

-----------------------------------------------------------------------------
(* Nothing that could apply is left waiting.                               *)

LEMMA WaitsStep ==
  ASSUME TypeOK, NoReadyCommitWaits, Next
  PROVE  NoReadyCommitWaits'
<1>1. ASSUME NEW S, NEW q, NEW set, Resuming(S, q, set) PROVE NoReadyCommitWaits'
  <2> SUFFICES ASSUME NEW s \in Surfaces
               PROVE  held'[s] # <<>> => ~Ready(held'[s], s \in barrier', 1)
    BY DEF NoReadyCommitWaits
  <2>1. q \in [Surfaces -> Seq(CommitType)] /\ set \in SUBSET Surfaces /\ Resume(S, q, set)
    BY <1>1 DEF Resuming, TypeOK
  <2>2. PICK n \in Nat, m \in Places : Took(s, S, q, set, n, m)
    BY <2>1, ResumeTakes
  <2>3. s \notin S => q[s] = held[s] /\ (s \in set) = (s \in barrier)
    BY <1>1 DEF Resuming
  <2>4. s \notin S /\ q[s] # <<>> => ~Ready(q[s], s \in set, 1)
    BY <2>3 DEF NoReadyCommitWaits
  <2> QED
    BY <2>1, <2>2, <2>4, HeadWaits
<1>2. ASSUME UNCHANGED <<held, barrier>> PROVE NoReadyCommitWaits'
  BY <1>2 DEF NoReadyCommitWaits, Ready
<1>3. ASSUME NEW s \in Surfaces, Destroyed(s) PROVE NoReadyCommitWaits'
  <2> SUFFICES ASSUME NEW t \in Surfaces, held'[t] # <<>>
               PROVE  ~Ready(held'[t], t \in barrier', 1)
    BY DEF NoReadyCommitWaits
  <2>1. t # s /\ held'[t] = held[t] /\ (t \in barrier') = (t \in barrier)
    BY <1>3 DEF Destroyed, TypeOK
  <2> QED
    BY <2>1 DEF NoReadyCommitWaits
<1>4. ASSUME Tick PROVE NoReadyCommitWaits'
  <2> SUFFICES ASSUME NEW s \in Surfaces, held'[s] # <<>>, Ready(held'[s], s \in barrier', 1)
               PROVE  FALSE
    BY DEF NoReadyCommitWaits
  <2>1. held[s] \in Seq(CommitType) /\ held'[s] \in Seq(CommitType) /\ Len(held'[s]) = Len(held[s])
    BY <1>4, TickQueues DEF TypeOK
  <2>2. 1 \in 1..Len(held[s]) /\ held[s] # <<>>
    BY <2>1
  <2>3. /\ held'[s][1].due = Less(held[s][1].due)
        /\ held'[s][1].fence = held[s][1].fence /\ held'[s][1].fifo = held[s][1].fifo
    BY <1>4, <2>2, TickQueues
  <2>4. held[s][1].due \in Delays \cup {None}
    <3>1. held[s][1] \in CommitType
      BY <2>1, <2>2
    <3> QED
      BY <3>1 DEF CommitType
  <2>5. held'[s][1].due = None <=> held[s][1].due = None
    BY <2>3, <2>4, LessType
  <2>6. Ready(held[s], s \in barrier, 1)
    BY <1>4, <2>3, <2>5 DEF Ready, Tick
  <2> QED
    BY <2>2, <2>6 DEF NoReadyCommitWaits
<1>5. \/ \E S, q, set : Resuming(S, q, set)
      \/ UNCHANGED <<held, barrier>>
      \/ Tick
      \/ \E s \in Surfaces : Destroyed(s)
  BY Resumes DEF Next, NewLayer, Relocated, Render, PowerOn, Plug, Pause, Activate
<1> QED
  BY <1>1, <1>2, <1>3, <1>4, <1>5

\* No commit is left waiting for nothing, in whatever order fences, timers and barriers clear.
THEOREM NothingReadyWaits == Spec => []NoReadyCommitWaits
<1>1. Init => NoReadyCommitWaits
  BY DEF Init, NoReadyCommitWaits
<1>2. TypeOK /\ NoReadyCommitWaits /\ [Next]_vars => NoReadyCommitWaits'
  BY WaitsStep DEF vars, NoReadyCommitWaits, Ready
<1> QED
  BY <1>1, <1>2, CommitsTypeCorrect, PTL DEF Spec

-----------------------------------------------------------------------------
(* No commit applies before its time.                                      *)

LEMMA HeadStays ==
  ASSUME TypeOK, NEW S, NEW q, NEW set, Resuming(S, q, set),
         NEW s \in Surfaces, q[s] # <<>>, q[s][1].due # None
  PROVE  Len(held'[s]) = Len(q[s])
<1>1. q \in [Surfaces -> Seq(CommitType)] /\ set \in SUBSET Surfaces /\ Resume(S, q, set)
  BY DEF Resuming, TypeOK
<1>2. PICK n \in Nat, m \in Places : Took(s, S, q, set, n, m)
  BY <1>1, ResumeTakes
<1>3. n = 0
  BY <1>2 DEF Took, Ready
<1>4. q[s] \in Seq(CommitType) /\ held'[s] = SubSeq(q[s], n + 1, Len(q[s])) /\ n \in 0..Len(q[s])
  BY <1>1, <1>2 DEF Took
<1>5. Len(held'[s]) = Len(q[s]) - n
  BY <1>4, RestOfQueue
<1> QED
  BY <1>3, <1>4, <1>5

LEMMA EarlyStep ==
  ASSUME TypeOK, Next
  PROVE  HeadWaitsForItsTime
<1> SUFFICES ASSUME NEW s \in Surfaces, held[s] # <<>>, held[s][1].due \notin {None, 0}
             PROVE  Len(held'[s]) >= Len(held[s]) \/ Destroyed(s)
  BY DEF HeadWaitsForItsTime
<1>0. held[s] \in Seq(CommitType) /\ Len(held[s]) \in Nat /\ 1 \in 1..Len(held[s])
  BY DEF TypeOK
<1>1. ASSUME NEW t \in Surfaces, NEW c \in CommitType, Commit(t, c)
      PROVE  Len(held'[s]) >= Len(held[s])
  <2> DEFINE q == [held EXCEPT ![t] = Append(@, c)]
  <2>1. q[s] = IF s = t THEN Append(held[s], c) ELSE held[s]
    BY DEF TypeOK
  <2>2. q[s] # <<>> /\ q[s][1] = held[s][1] /\ Len(q[s]) >= Len(held[s])
    BY <1>0, <2>1
  <2>3. Resuming({t}, q, barrier)
    BY <1>1, CommitResumes
  <2> HIDE DEF q
  <2>4. Len(held'[s]) = Len(q[s])
    BY <2>2, <2>3, HeadStays
  <2> QED
    BY <2>2, <2>4
<1>2. ASSUME NEW t \in Surfaces, NEW i \in 1..Len(held[t]), FenceSignals(t, i)
      PROVE  Len(held'[s]) >= Len(held[s])
  <2> DEFINE q == [held EXCEPT ![t][i].fence = FALSE]
  <2>1. /\ q \in [Surfaces -> Seq(CommitType)]
        /\ Len(q[s]) = Len(held[s])
        /\ \A j \in 1..Len(held[s]) : q[s][j].due = held[s][j].due
    BY FenceType
  <2>2. Resuming({t}, q, barrier)
    BY <1>2, FenceResumes
  <2> HIDE DEF q
  <2>3. q[s] # <<>> /\ q[s][1].due = held[s][1].due
    BY <1>0, <2>1
  <2>4. Len(held'[s]) = Len(q[s])
    BY <2>2, <2>3, HeadStays
  <2> QED
    BY <1>0, <2>1, <2>4
<1>3. ASSUME TimerFires PROVE Len(held'[s]) >= Len(held[s])
  <2>1. Len(DueQueues[s]) = Len(held[s]) /\ DueQueues[s][1] = held[s][1]
        /\ DueQueues \in [Surfaces -> Seq(CommitType)]
    BY <1>0, DueType
  <2>2. DueQueues[s] # <<>>
    BY <1>0, <2>1
  <2>3. Len(held'[s]) = Len(DueQueues[s])
    BY <1>3, <2>1, <2>2, TimerResumes, HeadStays
  <2> QED
    BY <1>0, <2>1, <2>3
<1>4. ASSUME NEW o \in Outputs, FrameFinish(o) \/ PowerOff(o) \/ Unplug(o)
      PROVE  Len(held'[s]) >= Len(held[s])
  <2>1. ReleaseFifo(o)
    BY <1>4 DEF FrameFinish, PowerOff, Unplug
  <2>2. Len(held'[s]) = Len(held[s])
    BY <2>1, ReleaseResumes, HeadStays
  <2> QED
    BY <1>0, <2>2
<1>5. ASSUME NEW t \in Surfaces, Destroyed(t)
      PROVE  Len(held'[s]) >= Len(held[s]) \/ Destroyed(s)
  <2>1. CASE t = s
    BY <1>5, <2>1
  <2>2. CASE t # s
    <3>1. held'[s] = held[s]
      BY <1>5, <2>2 DEF Destroyed, TypeOK
    <3> QED
      BY <1>0, <3>1
  <2> QED
    BY <2>1, <2>2
<1>6. ASSUME Tick PROVE Len(held'[s]) >= Len(held[s])
  BY <1>0, <1>6, TickQueues
<1>7. ASSUME UNCHANGED held PROVE Len(held'[s]) >= Len(held[s])
  BY <1>0, <1>7
<1> QED
  BY <1>1, <1>2, <1>3, <1>4, <1>5, <1>6, <1>7
     DEF Next, NewLayer, Relocated, Render, PowerOn, Plug, Pause, Activate

\* A commit that asked for a time, and those behind it, wait for that time.
THEOREM NothingAppliesEarly == Spec => NotBeforeItsTime
<1>1. TypeOK /\ [Next]_vars => [HeadWaitsForItsTime]_vars
  BY EarlyStep DEF vars
<1> QED
  BY <1>1, CommitsTypeCorrect, PTL DEF Spec, NotBeforeItsTime

-----------------------------------------------------------------------------
(* The timer covers every deadline.                                        *)

\* What a surface that stays known has waiting, it had before.
LEMMA CoversRest ==
  ASSUME TypeOK, NEW S, NEW q, NEW set, Resuming(S, q, set),
         NEW s \in Surfaces \ Toplevels, Known(place', s), NEW i \in 1..Len(held'[s])
  PROVE  /\ Known(place, s)
         /\ \E j \in 1..Len(q[s]) : held'[s][i] = q[s][j]
<1>1. q \in [Surfaces -> Seq(CommitType)] /\ set \in SUBSET Surfaces /\ Resume(S, q, set)
  BY DEF Resuming, TypeOK
<1>2. PICK n \in Nat, m \in Places : Took(s, S, q, set, n, m)
  BY <1>1, ResumeTakes
<1>3. place'[s] = Stays(s, place[s])
  BY <1>2 DEF Took
<1>4. Known(place, s)
  BY <1>3, NamesAssumption DEF Known, Stays
<1>5. q[s] \in Seq(CommitType) /\ held'[s] = SubSeq(q[s], n + 1, Len(q[s])) /\ n \in 0..Len(q[s])
  BY <1>1, <1>2 DEF Took
<1>6. Len(held'[s]) = Len(q[s]) - n /\ held'[s][i] = q[s][n + i]
  BY <1>5, RestOfQueue
<1>7. n + i \in 1..Len(q[s])
  BY <1>5, <1>6
<1> QED
  BY <1>4, <1>6, <1>7

LEMMA CoversStep ==
  ASSUME TypeOK, TimerCovers, Next
  PROVE  TimerCovers'
<1> SUFFICES ASSUME NEW s \in Surfaces \ Toplevels, NEW i \in 1..Len(held'[s]),
                    Known(place', s), held'[s][i].due # None
             PROVE  timer' # None /\ timer' <= held'[s][i].due
  BY DEF TimerCovers
<1> DEFINE d == held'[s][i].due
<1>0. held[s] \in Seq(CommitType) /\ Len(held[s]) \in Nat
      /\ \A j \in 1..Len(held[s]) : held[s][j].due \in Delays \cup {None}
  <2>1. held[s] \in Seq(CommitType)
    BY DEF TypeOK
  <2>2. \A j \in 1..Len(held[s]) : held[s][j] \in CommitType
    BY <2>1
  <2>3. \A c \in CommitType : c.due \in Delays \cup {None}
    BY DEF CommitType
  <2> QED
    BY <2>1, <2>2, <2>3
<1>a. ASSUME NEW j \in 1..Len(held[s]), Known(place, s), held[s][j].due # None
      PROVE  timer # None /\ timer <= held[s][j].due
  BY <1>a DEF TimerCovers
<1>b. d \in Delays
  <2>1. held'[s] \in Seq(CommitType)
    BY TypeStep DEF TypeOK
  <2>2. held'[s][i] \in CommitType
    BY <2>1
  <2> QED
    BY <2>2 DEF CommitType
<1>1. ASSUME NEW t \in Surfaces, NEW c \in CommitType, Commit(t, c)
      PROVE  timer' # None /\ timer' <= d
  <2> DEFINE q == [held EXCEPT ![t] = Append(@, c)]
             D == Pending(held, place) \cup {c.due}
  <2>1. Resuming({t}, q, barrier) /\ timer' = Armed(c)
    BY <1>1, CommitResumes DEF Commit
  <2>2. q[s] = IF s = t THEN Append(held[s], c) ELSE held[s]
    BY DEF TypeOK
  <2> HIDE DEF q
  <2>3. Known(place, s) /\ \E j \in 1..Len(q[s]) : held'[s][i] = q[s][j]
    BY <2>1, CoversRest
  <2>4. d = c.due \/ \E j \in 1..Len(held[s]) : d = held[s][j].due
    BY <1>0, <2>2, <2>3
  <2>5. CASE c.due = None
    <3>1. \E j \in 1..Len(held[s]) : d = held[s][j].due
      BY <2>4, <2>5
    <3> QED
      BY <1>a, <2>1, <2>3, <2>5, <3>1 DEF Armed
  <2>6. CASE c.due # None
    <3>1. d \in D
      BY <1>b, <2>3, <2>4 DEF Pending
    <3>2. D \in SUBSET Nat
      BY <2>6, PendingType, BoundsAssumption DEF CommitType, Delays
    <3>3. timer' = Earliest(D)
      BY <2>1, <2>6 DEF Armed
    <3> HIDE DEF D, d
    <3>4. timer' \in D /\ timer' <= d
      BY <3>1, <3>2, <3>3, EarliestMin
    <3> QED
      BY <3>2, <3>4, NamesAssumption
  <2> QED
    BY <2>5, <2>6
<1>2. ASSUME NEW t \in Surfaces, NEW k \in 1..Len(held[t]), FenceSignals(t, k)
      PROVE  timer' # None /\ timer' <= d
  <2> DEFINE q == [held EXCEPT ![t][k].fence = FALSE]
  <2>1. /\ q \in [Surfaces -> Seq(CommitType)]
        /\ Len(q[s]) = Len(held[s])
        /\ \A j \in 1..Len(held[s]) : q[s][j].due = held[s][j].due
    BY FenceType
  <2>2. Resuming({t}, q, barrier) /\ timer' = timer
    BY <1>2, FenceResumes DEF FenceSignals
  <2> HIDE DEF q
  <2>3. Known(place, s) /\ \E j \in 1..Len(q[s]) : held'[s][i] = q[s][j]
    BY <2>2, CoversRest
  <2> QED
    BY <1>a, <2>1, <2>2, <2>3
<1>3. ASSUME TimerFires PROVE timer' # None /\ timer' <= d
  <2>1. timer' = Earliest(Pending(held', place')) /\ d \in Pending(held', place')
    BY <1>3, <1>b DEF TimerFires, Rescheduled, Pending
  <2>2. Pending(held', place') \in SUBSET Nat
    BY PendingType
  <2> HIDE DEF d
  <2>3. timer' \in Pending(held', place') /\ timer' <= d
    BY <2>1, <2>2, EarliestMin
  <2> QED
    BY <2>2, <2>3, NamesAssumption
<1>4. ASSUME NEW o \in Outputs, FrameFinish(o) \/ PowerOff(o) \/ Unplug(o)
      PROVE  timer' # None /\ timer' <= d
  <2>1. ReleaseFifo(o) /\ timer' = timer
    BY <1>4 DEF FrameFinish, PowerOff, Unplug
  <2>2. PICK S, set : Resuming(S, held, set)
    BY <2>1, ReleaseResumes
  <2>3. Known(place, s) /\ \E j \in 1..Len(held[s]) : held'[s][i] = held[s][j]
    BY <2>2, CoversRest
  <2> QED
    BY <1>a, <2>1, <2>3
<1>5. ASSUME Tick PROVE timer' # None /\ timer' <= d
  <2>1. i \in 1..Len(held[s]) /\ d = Less(held[s][i].due) /\ Known(place, s)
    BY <1>5, TickQueues DEF Tick, Known
  <2> DEFINE e == held[s][i].due
  <2>2. e \in Delays \cup {None}
    BY <1>0, <2>1
  <2>3. e # None /\ timer' = Less(timer)
    BY <1>5, <2>1, <2>2, LessType DEF Tick
  <2>4. timer # None /\ timer <= e /\ timer \in Delays \cup {None}
    BY <1>a, <2>1, <2>3 DEF TypeOK
  <2> HIDE DEF d, e
  <2>5. timer \in Nat /\ e \in Nat
    BY <2>2, <2>3, <2>4, BoundsAssumption DEF Delays
  <2>6. timer' = (IF timer = 0 THEN 0 ELSE timer - 1) /\ d = (IF e = 0 THEN 0 ELSE e - 1)
    BY <2>1, <2>2, <2>3, <2>4, LessType DEF e
  <2>7. timer' \in Nat /\ timer' <= d
    BY <2>4, <2>5, <2>6
  <2> QED
    BY <2>7, NamesAssumption DEF d
<1>6. ASSUME NEW t \in Surfaces, NEW o \in Outputs, NewLayer(t, o)
      PROVE  timer' # None /\ timer' <= d
  <2>1. t # s /\ place'[s] = place[s] /\ held' = held /\ timer' = timer
    BY <1>6 DEF NewLayer, TypeOK
  <2> QED
    BY <1>a, <2>1 DEF Known
<1>7. ASSUME NEW t \in Surfaces, Destroyed(t) PROVE timer' # None /\ timer' <= d
  <2>1. t # s /\ place'[s] = place[s] /\ held'[s] = held[s] /\ timer' = timer
    BY <1>7 DEF Destroyed, TypeOK, Known
  <2> QED
    BY <1>a, <2>1 DEF Known
<1>8. ASSUME NEW t \in Surfaces, NEW o \in Outputs, Relocated(t, o)
      PROVE  timer' # None /\ timer' <= d
  <2>1. t # s /\ place'[s] = place[s] /\ held' = held /\ timer' = timer
    BY <1>8 DEF Relocated, TypeOK
  <2> QED
    BY <1>a, <2>1 DEF Known
<1>9. ASSUME NEW o \in Outputs, NEW S \in SUBSET {w \in Surfaces : place[w] = "aside"}, Plug(o, S)
      PROVE  timer' # None /\ timer' <= d
  <2>1. place'[s] # place[s] => place[s] = "aside"
    BY <1>9 DEF Plug, TypeOK
  <2>2. Known(place, s) /\ held' = held /\ timer' = timer
    BY <1>9, <2>1 DEF Plug, Known
  <2> QED
    BY <1>a, <2>2
<1>10. ASSUME UNCHANGED <<place, held, timer>> PROVE timer' # None /\ timer' <= d
  BY <1>10, <1>a DEF Known
<1> QED
  BY <1>1, <1>2, <1>3, <1>4, <1>5, <1>6, <1>7, <1>8, <1>9, <1>10
     DEF Next, Render, PowerOn, Pause, Activate

\* One timer is never late for a commit of a layer, however many deadlines there are.
THEOREM TimerIsEnough == Spec => []TimerCovers
<1>1. Init => TimerCovers
  BY DEF Init, TimerCovers, Known
<1>2. TypeOK /\ TimerCovers /\ [Next]_vars => TimerCovers'
  BY CoversStep DEF vars, TimerCovers, Known
<1> QED
  BY <1>1, <1>2, CommitsTypeCorrect, PTL DEF Spec

-----------------------------------------------------------------------------
(* A barrier that is set has a flip to wait for.                           *)

\* A surface with a barrier, on an output that is on, applied a commit that damages the
\* output, or was there with its barrier before and was not released.
LEMMA FlipOrBefore ==
  ASSUME TypeOK, NEW S, NEW q, NEW set, Resuming(S, q, set),
         NEW s \in barrier' \ Quiet, NEW o \in Outputs, place'[s] = o, mode'[o] = "on"
  PROVE  o \in damage' \/ (s \in set /\ place[s] = o)
<1>1. q \in [Surfaces -> Seq(CommitType)] /\ set \in SUBSET Surfaces /\ Resume(S, q, set)
  BY DEF Resuming, TypeOK
<1>2. s \in Surfaces
  BY <1>1, ResumeTakes
<1>3. PICK n \in Nat, m \in Places : Took(s, S, q, set, n, m)
  BY <1>1, <1>2, ResumeTakes
<1>4. m = o
  BY <1>3, NamesAssumption DEF Took, Stays
<1>5. CASE n > 0
  BY <1>3, <1>4, <1>5 DEF Took
<1>6. CASE n = 0
  <2>1. place[s] = o
    BY <1>3, <1>4, <1>6 DEF Took
  <2>2. ~ \E i \in 1..n : q[s][i].fifo
    BY <1>6
  <2> QED
    BY <1>3, <2>1, <2>2 DEF Took
<1> QED
  BY <1>5, <1>6

LEMMA FlipStep ==
  ASSUME TypeOK, BarrierHasFlip, Next
  PROVE  BarrierHasFlip'
<1> SUFFICES ASSUME NEW s \in barrier' \ Quiet, NEW o \in Outputs,
                    place'[s] = o, mode'[o] = "on", ~paused'
             PROVE  o \in damage' \cup flight'
  BY DEF BarrierHasFlip
<1>a. s \in barrier /\ place[s] = o /\ mode[o] = "on" /\ ~paused => o \in damage \cup flight
  BY DEF BarrierHasFlip
<1>1. ASSUME NEW S, NEW q, NEW set, Resuming(S, q, set), UNCHANGED <<mode, flight, paused>>
      PROVE  o \in damage' \cup flight'
  <2>1. o \in damage' \/ (s \in set /\ place[s] = o)
    BY <1>1, FlipOrBefore
  <2>2. \A e \in damage : mode'[e] # "gone" => e \in damage'
    BY <1>1, ResumeTakes DEF Resuming, TypeOK
  <2>3. set \subseteq barrier
    BY <1>1 DEF Resuming
  <2> QED
    BY <1>a, <1>1, <2>1, <2>2, <2>3
<1>2. ASSUME NEW f \in Outputs, FrameFinish(f) \/ PowerOff(f) \/ Unplug(f)
      PROVE  o \in damage' \cup flight'
  <2> DEFINE here == {t \in barrier : place[t] = f}
  <2>1. Resuming(here, held, barrier \ here)
    BY <1>2, ReleaseResumes DEF FrameFinish, PowerOff, Unplug
  <2>2. o \in damage' \/ (s \in barrier /\ place[s] = o /\ o # f)
    BY <2>1, FlipOrBefore
  <2>3. \A e \in damage : mode'[e] # "gone" => e \in damage'
    <3> HIDE DEF here
    <3> QED
      BY <2>1, ResumeTakes DEF Resuming, TypeOK
  <2>4. flight' = flight \ {f} /\ paused' = paused /\ (o # f => mode'[o] = mode[o])
    BY <1>2 DEF FrameFinish, PowerOff, Unplug, TypeOK
  <2> QED
    BY <1>a, <2>2, <2>3, <2>4
<1>3. ASSUME NEW t \in Surfaces, NEW e \in Outputs, NewLayer(t, e) PROVE o \in damage' \cup flight'
  <2>1. s # t /\ place'[s] = place[s]
    BY <1>3 DEF NewLayer, TypeOK
  <2> QED
    BY <1>a, <1>3, <2>1 DEF NewLayer
<1>4. ASSUME NEW t \in Surfaces, NEW e \in Outputs, Relocated(t, e) PROVE o \in damage' \cup flight'
  BY <1>a, <1>4 DEF Relocated, TypeOK
<1>5. ASSUME NEW t \in Surfaces, Destroyed(t) PROVE o \in damage' \cup flight'
  BY <1>a, <1>5 DEF Destroyed, TypeOK
<1>6. ASSUME Tick PROVE o \in damage' \cup flight'
  BY <1>a, <1>6 DEF Tick
<1>7. ASSUME NEW e \in Outputs, Render(e) PROVE o \in damage' \cup flight'
  BY <1>a, <1>7 DEF Render
<1>8. ASSUME NEW e \in Outputs, PowerOn(e) PROVE o \in damage' \cup flight'
  BY <1>a, <1>8 DEF PowerOn, TypeOK
<1>9. ASSUME NEW e \in Outputs, NEW S, Plug(e, S) PROVE o \in damage' \cup flight'
  BY <1>a, <1>9 DEF Plug, TypeOK
<1>10. ASSUME Pause \/ Activate PROVE o \in damage' \cup flight'
  BY <1>10 DEF Pause, Activate
<1>11. ASSUME TimerFires \/ \E t \in Surfaces : \/ \E c \in CommitType : Commit(t, c)
                                              \/ \E i \in 1..Len(held[t]) : FenceSignals(t, i)
       PROVE  o \in damage' \cup flight'
  <2>1. \E S, q, set : Resuming(S, q, set)
    BY <1>11, Resumes
  <2>2. UNCHANGED <<mode, flight, paused>>
    BY <1>11 DEF TimerFires, Commit, FenceSignals
  <2> QED
    BY <1>1, <2>1, <2>2
<1> QED
  BY <1>2, <1>3, <1>4, <1>5, <1>6, <1>7, <1>8, <1>9, <1>10, <1>11 DEF Next

\* Blanking, unplugging and a VT switch never strand a fifo barrier on a live output.
THEOREM BarriersAreReleased == Spec => []BarrierHasFlip
<1>1. Init => BarrierHasFlip
  BY DEF Init, BarrierHasFlip
<1>2. TypeOK /\ BarrierHasFlip /\ [Next]_vars => BarrierHasFlip'
  BY FlipStep DEF vars, BarrierHasFlip
<1> QED
  BY <1>1, <1>2, CommitsTypeCorrect, PTL DEF Spec
=============================================================================
