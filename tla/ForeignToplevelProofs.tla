------------------------ MODULE ForeignToplevelProofs ------------------------
(***************************************************************************)
(* Proofs about ForeignToplevel for any windows, taskbars and infos: the    *)
(* type invariant, and that what taskbars were told agrees with what the   *)
(* compositor believes it told them, parents included.                     *)
(***************************************************************************)
EXTENDS ForeignToplevel, TLAPS

\* A window the compositor has not announced has no handle.
UnknownHasNoHandle ==
  \A w \in Windows : ~announced[w].known => announced[w].handles = {}

AllViews == [Managers -> [Windows -> Views]]
AllAnnouncements == [Windows -> Announcements]

-----------------------------------------------------------------------------
(* The events.                                                             *)

\* send_parent_to changes a handle's parent and nothing else.
LEMMA SendParentEffect ==
  ASSUME NEW vw \in AllViews, NEW ann \in AllAnnouncements, NEW w \in Windows
  PROVE  /\ SendParent(vw, ann, w) \in AllViews
         /\ \A m \in Managers : LET was == vw[m][w] now == SendParent(vw, ann, w)[m][w] IN
              /\ now.handle = was.handle /\ now.info = was.info
              /\ m \in ann[w].handles /\ ann[w].parent # None
                   => now.parent = IF m \in ann[ann[w].parent].handles
                                   THEN ann[w].parent ELSE None
              /\ ~(m \in ann[w].handles /\ ann[w].parent # None) => now = was
<1>1. ASSUME NEW m \in Managers
      PROVE  SendParent(vw, ann, w)[m] \in [Windows -> Views]
  BY <1>1 DEF SendParent, AllViews, AllAnnouncements, Announcements, Views
<1>2. SendParent(vw, ann, w) \in AllViews
  BY <1>1 DEF SendParent, AllViews
<1>3. ASSUME NEW m \in Managers
      PROVE  LET was == vw[m][w] now == SendParent(vw, ann, w)[m][w] IN
              /\ now.handle = was.handle /\ now.info = was.info
              /\ m \in ann[w].handles /\ ann[w].parent # None
                   => now.parent = IF m \in ann[ann[w].parent].handles
                                   THEN ann[w].parent ELSE None
              /\ ~(m \in ann[w].handles /\ ann[w].parent # None) => now = was
  BY <1>3 DEF SendParent, AllViews, AllAnnouncements, Announcements, Views
<1> QED BY <1>2, <1>3

Sent(ann, targets) == targets \cup {c \in Known(ann) : ann[c].parent \in targets}

\* send_wlr_parent on a set of windows: the same, on those and their children.
LEMMA SendParentsEffect ==
  ASSUME NEW vw \in AllViews, NEW ann \in AllAnnouncements, NEW targets \in SUBSET Windows
  PROVE  /\ SendParents(vw, ann, targets) \in AllViews
         /\ \A m \in Managers, w \in Windows :
              LET was == vw[m][w] now == SendParents(vw, ann, targets)[m][w] IN
              /\ now.handle = was.handle /\ now.info = was.info
              /\ w \in Sent(ann, targets) /\ m \in ann[w].handles /\ ann[w].parent # None
                   => now.parent = IF m \in ann[ann[w].parent].handles
                                   THEN ann[w].parent ELSE None
              /\ ~(w \in Sent(ann, targets) /\ m \in ann[w].handles /\ ann[w].parent # None)
                   => now = was
<1>1. ASSUME NEW m \in Managers, NEW w \in Windows
      PROVE  /\ SendParents(vw, ann, targets)[m][w]
                  = IF w \in Sent(ann, targets) THEN SendParent(vw, ann, w)[m][w]
                    ELSE vw[m][w]
             /\ SendParents(vw, ann, targets)[m][w] \in Views
  BY <1>1, SendParentEffect DEF SendParents, Sent, AllViews
<1>2. SendParents(vw, ann, targets) \in AllViews
  BY <1>1 DEF SendParents, AllViews
<1> QED BY <1>1, <1>2, SendParentEffect

\* The children of a window that is told anew are told too.
LEMMA FollowersClosed ==
  ASSUME NEW ann, NEW targets \in SUBSET Windows
  PROVE  /\ targets \subseteq Followers(ann, targets)
         /\ Followers(ann, targets) \subseteq Windows
         /\ \A c \in Known(ann) : ann[c].parent \in targets => c \in Followers(ann, targets)
  BY DEF Followers, Known

-----------------------------------------------------------------------------
(* The type invariant.                                                     *)

LEMMA RefreshTypes ==
  ASSUME TypeOK, Refresh
  PROVE  /\ announced' \in AllAnnouncements
         /\ view' \in AllViews
<1> DEFINE ann == [w \in Windows |-> IF w \in Seen THEN Announce(w) ELSE Unannounced]
           told == [m \in Managers |-> [w \in Windows |->
                CASE m \in ann[w].handles ->
                       [handle |-> "live", info |-> ann[w].info, parent |-> view[m][w].parent]
                  [] m \in announced[w].handles /\ w \notin Seen ->
                       [view[m][w] EXCEPT !.handle = "closed"]
                  [] OTHER -> view[m][w]]]
<1>1. ann \in AllAnnouncements
  <2>1. \A w \in Windows : Announce(w) \in Announcements
    BY DEF TypeOK, Announce, Announcements, Toplevels
  <2>2. Windows # {} => Unannounced \in Announcements
    BY DEF TypeOK, Toplevels, Unannounced, Announcements, AnyInfo
  <2> QED BY <2>1, <2>2 DEF AllAnnouncements
<1>2. told \in AllViews
  <2> SUFFICES ASSUME NEW m \in Managers, NEW w \in Windows
               PROVE  told[m][w] \in Views
    BY DEF AllViews
  <2>1. view[m][w] \in Views /\ ann[w].info \in Infos
    BY <1>1 DEF TypeOK, AllAnnouncements, Announcements
  <2> QED BY <2>1 DEF Views
<1>3. Followers(ann, ParentTargets) \in SUBSET Windows
  BY DEF Followers
<1>4. announced' = ann /\ view' = SendParents(told, ann, Followers(ann, ParentTargets))
  BY DEF Refresh
<1> HIDE DEF ann, told
<1> QED BY <1>1, <1>2, <1>3, <1>4, SendParentsEffect

LEMMA BindTypes ==
  ASSUME TypeOK, NEW m \in Managers, Bind(m)
  PROVE  /\ announced' \in AllAnnouncements
         /\ view' \in AllViews
<1> DEFINE ann  == [w \in Windows |-> IF announced[w].known
                     THEN [announced[w] EXCEPT !.handles = @ \cup {m}] ELSE announced[w]]
           told == [view EXCEPT ![m] = [w \in Windows |-> IF announced[w].known
                     THEN NewHandle(w) ELSE NoView]]
<1>1. ann \in AllAnnouncements
  BY DEF TypeOK, AllAnnouncements, Announcements
<1>2. told \in AllViews
  BY DEF TypeOK, AllViews, Views, Announcements, NewHandle, NoView, AnyInfo
<1>3. announced' = ann /\ view' = SendParents(told, ann, Known(ann))
  BY DEF Bind, BoundParents
<1> HIDE DEF ann, told
<1> QED BY <1>1, <1>2, <1>3, SendParentsEffect DEF Known

\* Every state has its type, for any windows, taskbars and infos.
THEOREM ForeignTypeCorrect == Spec => []TypeOK
<1>1. Init => TypeOK
  BY InfosAssumption DEF Init, TypeOK, NoToplevel, Unannounced, NoView, AnyInfo,
     Toplevels, Announcements, Views
<1>2. TypeOK /\ [Next]_vars => TypeOK'
  <2> SUFFICES ASSUME TypeOK, [Next]_vars PROVE TypeOK'
    OBVIOUS
  <2> USE DEF TypeOK
  <2>1. ASSUME NEW w \in Windows, NewToplevel(w) PROVE TypeOK'
    BY <2>1 DEF NewToplevel, Toplevels
  <2>2. ASSUME NEW w \in Windows, Commit(w) PROVE TypeOK'
    BY <2>2 DEF Commit, Toplevels
  <2>3. ASSUME NEW w \in Windows, NEW i \in Infos, InfoChanged(w, i) PROVE TypeOK'
    BY <2>3 DEF InfoChanged, Toplevels
  <2>4. ASSUME NEW w \in Windows, NEW p \in Windows \cup {None}, ParentChanged(w, p)
        PROVE  TypeOK'
    BY <2>4 DEF ParentChanged, Toplevels
  <2>5. ASSUME NEW w \in Windows, ToplevelDestroyed(w) PROVE TypeOK'
    BY <2>5, InfosAssumption DEF ToplevelDestroyed, Toplevels, NoToplevel, AnyInfo
  <2>6. CASE Refresh
    BY <2>6, RefreshTypes DEF Refresh, AllAnnouncements, AllViews
  <2>7. ASSUME NEW m \in Managers, Bind(m) PROVE TypeOK'
    BY <2>7, BindTypes DEF Bind, AllAnnouncements, AllViews
  <2>8. ASSUME NEW m \in Managers, Stop(m) PROVE TypeOK'
    BY <2>8 DEF Stop
  <2>9. ASSUME NEW m \in Managers, NEW w \in Windows, HandleDestroyed(m, w) PROVE TypeOK'
    BY <2>9, InfosAssumption DEF HandleDestroyed, Announcements, Views, NoView, AnyInfo
  <2>10. CASE UNCHANGED vars
    BY <2>10 DEF vars
  <2> QED BY <2>1, <2>2, <2>3, <2>4, <2>5, <2>6, <2>7, <2>8, <2>9, <2>10 DEF Next
<1> QED BY <1>1, <1>2, PTL DEF Spec

-----------------------------------------------------------------------------
(* What taskbars were told.                                                *)

Inv == /\ TypeOK
       /\ ToldIsAnnounced
       /\ UnknownHasNoHandle
       /\ ParentIsTold

\* A new window's handles are live, a lost window's are closed, the others' told the
\* news; then the parents of the windows that need it.
LEMMA RefreshKeeps ==
  ASSUME Inv, Refresh
  PROVE  ToldIsAnnounced' /\ UnknownHasNoHandle' /\ ParentIsTold'
<1> DEFINE ann == [w \in Windows |-> IF w \in Seen THEN Announce(w) ELSE Unannounced]
           told == [m \in Managers |-> [w \in Windows |->
                CASE m \in ann[w].handles ->
                       [handle |-> "live", info |-> ann[w].info, parent |-> view[m][w].parent]
                  [] m \in announced[w].handles /\ w \notin Seen ->
                       [view[m][w] EXCEPT !.handle = "closed"]
                  [] OTHER -> view[m][w]]]
           targets == Followers(ann, ParentTargets)
<1>1. ann \in AllAnnouncements
  <2>1. \A w \in Windows : Announce(w) \in Announcements
    BY DEF Inv, TypeOK, Announce, Announcements, Toplevels
  <2>2. Unannounced \in Announcements
    BY InfosAssumption DEF Unannounced, Announcements, AnyInfo
  <2> QED BY <2>1, <2>2 DEF AllAnnouncements
<1>2. told \in AllViews
  <2> SUFFICES ASSUME NEW m \in Managers, NEW w \in Windows
               PROVE  told[m][w] \in Views
    BY DEF AllViews
  <2>1. view[m][w] \in Views /\ ann[w].info \in Infos
    BY <1>1 DEF Inv, TypeOK, AllAnnouncements, Announcements
  <2> QED BY <2>1 DEF Views
<1>3. targets \in SUBSET Windows
  BY DEF Followers
<1>4. announced' = ann /\ view' = SendParents(told, ann, targets)
  BY DEF Refresh
<1>5. ASSUME NEW w \in Windows
      PROVE  /\ w \in Seen => /\ ann[w].known
                              /\ ann[w].parent = toplevels[w].parent
                              /\ announced[w].known => ann[w].handles = announced[w].handles
                              /\ ~announced[w].known => ann[w].handles = managers
             /\ w \notin Seen => ~ann[w].known /\ ann[w].handles = {}
  BY <1>5 DEF Announce, Unannounced
<1> HIDE DEF ann, told
<1>6. ASSUME NEW m \in Managers, NEW w \in Windows
      PROVE  /\ told[m][w].handle = "live" <=> m \in ann[w].handles
             /\ told[m][w].handle = "live" => told[m][w].info = ann[w].info
             /\ told[m][w].parent = view[m][w].parent
  <2>1. view[m][w] \in Views /\ (view[m][w].handle = "live" <=> m \in announced[w].handles)
    BY DEF Inv, TypeOK, ToldIsAnnounced
  <2>2. CASE m \in ann[w].handles
    <3>1. told[m][w] = [handle |-> "live", info |-> ann[w].info,
                        parent |-> view[m][w].parent]
      BY <2>2, <1>5 DEF told
    <3> QED BY <2>2, <3>1
  <2>3. CASE m \notin ann[w].handles /\ m \in announced[w].handles /\ w \notin Seen
    <3>1. told[m][w] = [view[m][w] EXCEPT !.handle = "closed"]
      BY <2>3 DEF told
    <3> QED BY <2>1, <2>3, <3>1 DEF Views
  <2>4. CASE m \notin ann[w].handles /\ ~(m \in announced[w].handles /\ w \notin Seen)
    <3>1. told[m][w] = view[m][w]
      BY <2>4 DEF told
    <3>2. m \notin announced[w].handles
      BY <2>4, <1>5 DEF Inv, UnknownHasNoHandle
    <3> QED BY <2>1, <2>4, <3>1, <3>2
  <2> QED BY <2>2, <2>3, <2>4
<1>7. ParentTargets \subseteq targets
  BY FollowersClosed DEF ParentTargets, Seen
<1>8. ASSUME NEW c \in Windows, ann[c].known, ann[c].parent \in ParentTargets
      PROVE  c \in targets
  BY <1>8, FollowersClosed DEF Known, ParentTargets, Seen
<1> HIDE DEF targets
<1>9. ToldIsAnnounced'
  BY <1>1, <1>2, <1>3, <1>4, <1>6, SendParentsEffect DEF ToldIsAnnounced
<1>10. UnknownHasNoHandle'
  BY <1>4, <1>5 DEF UnknownHasNoHandle
<1>11. ParentIsTold'
  <2> SUFFICES ASSUME NEW m \in Managers, NEW w \in Windows, NEW p \in Windows,
                      p = ann[w].parent, p # None, m \in ann[w].handles, m \in ann[p].handles
               PROVE  view'[m][w].parent = p
    BY <1>1, <1>4 DEF ParentIsTold, AllAnnouncements, Announcements
  <2>1. w \in Seen /\ p \in Seen /\ ann[w].known
    BY <1>5
  <2>2. CASE w \in Sent(ann, targets)
    BY <2>2, <1>1, <1>2, <1>3, <1>4, SendParentsEffect
  <2>3. CASE w \notin Sent(ann, targets)
    <3>1. w \notin ParentTargets /\ p \notin ParentTargets
      BY <2>1, <2>3, <1>7, <1>8 DEF Sent
    <3>2. /\ announced[w].known /\ announced[p].known
          /\ announced[w].parent = p
      BY <2>1, <3>1, <1>5 DEF ParentTargets
    <3>3. view[m][w].parent = p
      BY <2>1, <3>2, <1>5 DEF Inv, ParentIsTold
    <3> QED BY <2>3, <3>3, <1>1, <1>2, <1>3, <1>4, <1>6, SendParentsEffect
  <2> QED BY <2>2, <2>3
<1> QED BY <1>9, <1>10, <1>11

\* A new manager gets a live handle for each announced window and no other; every
\* window's parent is sent again.
LEMMA BindKeeps ==
  ASSUME Inv, NEW m \in Managers, Bind(m)
  PROVE  ToldIsAnnounced' /\ UnknownHasNoHandle' /\ ParentIsTold'
<1> DEFINE ann  == [w \in Windows |-> IF announced[w].known
                     THEN [announced[w] EXCEPT !.handles = @ \cup {m}] ELSE announced[w]]
           told == [view EXCEPT ![m] = [w \in Windows |-> IF announced[w].known
                     THEN NewHandle(w) ELSE NoView]]
<1>1. ann \in AllAnnouncements
  BY DEF Inv, TypeOK, AllAnnouncements, Announcements
<1>2. told \in AllViews
  BY InfosAssumption DEF Inv, TypeOK, AllViews, Views, Announcements, NewHandle, NoView,
     AnyInfo
<1>3. announced' = ann /\ view' = SendParents(told, ann, Known(ann))
  BY DEF Bind, BoundParents
<1>4. ASSUME NEW w \in Windows
      PROVE  /\ ann[w].known = announced[w].known
             /\ ann[w].info = announced[w].info
             /\ ann[w].handles = announced[w].handles \cup
                                   IF announced[w].known THEN {m} ELSE {}
  BY <1>4 DEF Inv, TypeOK, Announcements
<1>5. ASSUME NEW n \in Managers, NEW w \in Windows
      PROVE  /\ n # m => told[n][w] = view[n][w]
             /\ told[m][w].handle = "live" <=> announced[w].known
             /\ told[m][w].handle = "live" => told[m][w].info = announced[w].info
  BY <1>5 DEF Inv, TypeOK, NewHandle, NoView
<1> HIDE DEF ann, told
<1>6. Known(ann) \in SUBSET Windows
  BY DEF Known
<1>7. ToldIsAnnounced'
  <2> SUFFICES ASSUME NEW n \in Managers, NEW w \in Windows
               PROVE  /\ view'[n][w].handle = "live" <=> n \in ann[w].handles
                      /\ view'[n][w].handle = "live" => view'[n][w].info = ann[w].info
    BY <1>3 DEF ToldIsAnnounced
  <2>1. /\ view'[n][w].handle = told[n][w].handle
        /\ view'[n][w].info = told[n][w].info
    BY <1>1, <1>2, <1>3, <1>6, SendParentsEffect
  <2>2. /\ view[n][w].handle = "live" <=> n \in announced[w].handles
        /\ view[n][w].handle = "live" => view[n][w].info = announced[w].info
    BY DEF Inv, ToldIsAnnounced
  <2>3. ~announced[w].known => n \notin announced[w].handles
    BY DEF Inv, UnknownHasNoHandle
  <2>4. CASE n = m
    BY <2>1, <2>3, <2>4, <1>4, <1>5
  <2>5. CASE n # m
    BY <2>1, <2>2, <2>5, <1>4, <1>5
  <2> QED BY <2>4, <2>5
<1>8. UnknownHasNoHandle'
  BY <1>3, <1>4 DEF Inv, UnknownHasNoHandle
<1>9. ParentIsTold'
  <2> SUFFICES ASSUME NEW n \in Managers, NEW w \in Windows, NEW p \in Windows,
                      p = ann[w].parent, p # None, n \in ann[w].handles, n \in ann[p].handles
               PROVE  view'[n][w].parent = p
    BY <1>1, <1>3 DEF ParentIsTold, AllAnnouncements, Announcements
  <2>1. ann[w].known
    BY <1>4 DEF Inv, UnknownHasNoHandle
  <2>2. w \in Sent(ann, Known(ann))
    BY <2>1 DEF Sent, Known
  <2> QED BY <2>2, <1>1, <1>2, <1>3, <1>6, SendParentsEffect
<1> QED BY <1>7, <1>8, <1>9

\* What a client was told is what the compositor believes it told it, for any windows
\* and taskbars.
LEMMA InvHolds == Spec => []Inv
<1>1. Init => Inv
  <2> SUFFICES ASSUME Init PROVE Inv
    OBVIOUS
  <2>1. TypeOK
    BY InfosAssumption DEF Init, TypeOK, NoToplevel, Unannounced, NoView, AnyInfo,
       Toplevels, Announcements, Views
  <2> QED BY <2>1 DEF Init, Inv, ToldIsAnnounced, UnknownHasNoHandle, ParentIsTold,
             Unannounced, NoView
<1>2. TypeOK' /\ Inv /\ [Next]_vars => Inv'
  <2> SUFFICES ASSUME TypeOK', Inv, [Next]_vars
               PROVE  ToldIsAnnounced' /\ UnknownHasNoHandle' /\ ParentIsTold'
    BY DEF Inv
  <2> DEFINE Goal == ToldIsAnnounced' /\ UnknownHasNoHandle' /\ ParentIsTold'
  <2>1. ASSUME UNCHANGED <<announced, view>> PROVE Goal
    BY <2>1 DEF Inv, ToldIsAnnounced, UnknownHasNoHandle, ParentIsTold
  <2>2. ASSUME NEW w \in Windows, NewToplevel(w) PROVE Goal
    BY <2>1, <2>2 DEF NewToplevel
  <2>3. ASSUME NEW w \in Windows, Commit(w) PROVE Goal
    BY <2>1, <2>3 DEF Commit
  <2>4. ASSUME NEW w \in Windows, NEW i \in Infos, InfoChanged(w, i) PROVE Goal
    BY <2>1, <2>4 DEF InfoChanged
  <2>5. ASSUME NEW w \in Windows, NEW p \in Windows \cup {None}, ParentChanged(w, p)
        PROVE  Goal
    BY <2>1, <2>5 DEF ParentChanged
  <2>6. ASSUME NEW w \in Windows, ToplevelDestroyed(w) PROVE Goal
    BY <2>1, <2>6 DEF ToplevelDestroyed
  <2>7. CASE Refresh
    BY <2>7, RefreshKeeps
  <2>8. ASSUME NEW m \in Managers, Bind(m) PROVE Goal
    BY <2>8, BindKeeps
  <2>9. ASSUME NEW m \in Managers, Stop(m) PROVE Goal
    BY <2>1, <2>9 DEF Stop
  <2>10. ASSUME NEW m \in Managers, NEW w \in Windows, HandleDestroyed(m, w) PROVE Goal
    <3>1. /\ announced' \in [Windows -> Announcements] /\ view' \in [Managers -> [Windows -> Views]]
          /\ announced \in [Windows -> Announcements] /\ view \in [Managers -> [Windows -> Views]]
      BY DEF Inv, TypeOK
    <3>2. \A v \in Windows :
             /\ announced'[v].known = announced[v].known
             /\ announced'[v].info = announced[v].info
             /\ announced'[v].parent = announced[v].parent
             /\ announced'[v].handles = IF v = w THEN announced[v].handles \ {m}
                                        ELSE announced[v].handles
      BY <2>10, <3>1 DEF HandleDestroyed, Announcements
    <3>3. \A n \in Managers, v \in Windows :
             view'[n][v] = IF n = m /\ v = w THEN NoView ELSE view[n][v]
      BY <2>10, <3>1 DEF HandleDestroyed
    <3>4. NoView.handle = "none"
      BY DEF NoView
    <3>5. ToldIsAnnounced'
      <4> SUFFICES ASSUME NEW n \in Managers, NEW v \in Windows
                   PROVE  /\ view'[n][v].handle = "live" <=> n \in announced'[v].handles
                          /\ view'[n][v].handle = "live" =>
                               view'[n][v].info = announced'[v].info
        BY DEF ToldIsAnnounced
      <4>1. /\ view[n][v].handle = "live" <=> n \in announced[v].handles
            /\ view[n][v].handle = "live" => view[n][v].info = announced[v].info
        BY DEF Inv, ToldIsAnnounced
      <4>2. CASE n = m /\ v = w
        BY <4>2, <3>2, <3>3, <3>4
      <4>3. CASE ~(n = m /\ v = w)
        <5>1. view'[n][v] = view[n][v]
          BY <4>3, <3>3
        <5>2. n \in announced'[v].handles <=> n \in announced[v].handles
          BY <4>3, <3>2
        <5> QED BY <4>1, <5>1, <5>2, <3>2
      <4> QED BY <4>2, <4>3
    <3>6. UnknownHasNoHandle'
      BY <3>2 DEF Inv, UnknownHasNoHandle
    <3>7. ParentIsTold'
      <4> SUFFICES ASSUME NEW n \in Managers, NEW v \in Windows, NEW p \in Windows,
                          p = announced'[v].parent, p # None,
                          n \in announced'[v].handles, n \in announced'[p].handles
                   PROVE  view'[n][v].parent = p
        BY <3>1 DEF ParentIsTold, Announcements
      <4>1. ~(n = m /\ v = w) /\ n \in announced[v].handles /\ n \in announced[p].handles
        BY <3>2
      <4>2. announced[v].parent = p
        BY <3>2
      <4>3. view[n][v].parent = p
        BY <4>1, <4>2 DEF Inv, ParentIsTold
      <4>4. view'[n][v] = view[n][v]
        BY <4>1, <3>3
      <4> QED BY <4>3, <4>4
    <3> QED BY <3>5, <3>6, <3>7
  <2>11. CASE UNCHANGED vars
    BY <2>1, <2>11 DEF vars
  <2> QED BY <2>2, <2>3, <2>4, <2>5, <2>6, <2>7, <2>8, <2>9, <2>10, <2>11 DEF Next
<1> QED BY <1>1, <1>2, ForeignTypeCorrect, PTL DEF Spec

\* A client's handle is live exactly while the compositor keeps it and says what was
\* announced last, however bind, stop, destroy, close and refresh interleave.
THEOREM ToldIsTrue == Spec => []ToldIsAnnounced
<1>1. Inv => ToldIsAnnounced
  BY DEF Inv
<1> QED BY <1>1, InvHolds, PTL

\* A taskbar with handles for a window and for its parent knows the parent, for any
\* tree of dialogs and in whatever order they appear.
THEOREM ParentsAreTold == Spec => []ParentIsTold
<1>1. Inv => ParentIsTold
  BY DEF Inv
<1> QED BY <1>1, InvHolds, PTL
=============================================================================
