--------------------------- MODULE ForeignToplevel ---------------------------
(***************************************************************************)
(* wlr-foreign-toplevel-management (handlers/foreign_toplevel.rs): taskbar *)
(* clients follow the windows through handles.  The compositor keeps what  *)
(* it announced last (announced) and reconciles it with the windows once a *)
(* turn of the event loop; a client knows only the events its handles got  *)
(* (view).  Clients bind, stop and drop handles between reconciliations.   *)
(***************************************************************************)
EXTENDS FiniteSets

CONSTANTS
  Windows,   \* the toplevel surfaces clients can create
  Managers,  \* taskbars, each a client with one manager object at a time
  Infos,     \* values of title, app_id, states and output together
  None       \* no window

ASSUME NoneAssumption == None \notin Windows
ASSUME InfosAssumption == Infos # {}

VARIABLES
  toplevels,  \* State.toplevels as this module reads it
  announced,  \* ForeignToplevelManagerState.toplevels
  managers,   \* ForeignToplevelManagerState.wlr_management_instances
  view        \* what each client was told of each window

vars == <<toplevels, announced, managers, view>>

\* created: no commit yet, so has_buffer is false.
Toplevels == [stage : {"none", "created", "committed"}, info : Infos,
              parent : Windows \cup {None}]

\* ToplevelData; a handle is named by its manager.
Announcements == [known : BOOLEAN, info : Infos, parent : Windows \cup {None},
                  handles : SUBSET Managers]

\* none: no handle object.  A closed handle stays until the client destroys it.
Views == [handle : {"none", "live", "closed"}, info : Infos, parent : Windows \cup {None}]

TypeOK == /\ toplevels \in [Windows -> Toplevels]
          /\ announced \in [Windows -> Announcements]
          /\ managers \subseteq Managers
          /\ view \in [Managers -> [Windows -> Views]]

AnyInfo == CHOOSE i \in Infos : TRUE

NoToplevel   == [stage |-> "none", info |-> AnyInfo, parent |-> None]
Unannounced  == [known |-> FALSE, info |-> AnyInfo, parent |-> None, handles |-> {}]
NoView       == [handle |-> "none", info |-> AnyInfo, parent |-> None]

Init == /\ toplevels = [w \in Windows |-> NoToplevel]
        /\ announced = [w \in Windows |-> Unannounced]
        /\ managers = {}
        /\ view = [m \in Managers |-> [w \in Windows |-> NoView]]

Known(ann) == {w \in Windows : ann[w].known}

-----------------------------------------------------------------------------
(* The event emitters.  vw is a view, ann the announcements.               *)

\* send_parent_to on every handle of w: the parent's handle in the same client, or
\* null while there is none.  A window without a parent sends nothing.
SendParent(vw, ann, w) ==
  [m \in Managers |-> IF m \in ann[w].handles /\ ann[w].parent # None
     THEN [vw[m] EXCEPT ![w].parent =
             IF m \in ann[ann[w].parent].handles THEN ann[w].parent ELSE None]
     ELSE vw[m]]

\* send_wlr_parent for each window of targets and its announced children.
SendParents(vw, ann, targets) ==
  LET sent == targets \cup {c \in Known(ann) : ann[c].parent \in targets}
  IN  [m \in Managers |-> [w \in Windows |->
         IF w \in sent THEN SendParent(vw, ann, w)[m][w] ELSE vw[m][w]]]

\* targets and the announced windows below them: the least set with both.
Followers(ann, targets) ==
  {w \in Windows : \A S \in SUBSET Windows :
     /\ targets \subseteq S
     /\ \A c \in Known(ann) : ann[c].parent \in S => c \in S
     => w \in S}

-----------------------------------------------------------------------------
(* The windows.                                                            *)

\* A surface no handle and no window refers to any more.
NewToplevel(w) ==
  /\ toplevels[w].stage = "none" /\ ~announced[w].known
  /\ \A c \in Windows : toplevels[c].parent # w /\ announced[c].parent # w
  /\ \A m \in Managers : view[m][w].handle = "none" /\ \A c \in Windows : view[m][c].parent # w
  /\ toplevels' = [toplevels EXCEPT ![w].stage = "created"]
  /\ UNCHANGED <<announced, managers, view>>

Commit(w) ==
  /\ toplevels[w].stage = "created"
  /\ toplevels' = [toplevels EXCEPT ![w].stage = "committed"]
  /\ UNCHANGED <<announced, managers, view>>

\* Title, app_id, mode, focus or output change.
InfoChanged(w, i) ==
  /\ toplevels[w].stage # "none"
  /\ toplevels' = [toplevels EXCEPT ![w].info = i]
  /\ UNCHANGED <<announced, managers, view>>

Ancestors(w) ==
  {a \in Windows : \A S \in SUBSET Windows :
     w \in S /\ (\A c \in S : toplevels[c].parent \in S \cup {None}) => a \in S}

\* set_parent, which smithay refuses if the parents would form a ring.
ParentChanged(w, p) ==
  /\ toplevels[w].stage # "none"
  /\ p # None => toplevels[p].stage # "none" /\ w \notin Ancestors(p)
  /\ toplevels' = [toplevels EXCEPT ![w].parent = p]
  /\ UNCHANGED <<announced, managers, view>>

\* Mutant: the entry of a destroyed toplevel stays in the table, marked closed.
DestroyedStaysInTable(w) ==
  /\ toplevels[w].stage # "none"
  /\ toplevels' = [toplevels EXCEPT ![w].stage = "closed"]
  /\ UNCHANGED <<announced, managers, view>>

ToplevelDestroyed(w) ==
  /\ toplevels[w].stage # "none"
  /\ toplevels' = [toplevels EXCEPT ![w] = NoToplevel]
  /\ UNCHANGED <<announced, managers, view>>

-----------------------------------------------------------------------------
(* foreign_toplevel_refresh.                                               *)

Seen == {w \in Windows : toplevels[w].stage = "committed"}

\* Mutants of the reconciliation: a window is announced to nobody; a new window
\* does not tell its children.
AnnounceToNobody(w) ==
  [known |-> TRUE, info |-> toplevels[w].info, parent |-> toplevels[w].parent,
   handles |-> announced[w].handles]
TargetsWithoutNew ==
  {w \in Seen : announced[w].known /\ announced[w].parent # toplevels[w].parent}

\* apply_one: the entry of a window that is seen.
Announce(w) ==
  [known |-> TRUE, info |-> toplevels[w].info, parent |-> toplevels[w].parent,
   handles |-> IF announced[w].known THEN announced[w].handles ELSE managers]

\* The windows whose parent event is due: new ones and those with a new parent.
ParentTargets ==
  {w \in Seen : ~announced[w].known \/ announced[w].parent # toplevels[w].parent}

Refresh ==
  LET ann == [w \in Windows |-> IF w \in Seen THEN Announce(w) ELSE Unannounced]
      told == [m \in Managers |-> [w \in Windows |->
                CASE m \in ann[w].handles ->
                       [handle |-> "live", info |-> ann[w].info, parent |-> view[m][w].parent]
                  [] m \in announced[w].handles /\ w \notin Seen ->
                       [view[m][w] EXCEPT !.handle = "closed"]
                  [] OTHER -> view[m][w]]]
  IN  /\ announced' = ann
      /\ view' = SendParents(told, ann, Followers(ann, ParentTargets))
      /\ UNCHANGED <<toplevels, managers>>

-----------------------------------------------------------------------------
(* The taskbars.                                                           *)

\* Mutant: a new manager gets no parent events.
BindSendsNoParent(vw, ann) == vw

BoundParents(vw, ann) == SendParents(vw, ann, Known(ann))

\* add_wlr_instance for a client that binds: what is announced of w, its parent later.
NewHandle(w) == [handle |-> "live", info |-> announced[w].info, parent |-> None]

\* A client binds the global: a handle for every announced window.
Bind(m) ==
  /\ m \notin managers
  /\ \A w \in Windows : view[m][w].handle = "none"
  /\ LET ann  == [w \in Windows |-> IF announced[w].known
                    THEN [announced[w] EXCEPT !.handles = @ \cup {m}] ELSE announced[w]]
         told == [view EXCEPT ![m] = [w \in Windows |-> IF announced[w].known
                    THEN NewHandle(w) ELSE NoView]]
     IN  /\ announced' = ann
         /\ view' = BoundParents(told, ann)
  /\ managers' = managers \cup {m}
  /\ UNCHANGED toplevels

\* Mutant: a stopped manager's handles are forgotten and never closed.
StopForgetsHandles(m) ==
  /\ m \in managers
  /\ managers' = managers \ {m}
  /\ announced' = [w \in Windows |-> [announced[w] EXCEPT !.handles = @ \ {m}]]
  /\ UNCHANGED <<toplevels, view>>

\* Stop, or the manager object is destroyed: no new handles, the old ones go on.
Stop(m) ==
  /\ m \in managers
  /\ managers' = managers \ {m}
  /\ UNCHANGED <<toplevels, announced, view>>

\* The client destroys a handle, live or closed.
HandleDestroyed(m, w) ==
  /\ view[m][w].handle # "none"
  /\ announced' = [v \in Windows |-> IF v = w
       THEN [announced[w] EXCEPT !.handles = @ \ {m}] ELSE announced[v]]
  /\ view' = [view EXCEPT ![m][w] = NoView]
  /\ UNCHANGED <<toplevels, managers>>

-----------------------------------------------------------------------------
Next ==
  \/ \E w \in Windows :
       \/ NewToplevel(w)
       \/ Commit(w)
       \/ \E i \in Infos : InfoChanged(w, i)
       \/ \E p \in Windows \cup {None} : ParentChanged(w, p)
       \/ ToplevelDestroyed(w)
  \/ Refresh
  \/ \E m \in Managers :
       \/ Bind(m)
       \/ Stop(m)
       \/ \E w \in Windows : HandleDestroyed(m, w)

Spec == Init /\ [][Next]_vars

\* The loop callback runs in every turn of the event loop.
FairSpec == Spec /\ WF_vars(Refresh)

-----------------------------------------------------------------------------
(* What the taskbars may rely on.                                          *)

\* A client's handle is live exactly while the compositor keeps it, and it was told
\* what the compositor announced last: no event is lost or comes after `closed`.
ToldIsAnnounced ==
  \A m \in Managers, w \in Windows :
    /\ view[m][w].handle = "live" <=> m \in announced[w].handles
    /\ view[m][w].handle = "live" => view[m][w].info = announced[w].info

\* A client with handles for a window and for its parent knows the parent, in
\* whichever order the two were committed, announced, reparented and bound.
ParentIsTold ==
  \A m \in Managers, w \in Windows :
    LET p == announced[w].parent
    IN  p # None /\ m \in announced[w].handles /\ m \in announced[p].handles
          => view[m][w].parent = p

\* Taskbars catch up: a bound one gets a handle for each window that committed and stays,
\* hears the news of a window whose handle it keeps, and learns that a window is gone.
\* A commit without a buffer counts, as it does for has_buffer, whose comment asks for a
\* buffer.
TaskbarsCatchUp ==
  \A m \in Managers, w \in Windows :
    LET committed == toplevels[w].stage = "committed"
        live      == view[m][w].handle = "live"
    IN  /\ m \in managers /\ committed /\ ~announced[w].known
             ~> live \/ ~committed \/ m \notin managers
        /\ <>[](committed /\ live) => []<>(view[m][w].info = toplevels[w].info)
        /\ <>[](toplevels[w].stage = "none") => <>[]~live
=============================================================================
