--------------------------- MODULE ToplevelsProofs ---------------------------
(***************************************************************************)
(* What module Toplevels promises about stack, Space and focus holds for   *)
(* any windows, layers and trees of parents.                               *)
(***************************************************************************)
EXTENDS Toplevels, StackProofs, FiniteSetTheorems

-----------------------------------------------------------------------------
(* The inductive invariant, of any desktop.                                *)

\* Following parents leads to a window without one.
NoRing(d) == \A U \in SUBSET Windows : U # {} => \E u \in U : d.win[u].parent \notin U

\* A surface that is no toplevel has no parent.
Orphans(d) == \A w \in Windows : d.win[w].stage \notin Known => d.win[w].parent = None

\* What is in the Space is mapped and stacked.
OrderStacked(d) == ToSet(d.order) \subseteq {w \in ToSet(d.stack) : d.win[w].stage = "mapped"}

\* The active window, when it is stacked, is there once, on top.
ActiveOnTop(d) ==
  d.active \in ToSet(d.stack) =>
    Last(d.stack) = d.active /\ d.active \notin ToSet(Front(d.stack))

OrderIsStack(d) == d.order = Within(d.stack, ToSet(d.order))

\* The window that has the keyboard is the active one.
FocusIsActive(d) == d.focus \in Windows => d.focus = d.active

\* What the layout needs, and what it makes of it.
Tidy(d)   == d \in Desktop /\ NoRing(d) /\ Orphans(d) /\ OrderStacked(d)
Sorted(d) == ActiveOnTop(d) /\ OrderIsStack(d)

-----------------------------------------------------------------------------
(* The chain of ancestors.                                                 *)

\* Only a toplevel has a parent, and the parent is a window.
LEMMA ParentOfIs ==
  ASSUME NEW d \in Desktop, Orphans(d), NEW w \in Windows
  PROVE  /\ ParentOf(d, w) = d.win[w].parent
         /\ ParentOf(d, w) \in Windows \cup {None}
BY DEF Desktop, WindowStates, Orphans, ParentOf

\* Each window of s, from back to front, is the parent of the next; w is the last.
IsChain(d, w, s) ==
  /\ s \in Seq(Windows) /\ s # <<>> /\ s[Len(s)] = w
  /\ \A i \in 1..Len(s) : i > 1 => ParentOf(d, s[i]) = s[i - 1]

\* The chain extends by the parent of its first window.
LEMMA ChainGrows ==
  ASSUME NEW d \in Desktop, Orphans(d), NEW w \in Windows, NEW s, IsChain(d, w, s)
  PROVE  /\ Head(s) \in Windows
         /\ LET p == ParentOf(d, Head(s))
            IN  p # None => IsChain(d, w, <<p>> \o s) /\ Len(<<p>> \o s) = Len(s) + 1
<1>1. s \in Seq(Windows) /\ Len(s) \in Nat /\ Len(s) > 0 /\ Head(s) = s[1] /\ s[1] \in Windows
  BY DEF IsChain
<1> SUFFICES ASSUME NEW p \in Windows, p = ParentOf(d, Head(s))
             PROVE  IsChain(d, w, <<p>> \o s) /\ Len(<<p>> \o s) = Len(s) + 1
  BY <1>1, ParentOfIs
<1> DEFINE t == <<p>> \o s
<1>2. /\ t \in Seq(Windows) /\ Len(t) = Len(s) + 1 /\ t[1] = p
      /\ \A i \in 1..Len(t) : i > 1 => t[i] = s[i - 1]
  BY <1>1
<1> HIDE DEF t
<1>3. ASSUME NEW i \in 1..Len(t), i > 1 PROVE ParentOf(d, t[i]) = t[i - 1]
  <2>1. t[i] = s[i - 1] /\ i - 1 \in 1..Len(s)
    BY <1>1, <1>2, <1>3
  <2>2. CASE i = 2
    BY <1>1, <1>2, <2>1, <2>2
  <2>3. CASE i # 2
    <3>1. i - 1 \in 1..Len(t) /\ i - 1 > 1 /\ (i - 1) - 1 = i - 2
      BY <1>1, <1>2, <1>3, <2>3
    <3>2. t[i - 1] = s[i - 2]
      BY <1>2, <3>1
    <3>3. ParentOf(d, s[i - 1]) = s[i - 2]
      BY <2>1, <3>1 DEF IsChain
    <3> QED
      BY <2>1, <3>2, <3>3
  <2> QED
    BY <2>2, <2>3
<1>4. t[Len(t)] = w /\ t # <<>>
  BY <1>1, <1>2 DEF IsChain
<1>5. IsChain(d, w, t)
  BY <1>2, <1>3, <1>4 DEF IsChain
<1> QED
  BY <1>2, <1>5 DEF t

\* No window is in its chain twice, since no ring of parents exists.
LEMMA ChainDistinct ==
  ASSUME NEW d \in Desktop, Orphans(d), NoRing(d), NEW w \in Windows, NEW s, IsChain(d, w, s),
         NEW i \in 1..Len(s), NEW j \in 1..Len(s), i < j
  PROVE  s[i] # s[j]
<1> SUFFICES ASSUME s[i] = s[j] PROVE FALSE
  OBVIOUS
<1>1. s \in Seq(Windows) /\ Len(s) \in Nat
  BY DEF IsChain
<1> DEFINE U == {s[k] : k \in (i + 1)..j}
<1>2. U \in SUBSET Windows /\ s[j] \in U
  BY <1>1
<1>3. ASSUME NEW k \in (i + 1)..j PROVE d.win[s[k]].parent \in U
  <2>1. k \in 1..Len(s) /\ k > 1
    BY <1>1
  <2>2. d.win[s[k]].parent = s[k - 1]
    BY <1>1, <2>1, ParentOfIs DEF IsChain
  <2>3. CASE k = i + 1
    BY <1>1, <1>2, <2>2, <2>3
  <2>4. CASE k # i + 1
    BY <1>1, <2>2, <2>4
  <2> QED
    BY <2>3, <2>4
<1> QED
  BY <1>2, <1>3 DEF NoRing

\* ... so that the chain is never longer than there are windows.
LEMMA ChainShort ==
  ASSUME NEW d \in Desktop, Orphans(d), NoRing(d), NEW w \in Windows, NEW s, IsChain(d, w, s)
  PROVE  Len(s) <= Cardinality(Windows)
<1>1. s \in Seq(Windows) /\ Len(s) \in Nat /\ s \in [1..Len(s) -> Windows]
  BY DEF IsChain
<1>2. IsFiniteSet(Windows) /\ Cardinality(Windows) \in Nat
  BY SurfacesAssumption, FS_CardinalityType
<1>3. IsFiniteSet(1..Len(s)) /\ Cardinality(1..Len(s)) = Len(s)
  BY <1>1, FS_Interval
<1> SUFFICES ASSUME Cardinality(1..Len(s)) > Cardinality(Windows) PROVE FALSE
  BY <1>1, <1>2, <1>3
<1>4. PICK i, j \in 1..Len(s) : i # j /\ s[i] = s[j]
  BY <1>1, <1>2, <1>3, FS_PigeonHole
<1> QED
  BY <1>1, <1>4, ChainDistinct

\* c[n] is the chain of w after n steps to the root.
Climbs(d, w, m, c) ==
  c = [n \in 0..m |->
         IF n = 0 THEN <<w>>
         ELSE LET p == ParentOf(d, Head(c[n - 1]))
              IN  IF p = None THEN c[n - 1] ELSE <<p>> \o c[n - 1]]

\* The recursion of AncestorChain defines a function.
LEMMA ClimbExists ==
  ASSUME NEW d, NEW w, NEW m \in Nat
  PROVE  \E c : Climbs(d, w, m, c)
<1> DEFINE T == {n \in Nat : ~\E c : Climbs(d, w, n, c)}
<1> SUFFICES ASSUME m \in T PROVE FALSE
  OBVIOUS
<1>1. PICK n \in T : \A k \in T : n <= k
  <2>1. T \in SUBSET Nat
    OBVIOUS
  <2> HIDE DEF T
  <2> QED BY <2>1, NatMin
<1>2. n \in Nat /\ ~\E c : Climbs(d, w, n, c)
  OBVIOUS
<1>3. n # 0
  <2>1. Climbs(d, w, 0, [k \in 0..0 |-> <<w>>])
    BY DEF Climbs
  <2> QED
    BY <1>2, <2>1
<1>4. PICK b : Climbs(d, w, n - 1, b)
  BY <1>1, <1>3
<1> DEFINE p == ParentOf(d, Head(b[n - 1]))
           last == IF p = None THEN b[n - 1] ELSE <<p>> \o b[n - 1]
           c == [k \in 0..n |-> IF k = n THEN last ELSE b[k]]
<1>5. ASSUME NEW k \in 0..n
      PROVE  c[k] = IF k = 0 THEN <<w>>
                    ELSE LET q == ParentOf(d, Head(c[k - 1]))
                         IN  IF q = None THEN c[k - 1] ELSE <<q>> \o c[k - 1]
  <2>1. CASE k = n
    <3>1. c[k] = last /\ c[k - 1] = b[n - 1] /\ k # 0
      BY <1>2, <1>3, <2>1
    <3> QED
      BY <3>1
  <2>2. CASE k # n
    <3>1. k \in 0..(n - 1) /\ c[k] = b[k] /\ (k # 0 => c[k - 1] = b[k - 1])
      BY <1>2, <1>3, <2>2
    <3> HIDE DEF c
    <3> QED
      BY <1>4, <3>1 DEF Climbs
  <2> QED
    BY <2>1, <2>2
<1> HIDE DEF last
<1>6. Climbs(d, w, n, c)
  BY <1>5 DEF Climbs
<1> QED
  BY <1>2, <1>6

\* After n steps the chain has n + 1 windows, or the climb has reached a root.
LEMMA ClimbIs ==
  ASSUME NEW d \in Desktop, Orphans(d), NEW w \in Windows, NEW m \in Nat, NEW c,
         Climbs(d, w, m, c), NEW n \in 0..m
  PROVE  /\ IsChain(d, w, c[n])
         /\ ParentOf(d, Head(c[n])) = None \/ Len(c[n]) = n + 1
<1> DEFINE P(k) == /\ IsChain(d, w, c[k])
                   /\ ParentOf(d, Head(c[k])) = None \/ Len(c[k]) = k + 1
           T == {k \in 0..m : ~P(k)}
<1> SUFFICES ASSUME n \in T PROVE FALSE
  OBVIOUS
<1>1. PICK k \in T : \A i \in T : k <= i
  <2>1. T \in SUBSET Nat
    OBVIOUS
  <2> HIDE DEF T
  <2> QED BY <2>1, NatMin
<1>2. k \in 0..m /\ ~P(k)
  OBVIOUS
<1>3. CASE k = 0
  <2>1. c[0] = <<w>>
    BY <1>3 DEF Climbs
  <2>2. IsChain(d, w, <<w>>) /\ Len(<<w>>) = 1
    BY DEF IsChain
  <2> QED
    BY <1>2, <1>3, <2>1, <2>2
<1>4. CASE k # 0
  <2>1. k - 1 \in 0..m /\ k - 1 < k
    BY <1>2, <1>4
  <2>2. P(k - 1)
    BY <1>1, <2>1
  <2> DEFINE s == c[k - 1]
             p == ParentOf(d, Head(s))
  <2>3. c[k] = IF p = None THEN s ELSE <<p>> \o s
    BY <1>2, <1>4 DEF Climbs
  <2>4. IsChain(d, w, s) /\ (p = None \/ Len(s) = k)
    BY <2>1, <2>2
  <2> HIDE DEF s
  <2>5. p # None => IsChain(d, w, <<p>> \o s) /\ Len(<<p>> \o s) = Len(s) + 1
    BY <2>4, ChainGrows
  <2>6. P(k)
    BY <2>3, <2>4, <2>5
  <2> QED
    BY <1>2, <2>6
<1> QED
  BY <1>3, <1>4

\* The climb ends at a root: the chain is whole.
LEMMA AncestorChainIs ==
  ASSUME NEW d \in Desktop, Orphans(d), NoRing(d), NEW w \in Windows
  PROVE  /\ IsChain(d, w, AncestorChain(d, w))
         /\ ParentOf(d, Head(AncestorChain(d, w))) = None
<1> DEFINE N == Cardinality(Windows)
<1>1. N \in Nat
  BY SurfacesAssumption, FS_CardinalityType
<1>2. PICK c : Climbs(d, w, N, c) /\ AncestorChain(d, w) = c[N]
  <2>1. \E c : Climbs(d, w, N, c)
    BY <1>1, ClimbExists
  <2> QED
    BY <2>1 DEF AncestorChain, Climbs
<1>3. /\ IsChain(d, w, c[N])
      /\ ParentOf(d, Head(c[N])) = None \/ Len(c[N]) = N + 1
  BY <1>1, <1>2, ClimbIs
<1>4. Len(c[N]) <= N /\ Len(c[N]) \in Nat
  BY <1>3, ChainShort DEF IsChain
<1> QED
  BY <1>1, <1>2, <1>3, <1>4

\* The members of the chain: the window, there once and last, and all its ancestors.
LEMMA ChainMembers ==
  ASSUME NEW d \in Desktop, Orphans(d), NoRing(d), NEW w \in Windows
  PROVE  LET s == AncestorChain(d, w)
         IN  /\ s \in Seq(Windows) /\ s # <<>> /\ Last(s) = w /\ w \notin ToSet(Front(s))
             /\ w \in ToSet(s)
             /\ \A v \in ToSet(s) : d.win[v].parent # None => d.win[v].parent \in ToSet(s)
<1> DEFINE s == AncestorChain(d, w)
<1>1. IsChain(d, w, s) /\ ParentOf(d, Head(s)) = None
  BY AncestorChainIs
<1> HIDE DEF s
<1>2. s \in Seq(Windows) /\ Len(s) \in Nat /\ Len(s) > 0 /\ s[Len(s)] = w /\ DOMAIN s = 1..Len(s)
  BY <1>1 DEF IsChain
<1>3. w \notin ToSet(Front(s))
  <2>1. ASSUME NEW i \in 1..(Len(s) - 1) PROVE s[i] # w
    BY <1>1, <1>2, ChainDistinct
  <2>2. DOMAIN Front(s) = 1..(Len(s) - 1) /\ \A i \in 1..(Len(s) - 1) : Front(s)[i] = s[i]
    BY <1>2 DEF Front
  <2> QED
    BY <2>1, <2>2 DEF ToSet
<1>4. ASSUME NEW v \in ToSet(s), d.win[v].parent # None PROVE d.win[v].parent \in ToSet(s)
  <2>1. PICK i \in 1..Len(s) : v = s[i]
    BY <1>2 DEF ToSet
  <2>2. v \in Windows
    BY <1>2, <2>1
  <2>3. ParentOf(d, v) = d.win[v].parent
    BY <2>2, ParentOfIs
  <2>4. CASE i = 1
    BY <1>1, <1>2, <1>4, <2>1, <2>3, <2>4
  <2>5. CASE i # 1
    <3>1. i - 1 \in 1..Len(s) /\ d.win[v].parent = s[i - 1]
      BY <1>1, <1>2, <2>1, <2>3, <2>5 DEF IsChain
    <3> QED
      BY <1>2, <3>1 DEF ToSet
  <2> QED
    BY <2>4, <2>5
<1>5. Last(s) = w /\ s # <<>> /\ w \in ToSet(s)
  BY <1>2 DEF Last, ToSet
<1> QED
  BY <1>2, <1>3, <1>4, <1>5 DEF s

-----------------------------------------------------------------------------
(* The layout.                                                             *)

\* The group goes on top of the stack with the focused window last, there once.
LEMMA ActivateGroupIs ==
  ASSUME NEW d \in Desktop, Orphans(d), NoRing(d), NEW w \in Windows, NEW stack \in Seq(Windows)
  PROVE  LET chain == AncestorChain(d, w)
             r     == ActivateGroup(stack, chain)
         IN  /\ r \in Seq(Windows) /\ r # <<>> /\ Last(r) = w /\ w \notin ToSet(Front(r))
             /\ ToSet(r) = ToSet(stack) \cup ToSet(chain)
<1> DEFINE chain == AncestorChain(d, w)
           rest  == Without(stack, ToSet(chain))
           r     == ActivateGroup(stack, chain)
<1>1. /\ chain \in Seq(Windows) /\ chain # <<>> /\ Last(chain) = w
      /\ w \notin ToSet(Front(chain)) /\ w \in ToSet(chain)
  BY ChainMembers
<1> HIDE DEF chain
<1>2. rest \in Seq(Windows) /\ ToSet(rest) = ToSet(stack) \ ToSet(chain)
  BY <1>1, WithoutIs
<1>3. r = rest \o chain
  BY DEF ActivateGroup
<1> HIDE DEF rest, r
<1>4. chain = Append(Front(chain), w) /\ Front(chain) \in Seq(Windows)
  BY <1>1, FrontLast
<1>5. r = Append(rest \o Front(chain), w) /\ rest \o Front(chain) \in Seq(Windows)
  <2>1. rest \o Append(Front(chain), w) = Append(rest \o Front(chain), w)
    BY <1>2, <1>4, ConcatAppend
  <2>2. rest \o chain = Append(rest \o Front(chain), w)
    BY <1>4, <2>1, Zenon
  <2> QED
    BY <1>2, <1>3, <1>4, <2>2
<1>6. r \in Seq(Windows) /\ r # <<>> /\ Last(r) = w /\ Front(r) = rest \o Front(chain)
  BY <1>5, LastOfAppend
<1>7. ToSet(Front(r)) = ToSet(rest) \cup ToSet(Front(chain))
  BY <1>2, <1>4, <1>6, ToSetConcat
<1>8. ToSet(r) = ToSet(stack) \cup ToSet(chain)
  BY <1>1, <1>2, <1>3, ToSetConcat
<1> QED
  BY <1>1, <1>2, <1>6, <1>7, <1>8 DEF r, chain

\* Handlers that keep parents and stages and only stack more keep the windows tidy.
LEMMA TidyKept ==
  ASSUME NEW d, Tidy(d), NEW e \in Desktop,
         \A w \in Windows : e.win[w].parent = d.win[w].parent /\ e.win[w].stage = d.win[w].stage,
         ToSet(e.order) \subseteq ToSet(d.order),
         ToSet(d.stack) \subseteq ToSet(e.stack)
  PROVE  Tidy(e)
<1>1. ToSet(e.stack) \subseteq Windows
  BY ToSetType DEF Desktop
<1> QED
  BY <1>1 DEF Tidy, NoRing, Orphans, OrderStacked

\* What stays of the windows when modes and activated states change.
SameWindows(d, e) ==
  \A w \in Windows :
    /\ e.win[w].stage = d.win[w].stage
    /\ e.win[w].parent = d.win[w].parent
    /\ e.win[w].modal = d.win[w].modal
    /\ e.win[w].mode = "Fullscreen" <=> d.win[w].mode = "Fullscreen"

\* The layout pass sorts the stack and the Space, whatever order they were in, and
\* takes no window in or out of fullscreen.
LEMMA ApplyLayoutIs ==
  ASSUME NEW d, Tidy(d)
  PROVE  LET e == ApplyLayout(d)
         IN  /\ Tidy(e) /\ Sorted(e)
             /\ SameWindows(d, e)
             /\ e.active = d.active /\ e.onDemand = d.onDemand /\ e.focus = d.focus
             /\ ToSet(e.order) = ToSet(d.order)
             /\ d.active # None => e.stack # <<>> /\ Last(e.stack) = d.active
<1> DEFINE stack == IF d.active = None THEN d.stack
                    ELSE ActivateGroup(d.stack, AncestorChain(d, d.active))
           stacked == {w \in ToSet(stack) : d.win[w].stage \in Known}
           win == [w \in Windows |-> IF w \in stacked
                     THEN [d.win[w] EXCEPT !.mode = PlacementMode(d, w)] ELSE d.win[w]]
           order == Raised(d.order, stack, stacked)
           e == ApplyLayout(d)
<1>1. /\ d \in Desktop /\ d.win \in [Windows -> WindowStates]
      /\ d.order \in Seq(Windows) /\ d.stack \in Seq(Windows)
      /\ d.active \in Windows \cup {None}
  BY DEF Tidy, Desktop
<1>2. e = [d EXCEPT !.stack = stack, !.win = win, !.order = order]
  BY DEF ApplyLayout
<1>3. /\ stack \in Seq(Windows) /\ ToSet(d.stack) \subseteq ToSet(stack)
      /\ d.active # None => stack # <<>> /\ Last(stack) = d.active /\ d.active \notin ToSet(Front(stack))
  <2>1. CASE d.active = None
    BY <1>1, <2>1
  <2>2. CASE d.active # None
    BY <1>1, <2>2, ActivateGroupIs DEF Tidy
  <2> QED
    BY <2>1, <2>2
<1> HIDE DEF stack
<1>4. ToSet(d.order) \subseteq stacked /\ stacked \subseteq ToSet(stack)
  BY <1>3 DEF Tidy, OrderStacked, Known
<1> HIDE DEF stacked
<1>5. order = Within(stack, ToSet(d.order)) /\ order \in Seq(Windows) /\ ToSet(order) = ToSet(d.order)
  <2>1. stacked \cap ToSet(d.order) = ToSet(d.order)
    BY <1>4
  <2>2. order = Without(d.order, stacked) \o Within(stack, ToSet(d.order))
    BY <2>1 DEF Raised
  <2> HIDE DEF order
  <2>3. ToSet(Without(d.order, stacked)) = ToSet(d.order) \ stacked
        /\ Without(d.order, stacked) \in Seq(Windows)
    BY <1>1, WithoutIs
  <2>4. Without(d.order, stacked) = <<>>
    BY <1>4, <2>3, EmptyToSet
  <2>5. Within(stack, ToSet(d.order)) \in Seq(Windows)
        /\ ToSet(Within(stack, ToSet(d.order))) = ToSet(stack) \cap ToSet(d.order)
    BY <1>3, WithinType
  <2>6. order = Within(stack, ToSet(d.order))
    BY <2>2, <2>4, <2>5, ConcatEmptySeq
  <2> QED
    BY <1>4, <2>5, <2>6
<1>6. /\ win \in [Windows -> WindowStates]
      /\ \A w \in Windows : /\ win[w].stage = d.win[w].stage
                            /\ win[w].parent = d.win[w].parent
                            /\ win[w].modal = d.win[w].modal
                            /\ win[w].mode = "Fullscreen" <=> d.win[w].mode = "Fullscreen"
  <2>1. \A w \in Windows : PlacementMode(d, w) \in Modes
          /\ (PlacementMode(d, w) = "Fullscreen" <=> d.win[w].mode = "Fullscreen")
    BY DEF PlacementMode, Modes
  <2>2. ASSUME NEW x \in WindowStates, NEW m \in Modes
        PROVE  LET y == [x EXCEPT !.mode = m]
               IN  y \in WindowStates /\ y.stage = x.stage /\ y.parent = x.parent
                   /\ y.modal = x.modal /\ y.mode = m
    BY DEF WindowStates
  <2>3. ASSUME NEW w \in Windows
        PROVE  /\ win[w] \in WindowStates
               /\ win[w].stage = d.win[w].stage
               /\ win[w].parent = d.win[w].parent
               /\ win[w].modal = d.win[w].modal
               /\ win[w].mode = "Fullscreen" <=> d.win[w].mode = "Fullscreen"
    BY <1>1, <2>1, <2>2
  <2> QED
    BY <2>3
<1> HIDE DEF win, order
<1>7. /\ e \in Desktop /\ e.stack = stack /\ e.win = win /\ e.order = order
      /\ e.active = d.active /\ e.onDemand = d.onDemand /\ e.focus = d.focus
  BY <1>1, <1>2, <1>3, <1>5, <1>6 DEF Desktop
<1> HIDE DEF e
<1>8. Tidy(e)
  BY <1>3, <1>5, <1>6, <1>7, TidyKept
<1>9. Sorted(e)
  <2>1. ActiveOnTop(e)
    <3>1. ToSet(stack) \subseteq Windows
      BY <1>3, ToSetType
    <3> QED
      BY <1>1, <1>3, <1>7, <3>1, SurfacesAssumption DEF ActiveOnTop
  <2> QED
    BY <1>5, <1>7, <2>1 DEF Sorted, OrderIsStack
<1>10. SameWindows(d, e)
  BY <1>6, <1>7 DEF SameWindows
<1> QED
  BY <1>3, <1>5, <1>7, <1>8, <1>9, <1>10 DEF e

-----------------------------------------------------------------------------
(* Focus.                                                                  *)

\* The topmost window of a kind is None when the Space has none of it.
LEMMA TopmostIs ==
  ASSUME NEW d \in Desktop, NEW S
  PROVE  /\ Topmost(d, S) \in (ToSet(d.order) \cap S) \cup {None}
         /\ Topmost(d, S) = None <=> ToSet(d.order) \cap S = {}
         /\ d.order # <<>> /\ Last(d.order) \in S => Topmost(d, S) = Last(d.order)
<1> DEFINE found == Within(d.order, S)
<1>1. d.order \in Seq(Windows) /\ ToSet(d.order) \subseteq Windows
  BY ToSetType DEF Desktop
<1>2. found \in Seq(Windows) /\ ToSet(found) = ToSet(d.order) \cap S
  BY <1>1, WithinType
<1>3. d.order # <<>> /\ Last(d.order) \in S => found # <<>> /\ Last(found) = Last(d.order)
  BY <1>1, WithinLast
<1>4. Topmost(d, S) = IF found = <<>> THEN None ELSE Last(found)
  BY DEF Topmost
<1> HIDE DEF found
<1>5. found = <<>> <=> ToSet(found) = {}
  BY <1>2, EmptyToSet
<1>6. found # <<>> => Last(found) \in ToSet(found)
  BY <1>2, FrontLast
<1> QED
  BY <1>1, <1>2, <1>3, <1>4, <1>5, <1>6, SurfacesAssumption

\* The active window is the topmost of the stack, and of the Space when it is mapped.
LEMMA ActiveIsLast ==
  ASSUME NEW d, Tidy(d), Sorted(d), d.active \in ToSet(d.order)
  PROVE  /\ d.active \in Windows /\ d.win[d.active].stage = "mapped"
         /\ d.stack # <<>> /\ Last(d.stack) = d.active
         /\ d.order # <<>> /\ Last(d.order) = d.active
<1>1. d.stack \in Seq(Windows) /\ d.order \in Seq(Windows)
  BY DEF Tidy, Desktop
<1>2. d.active \in ToSet(d.stack) /\ d.win[d.active].stage = "mapped"
  BY DEF Tidy, OrderStacked
<1>3. Last(d.stack) = d.active /\ d.stack # <<>> /\ d.active \in Windows
  BY <1>1, <1>2, EmptyToSet, ToSetType DEF Sorted, ActiveOnTop
<1>4. d.order = Within(d.stack, ToSet(d.order))
  BY DEF Sorted, OrderIsStack
<1>5. Within(d.stack, ToSet(d.order)) # <<>> /\ Last(Within(d.stack, ToSet(d.order))) = d.active
  BY <1>1, <1>3, WithinLast
<1> QED
  BY <1>2, <1>3, <1>4, <1>5

\* An active fullscreen window is the topmost of them.
LEMMA ActiveFullscreenIs ==
  ASSUME NEW d, Tidy(d), Sorted(d), d.active \in Fullscreens(d)
  PROVE  ActiveFullscreen(d) = d.active /\ d.active # None
<1>1. d.order # <<>> /\ Last(d.order) = d.active /\ d.active \in Windows
  BY ActiveIsLast DEF Fullscreens
<1> QED
  BY <1>1, TopmostIs, SurfacesAssumption DEF ActiveFullscreen, Tidy

\* The activated states are all that focusing a group changes besides.
LEMMA SetActivatedGroupIs ==
  ASSUME NEW d \in Desktop
  PROVE  LET e == SetActivatedGroup(d)
         IN  /\ e \in Desktop /\ SameWindows(d, e)
             /\ e.stack = d.stack /\ e.order = d.order /\ e.active = d.active
             /\ e.onDemand = d.onDemand /\ e.focus = d.focus
<1> DEFINE win == [w \in Windows |-> IF w \in ToSet(d.order)
                     THEN [d.win[w] EXCEPT !.activated = w \in ActiveGroup(d)] ELSE d.win[w]]
<1>1. d.win \in [Windows -> WindowStates]
  BY DEF Desktop
<1>2. ASSUME NEW x \in WindowStates, NEW b \in BOOLEAN
      PROVE  LET y == [x EXCEPT !.activated = b]
             IN  y \in WindowStates /\ y.stage = x.stage /\ y.parent = x.parent
                 /\ y.modal = x.modal /\ y.mode = x.mode
  BY DEF WindowStates
<1>3. ASSUME NEW w \in Windows
      PROVE  /\ win[w] \in WindowStates
             /\ win[w].stage = d.win[w].stage
             /\ win[w].parent = d.win[w].parent
             /\ win[w].modal = d.win[w].modal
             /\ win[w].mode = d.win[w].mode
  <2>1. (w \in ActiveGroup(d)) \in BOOLEAN
    OBVIOUS
  <2> QED
    BY <1>1, <1>2, <2>1
<1>4. win \in [Windows -> WindowStates]
  BY <1>3
<1>5. SetActivatedGroup(d) = [d EXCEPT !.win = win]
  BY DEF SetActivatedGroup
<1> HIDE DEF win
<1> DEFINE e == SetActivatedGroup(d)
<1>6. /\ e \in Desktop /\ e.win = win
      /\ e.stack = d.stack /\ e.order = d.order /\ e.active = d.active
      /\ e.onDemand = d.onDemand /\ e.focus = d.focus
  BY <1>4, <1>5 DEF Desktop
<1> HIDE DEF e
<1>7. SameWindows(d, e)
  BY <1>3, <1>6 DEF SameWindows
<1> QED
  BY <1>6, <1>7 DEF e

\* Tidy and Sorted say nothing of the focus.
LEMMA SortedKept ==
  ASSUME NEW d, Tidy(d), NEW e \in Desktop, SameWindows(d, e),
         e.stack = d.stack, e.order = d.order
  PROVE  Tidy(e) /\ (e.active = d.active /\ Sorted(d) => Sorted(e))
<1>1. Tidy(e)
  BY TidyKept DEF SameWindows
<1> QED
  BY <1>1 DEF Sorted, ActiveOnTop, OrderIsStack

\* focus_window makes the window active, on top, with the keyboard, or does nothing.
\* The stack need not be sorted before when the focus moves.
LEMMA FocusWindowIs ==
  ASSUME NEW d, Tidy(d), NEW w \in Windows,
         Sorted(d) \/ (d.active # w /\ ActiveFullscreen(d) \in {None, w})
  PROVE  LET e == FocusWindow(d, w)
         IN  /\ Tidy(e) /\ Sorted(e) /\ SameWindows(d, e)
             /\ ToSet(e.order) = ToSet(d.order)
             /\ IF ActiveFullscreen(d) \in {None, w} THEN e.active = w /\ e.focus = w ELSE e = d
<1> DEFINE focused == [d EXCEPT !.active = w, !.onDemand = None]
           laidOut == IF d.active = w THEN focused ELSE SetActivatedGroup(ApplyLayout(focused))
           e == FocusWindow(d, w)
<1>1. d \in Desktop
  BY DEF Tidy
<1>2. CASE ActiveFullscreen(d) \notin {None, w}
  <2>1. e = d
    BY <1>2 DEF FocusWindow
  <2> QED
    BY <1>2, <2>1 DEF SameWindows
<1>3. CASE ActiveFullscreen(d) \in {None, w}
  <2>1. e = [laidOut EXCEPT !.focus = w]
    BY <1>3 DEF FocusWindow
  <2>2. /\ focused \in Desktop /\ focused.active = w /\ focused.win = d.win
        /\ focused.stack = d.stack /\ focused.order = d.order
    BY <1>1 DEF Desktop
  <2>3. SameWindows(d, focused)
    BY <2>2 DEF SameWindows
  <2> HIDE DEF focused
  <2>4. Tidy(focused)
    BY <2>2, <2>3, SortedKept
  <2>5. /\ Tidy(laidOut) /\ Sorted(laidOut) /\ SameWindows(d, laidOut)
        /\ ToSet(laidOut.order) = ToSet(d.order) /\ laidOut.active = w
    <3>1. CASE d.active = w
      <4>1. laidOut = focused
        BY <3>1
      <4>2. Sorted(d)
        BY <3>1
      <4>3. Sorted(focused)
        BY <2>2, <2>3, <3>1, <4>2, SortedKept
      <4> QED
        BY <2>2, <2>3, <2>4, <4>1, <4>3
    <3>2. CASE d.active # w
      <4> DEFINE a == ApplyLayout(focused)
      <4>1. /\ Tidy(a) /\ Sorted(a) /\ SameWindows(focused, a)
            /\ a.active = w /\ ToSet(a.order) = ToSet(d.order)
        BY <2>2, <2>4, ApplyLayoutIs
      <4> HIDE DEF a
      <4>2. laidOut = SetActivatedGroup(a)
        BY <3>2 DEF a
      <4> HIDE DEF laidOut
      <4>3. /\ laidOut \in Desktop /\ SameWindows(a, laidOut) /\ laidOut.stack = a.stack
            /\ laidOut.order = a.order /\ laidOut.active = a.active
        BY <4>1, <4>2, SetActivatedGroupIs DEF Tidy
      <4>4. Tidy(laidOut) /\ Sorted(laidOut)
        BY <4>1, <4>3, SortedKept
      <4>5. SameWindows(d, laidOut)
        BY <2>3, <4>1, <4>3 DEF SameWindows
      <4> QED
        BY <4>1, <4>3, <4>4, <4>5
    <3> QED
      BY <3>1, <3>2
  <2> HIDE DEF laidOut
  <2>6. laidOut \in Desktop
    BY <2>5 DEF Tidy
  <2>7. /\ e \in Desktop /\ e.win = laidOut.win /\ e.stack = laidOut.stack
        /\ e.order = laidOut.order /\ e.active = laidOut.active /\ e.focus = w
    BY <2>1, <2>6 DEF Desktop
  <2> HIDE DEF e
  <2>8. SameWindows(laidOut, e) /\ SameWindows(d, e)
    BY <2>5, <2>7 DEF SameWindows
  <2>9. Tidy(e) /\ Sorted(e)
    BY <2>5, <2>7, <2>8, SortedKept
  <2> QED
    BY <1>3, <2>5, <2>7, <2>8, <2>9 DEF e
<1> QED
  BY <1>2, <1>3

\* Nothing takes the focus from a fullscreen window that is active.
LEMMA FocusWindowKeeps ==
  ASSUME NEW d, Tidy(d), Sorted(d), NEW w \in Windows, d.active \in Fullscreens(d)
  PROVE  FocusWindow(d, w).active = d.active
BY ActiveFullscreenIs, FocusWindowIs

\* The inductive invariant of a desktop.
DeskInv(d) == Tidy(d) /\ Sorted(d) /\ FocusIsActive(d)

\* One handler's step of the desktop: the invariant holds after it, and an active
\* window that is fullscreen and stays so stays active.
KeptBy(d, e) ==
  /\ DeskInv(e)
  /\ d.active \in Fullscreens(d) \cap Fullscreens(e) => e.active = d.active

\* focus_window keeps the invariant.
LEMMA FocusWindowInv ==
  ASSUME NEW d, DeskInv(d), NEW w \in Windows
  PROVE  KeptBy(d, FocusWindow(d, w))
BY FocusWindowIs, FocusWindowKeeps DEF KeptBy, DeskInv, FocusIsActive

\* focus_topmost keeps the invariant.
LEMMA FocusTopmostInv ==
  ASSUME NEW d, DeskInv(d)
  PROVE  KeptBy(d, FocusTopmost(d))
<1> DEFINE e == FocusTopmost(d)
<1>1. d \in Desktop /\ d.stack \in Seq(Windows)
  BY DEF DeskInv, Tidy, Desktop
<1>2. CASE d.stack # <<>> /\ d.win[Last(d.stack)].stage \in Known
  <2>1. Last(d.stack) \in Windows
    BY <1>1, <1>2, FrontLast
  <2> QED
    BY <1>2, <2>1, FocusWindowInv DEF FocusTopmost
<1>3. CASE ~(d.stack # <<>> /\ d.win[Last(d.stack)].stage \in Known)
  <2>1. e = [d EXCEPT !.active = None, !.onDemand = None, !.focus = None]
    BY <1>3 DEF FocusTopmost, FocusNone
  <2>2. /\ e \in Desktop /\ e.win = d.win /\ e.stack = d.stack /\ e.order = d.order
        /\ e.active = None /\ e.focus = None
    BY <1>1, <2>1 DEF Desktop
  <2> HIDE DEF e
  <2>3. SameWindows(d, e)
    BY <2>2 DEF SameWindows
  <2>4. Tidy(e)
    BY <2>2, <2>3, SortedKept DEF DeskInv
  <2>5. None \notin ToSet(e.stack)
    BY <1>1, <2>2, ToSetType, SurfacesAssumption
  <2>6. Sorted(e) /\ FocusIsActive(e)
    BY <2>2, <2>5 DEF DeskInv, Sorted, ActiveOnTop, OrderIsStack, FocusIsActive
  <2>7. d.active \notin Fullscreens(d)
    BY <1>3, ActiveIsLast DEF DeskInv, Fullscreens, Known
  <2> QED
    BY <2>4, <2>6, <2>7 DEF KeptBy, DeskInv, e
<1> QED
  BY <1>2, <1>3

-----------------------------------------------------------------------------
(* Handlers that change one window, or lay out again.                      *)

\* Parents that become fewer make no ring.
LEMMA NoRingKept ==
  ASSUME NEW d, NoRing(d), NEW e,
         \A w \in Windows : e.win[w].parent \in {d.win[w].parent, None}
  PROVE  NoRing(e)
<1> SUFFICES ASSUME NEW U \in SUBSET Windows, U # {} PROVE \E u \in U : e.win[u].parent \notin U
  BY DEF NoRing
<1>1. PICK u \in U : d.win[u].parent \notin U
  BY DEF NoRing
<1> QED
  BY <1>1, SurfacesAssumption

\* A window that changes its state, other than by a new parent.
LEMMA WindowChanges ==
  ASSUME NEW d, Tidy(d), NEW w \in Windows, NEW s \in WindowStates,
         s.parent \in {d.win[w].parent, None},
         s.stage \notin Known => s.parent = None,
         w \in ToSet(d.order) => s.stage = "mapped"
  PROVE  LET e == [d EXCEPT !.win[w] = s]
         IN  /\ Tidy(e)
             /\ e.win[w] = s /\ \A v \in Windows \ {w} : e.win[v] = d.win[v]
             /\ e.stack = d.stack /\ e.order = d.order /\ e.active = d.active
             /\ e.onDemand = d.onDemand /\ e.focus = d.focus
             /\ Sorted(d) => Sorted(e)
             /\ FocusIsActive(d) => FocusIsActive(e)
<1> DEFINE e == [d EXCEPT !.win[w] = s]
<1>1. d \in Desktop
  BY DEF Tidy
<1>2. /\ e \in Desktop
      /\ e.win[w] = s /\ \A v \in Windows \ {w} : e.win[v] = d.win[v]
      /\ e.stack = d.stack /\ e.order = d.order /\ e.active = d.active
      /\ e.onDemand = d.onDemand /\ e.focus = d.focus
  BY <1>1 DEF Desktop
<1> HIDE DEF e
<1>3. NoRing(e)
  BY <1>2, NoRingKept DEF Tidy
<1>4. Orphans(e)
  BY <1>2 DEF Tidy, Orphans
<1>5. OrderStacked(e)
  <2>1. ToSet(d.order) \subseteq Windows
    BY <1>1, ToSetType DEF Desktop
  <2> QED
    BY <1>2, <2>1 DEF Tidy, OrderStacked
<1>6. (Sorted(d) => Sorted(e)) /\ (FocusIsActive(d) => FocusIsActive(e))
  BY <1>2 DEF Sorted, ActiveOnTop, OrderIsStack, FocusIsActive
<1> QED
  BY <1>2, <1>3, <1>4, <1>5, <1>6 DEF Tidy, e

\* Such a change keeps the invariant.
LEMMA WindowChangesInv ==
  ASSUME NEW d, DeskInv(d), NEW w \in Windows, NEW s \in WindowStates,
         s.parent \in {d.win[w].parent, None},
         s.stage \notin Known => s.parent = None,
         w \in ToSet(d.order) => s.stage = "mapped"
  PROVE  KeptBy(d, [d EXCEPT !.win[w] = s])
BY WindowChanges DEF KeptBy, DeskInv

\* The layout pass keeps the invariant.
LEMMA ApplyLayoutInv ==
  ASSUME NEW d, DeskInv(d)
  PROVE  KeptBy(d, ApplyLayout(d))
BY ApplyLayoutIs DEF KeptBy, DeskInv, FocusIsActive

\* A window whose mode changes, before a reply.
LEMMA ModeChanges ==
  ASSUME NEW d, DeskInv(d), NEW w \in Windows, NEW mode \in Modes
  PROVE  LET e == [d EXCEPT !.win[w].mode = mode]
         IN  /\ DeskInv(e) /\ e.active = d.active /\ e.order = d.order
             /\ e.win[w].mode = mode /\ e.win[w].stage = d.win[w].stage
             /\ \A v \in Windows \ {w} : e.win[v] = d.win[v]
<1> DEFINE s == [d.win[w] EXCEPT !.mode = mode]
<1>1. d \in Desktop /\ d.win[w] \in WindowStates
  BY DEF DeskInv, Tidy, Desktop
<1>2. /\ s \in WindowStates /\ s.parent = d.win[w].parent /\ s.stage = d.win[w].stage
      /\ s.mode = mode
  BY <1>1 DEF WindowStates
<1>3. (s.stage \notin Known => s.parent = None) /\ (w \in ToSet(d.order) => s.stage = "mapped")
  BY <1>2 DEF DeskInv, Tidy, Orphans, OrderStacked
<1> HIDE DEF s
<1> DEFINE e == [d EXCEPT !.win[w] = s]
<1>4. DeskInv(e) /\ e.active = d.active /\ e.order = d.order /\ e.win[w] = s
      /\ \A v \in Windows \ {w} : e.win[v] = d.win[v]
  BY <1>2, <1>3, WindowChanges DEF DeskInv
<1>5. [d EXCEPT !.win[w].mode = mode] = e
  BY DEF s
<1> HIDE DEF e
<1> QED
  BY <1>2, <1>4, <1>5

\* The layout takes no window in or out of fullscreen.
LEMMA PlacementModeType ==
  ASSUME NEW d \in Desktop, NEW w \in Windows
  PROVE  PlacementMode(d, w) \in Modes /\ (PlacementMode(d, w) = "Fullscreen" <=> d.win[w].mode = "Fullscreen")
BY DEF PlacementMode, Modes

\* reply_placement after a mode request: the active window stays, and so does what other
\* windows show.
LEMMA ApplyModeRequestIs ==
  ASSUME NEW d, DeskInv(d), NEW w \in Windows, NEW mode \in Modes
  PROVE  LET e == ApplyModeRequest(d, w, mode)
         IN  /\ DeskInv(e) /\ e.active = d.active /\ ToSet(e.order) = ToSet(d.order)
             /\ \A v \in Windows \ {w} : e.win[v].mode = "Fullscreen" <=> d.win[v].mode = "Fullscreen"
<1> DEFINE m == [d EXCEPT !.win[w].mode = mode]
           e == ApplyModeRequest(d, w, mode)
<1>1. /\ DeskInv(m) /\ m.active = d.active /\ m.order = d.order
      /\ m.win[w].stage = d.win[w].stage
      /\ \A v \in Windows \ {w} : m.win[v] = d.win[v]
  BY ModeChanges
<1>2. e = ReplyPlacement(m, w)
  BY DEF ApplyModeRequest
<1> HIDE DEF m, e
<1>3. CASE m.win[w].stage = "mapped"
  <2>1. e = ApplyLayout(m)
    BY <1>2, <1>3 DEF ReplyPlacement
  <2> QED
    BY <1>1, <2>1, ApplyLayoutIs DEF DeskInv, FocusIsActive, SameWindows, e
<1>4. CASE m.win[w].stage = "configured"
  <2>1. e = [m EXCEPT !.win[w].mode = PlacementMode(m, w)]
    BY <1>2, <1>4 DEF ReplyPlacement, ConfigureToplevel
  <2>2. PlacementMode(m, w) \in Modes
    BY <1>1, PlacementModeType DEF DeskInv, Tidy
  <2>3. DeskInv(e) /\ e.active = m.active /\ e.order = m.order
        /\ \A v \in Windows \ {w} : e.win[v] = m.win[v]
    BY <1>1, <2>1, <2>2, ModeChanges
  <2> QED
    BY <1>1, <2>3 DEF e
<1>5. CASE m.win[w].stage \notin {"mapped", "configured"}
  BY <1>1, <1>2, <1>5 DEF ReplyPlacement, e
<1> QED
  BY <1>3, <1>4, <1>5

\* A mode request keeps the invariant.
LEMMA ApplyModeRequestInv ==
  ASSUME NEW d, DeskInv(d), NEW w \in Windows, NEW mode \in Modes
  PROVE  KeptBy(d, ApplyModeRequest(d, w, mode))
BY ApplyModeRequestIs DEF KeptBy

\* A window that goes fullscreen asks for the focus, in vain under another one.
LEMMA FullscreenRequestInv ==
  ASSUME NEW d, DeskInv(d), NEW w \in Windows
  PROVE  KeptBy(d, FocusWindow(ApplyModeRequest(d, w, "Fullscreen"), w))
<1> DEFINE m == ApplyModeRequest(d, w, "Fullscreen")
           e == FocusWindow(m, w)
<1>1. /\ DeskInv(m) /\ m.active = d.active /\ ToSet(m.order) = ToSet(d.order)
      /\ \A v \in Windows \ {w} : m.win[v].mode = "Fullscreen" <=> d.win[v].mode = "Fullscreen"
  BY ApplyModeRequestIs DEF Modes
<1> HIDE DEF m
<1>2. KeptBy(m, e) /\ e.active \in {w, m.active}
  BY <1>1, FocusWindowInv, FocusWindowIs DEF DeskInv
<1>3. ASSUME d.active \in Fullscreens(d), d.active # w PROVE e.active = d.active
  <2>1. d.active \in Windows
    BY <1>3, ToSetType DEF Fullscreens, DeskInv, Tidy, Desktop
  <2>2. m.active \in Fullscreens(m)
    BY <1>1, <1>3, <2>1 DEF Fullscreens
  <2> QED
    BY <1>1, <2>2, FocusWindowKeeps DEF DeskInv
<1> QED
  BY <1>1, <1>2, <1>3 DEF KeptBy, m

\* Making a parent that descends from the window would close a ring.
LEMMA ReparentedInv ==
  ASSUME NEW d, DeskInv(d), NEW w \in Windows, NEW p \in Windows \cup {None},
         d.win[w].stage \in Known,
         p # None => w \notin ToSet(AncestorChain(d, p))
  PROVE  KeptBy(d, Reparented(d, w, p))
<1> DEFINE m == [d EXCEPT !.win[w].parent = p]
<1>1. d \in Desktop /\ d.win[w] \in WindowStates
  BY DEF DeskInv, Tidy, Desktop
<1>2. LET s == [d.win[w] EXCEPT !.parent = p]
      IN  s \in WindowStates /\ s.parent = p /\ s.stage = d.win[w].stage /\ s.mode = d.win[w].mode
  BY <1>1 DEF WindowStates
<1>3. /\ m \in Desktop
      /\ m.win[w].parent = p /\ \A v \in Windows \ {w} : m.win[v] = d.win[v]
      /\ \A v \in Windows : m.win[v].stage = d.win[v].stage /\ m.win[v].mode = d.win[v].mode
      /\ m.stack = d.stack /\ m.order = d.order /\ m.active = d.active
      /\ m.onDemand = d.onDemand /\ m.focus = d.focus
  BY <1>1, <1>2 DEF Desktop
<1> HIDE DEF m
<1>4. NoRing(m)
  <2> SUFFICES ASSUME NEW U \in SUBSET Windows, U # {}, \A u \in U : m.win[u].parent \in U
               PROVE  FALSE
    BY DEF NoRing
  <2>1. PICK u \in U : d.win[u].parent \notin U
    BY DEF DeskInv, Tidy, NoRing
  <2>2. u = w /\ p \in U
    BY <1>3, <2>1
  <2>3. p \in Windows
    BY <2>2
  <2> DEFINE A == ToSet(AncestorChain(d, p))
  <2>4. /\ A \subseteq Windows /\ p \in A /\ w \notin A
        /\ \A v \in A : d.win[v].parent # None => d.win[v].parent \in A
    BY <2>3, ChainMembers, ToSetType, SurfacesAssumption DEF DeskInv, Tidy
  <2> HIDE DEF A
  <2>5. ASSUME NEW v \in A \cap U PROVE d.win[v].parent \in A \cap U
    BY <1>3, <2>4, SurfacesAssumption
  <2>6. A \cap U \in SUBSET Windows /\ A \cap U # {}
    BY <2>2, <2>4
  <2> QED
    BY <2>5, <2>6 DEF DeskInv, Tidy, NoRing
<1>5. Orphans(m) /\ OrderStacked(m)
  <2>1. ToSet(d.order) \subseteq Windows
    BY <1>1, ToSetType DEF Desktop
  <2> QED
    BY <1>3, <2>1 DEF DeskInv, Tidy, Orphans, OrderStacked
<1>6. DeskInv(m)
  BY <1>3, <1>4, <1>5 DEF DeskInv, Tidy, Sorted, ActiveOnTop, OrderIsStack, FocusIsActive
<1>7. KeptBy(d, m)
  BY <1>3, <1>6 DEF KeptBy
<1>8. KeptBy(d, ApplyLayout(m))
  BY <1>3, <1>6, ApplyLayoutInv, ApplyLayoutIs DEF KeptBy, DeskInv
<1> QED
  BY <1>7, <1>8 DEF Reparented, m

-----------------------------------------------------------------------------
(* Handlers that change the stack.                                         *)

\* Removing elements from a stack and from the order that follows it.
LEMMA BothWithout ==
  ASSUME NEW stack \in Seq(Windows), NEW order \in Seq(Windows), NEW D,
         order = Within(stack, ToSet(order))
  PROVE  Without(order, D) = Within(Without(stack, D), ToSet(order) \ D)
<1> DEFINE O == ToSet(order)
           T == ToSet(stack)
<1>1. Without(order, D) = Within(order, O \ D)
  BY WithoutIs
<1>2. Within(order, O \ D) = Within(stack, O \cap (O \ D))
  <2>1. Within(Within(stack, O), O \ D) = Within(stack, O \cap (O \ D))
    BY WithinWithin
  <2> QED
    BY <2>1
<1>3. Without(stack, D) = Within(stack, T \ D)
  BY WithoutIs
<1>4. Within(Within(stack, T \ D), O \ D) = Within(stack, (T \ D) \cap (O \ D))
  BY WithinWithin
<1>5. O = T \cap O
  <2>1. ToSet(Within(stack, O)) = T \cap O
    BY WithinType
  <2> QED
    BY <2>1
<1> HIDE DEF O, T
<1>6. (T \ D) \cap (O \ D) = O \cap (O \ D)
  BY <1>5
<1> QED
  BY <1>1, <1>2, <1>3, <1>4, <1>6 DEF O

\* A window on top stays there while others go.
LEMMA TopWithout ==
  ASSUME NEW stack \in Seq(Windows), NEW D, NEW a \in ToSet(Without(stack, D)),
         Last(stack) = a, a \notin ToSet(Front(stack))
  PROVE  Last(Without(stack, D)) = a /\ a \notin ToSet(Front(Without(stack, D)))
<1> DEFINE S == ToSet(stack) \ D
<1>1. Without(stack, D) = Within(stack, S) /\ a \in S
  BY WithoutIs
<1>2. stack # <<>>
  BY <1>1, EmptyToSet
<1> HIDE DEF S
<1>3. Within(stack, S) = Append(Within(Front(stack), S), a)
  BY <1>1, <1>2, WithinLast
<1>4. Front(stack) \in Seq(Windows) /\ a \in Windows
  BY <1>2, FrontLast
<1>5. Within(Front(stack), S) \in Seq(Windows)
      /\ ToSet(Within(Front(stack), S)) = ToSet(Front(stack)) \cap S
  BY <1>4, WithinType
<1>6. Last(Within(stack, S)) = a /\ Front(Within(stack, S)) = Within(Front(stack), S)
  BY <1>3, <1>4, <1>5, LastOfAppend
<1> QED
  BY <1>1, <1>5, <1>6

\* A window leaves the stack and the Space: it is destroyed or unmapped.
LEMMA WindowLeaves ==
  ASSUME NEW d, DeskInv(d), NEW w \in Windows, NEW s \in WindowStates,
         s.parent \in {d.win[w].parent, None},
         s.stage \notin Known => s.parent = None
  PROVE  LET e == [d EXCEPT !.stack = Without(@, {w}), !.order = Without(@, {w}), !.win[w] = s]
         IN  /\ DeskInv(e) /\ e.active = d.active
             /\ w \notin ToSet(e.order)
             /\ Fullscreens(e) = Fullscreens(d) \ {w}
<1> DEFINE m == [d EXCEPT !.stack = Without(@, {w}), !.order = Without(@, {w})]
           e == [d EXCEPT !.stack = Without(@, {w}), !.order = Without(@, {w}), !.win[w] = s]
<1>1. d \in Desktop /\ d.stack \in Seq(Windows) /\ d.order \in Seq(Windows)
  BY DEF DeskInv, Tidy, Desktop
<1>2. /\ Without(d.stack, {w}) \in Seq(Windows)
      /\ ToSet(Without(d.stack, {w})) = ToSet(d.stack) \ {w}
      /\ Without(d.order, {w}) \in Seq(Windows)
      /\ ToSet(Without(d.order, {w})) = ToSet(d.order) \ {w}
  BY <1>1, WithoutIs
<1>3. /\ m \in Desktop /\ m.stack = Without(d.stack, {w}) /\ m.order = Without(d.order, {w})
      /\ m.win = d.win /\ m.active = d.active /\ m.onDemand = d.onDemand /\ m.focus = d.focus
  BY <1>1, <1>2 DEF Desktop
<1>4. e = [m EXCEPT !.win[w] = s]
  OBVIOUS
<1> HIDE DEF m, e
<1>5. Tidy(m)
  <2>1. OrderStacked(m)
    BY <1>2, <1>3 DEF DeskInv, Tidy, OrderStacked
  <2>2. NoRing(m) /\ Orphans(m)
    BY <1>3 DEF DeskInv, Tidy, NoRing, Orphans
  <2> QED
    BY <1>3, <2>1, <2>2 DEF Tidy
<1>6. Sorted(m)
  <2>1. ActiveOnTop(m)
    <3> SUFFICES ASSUME m.active \in ToSet(m.stack)
                 PROVE  Last(m.stack) = m.active /\ m.active \notin ToSet(Front(m.stack))
      BY DEF ActiveOnTop
    <3>1. d.active \in ToSet(Without(d.stack, {w})) /\ d.active \in ToSet(d.stack)
      BY <1>2, <1>3
    <3>2. Last(d.stack) = d.active /\ d.active \notin ToSet(Front(d.stack))
      BY <3>1 DEF DeskInv, Sorted, ActiveOnTop
    <3> QED
      BY <1>1, <1>3, <3>1, <3>2, TopWithout
  <2>2. OrderIsStack(m)
    <3>1. d.order = Within(d.stack, ToSet(d.order))
      BY DEF DeskInv, Sorted, OrderIsStack
    <3>2. Without(d.order, {w}) = Within(Without(d.stack, {w}), ToSet(d.order) \ {w})
      BY <1>1, <3>1, BothWithout
    <3> QED
      BY <1>2, <1>3, <3>2 DEF OrderIsStack
  <2> QED
    BY <2>1, <2>2 DEF Sorted
<1>7. FocusIsActive(m)
  BY <1>3 DEF DeskInv, FocusIsActive
<1>8. w \notin ToSet(m.order)
  BY <1>2, <1>3
<1>9. /\ Tidy(e) /\ Sorted(e) /\ FocusIsActive(e)
      /\ e.active = m.active /\ e.order = m.order
      /\ \A v \in Windows \ {w} : e.win[v] = m.win[v]
  BY <1>4, <1>5, <1>6, <1>7, <1>8, <1>3, WindowChanges
<1>10. ToSet(d.order) \subseteq Windows
  BY <1>1, ToSetType
<1>11. Fullscreens(e) = Fullscreens(d) \ {w}
  BY <1>2, <1>3, <1>9, <1>10 DEF Fullscreens
<1> QED
  BY <1>3, <1>8, <1>9, <1>11 DEF DeskInv, e

\* ... and the topmost of the rest is focused.
LEMMA LeavesAndFocusInv ==
  ASSUME NEW d, DeskInv(d), NEW w \in Windows, NEW m, DeskInv(m),
         m.active = d.active, w \notin ToSet(m.order), Fullscreens(m) = Fullscreens(d) \ {w}
  PROVE  KeptBy(d, m) /\ KeptBy(d, FocusTopmost(m))
<1> DEFINE e == FocusTopmost(m)
<1>1. KeptBy(m, e)
  BY FocusTopmostInv
<1>2. ToSet(e.order) = ToSet(m.order)
  <2>1. m \in Desktop /\ m.stack \in Seq(Windows)
    BY DEF DeskInv, Tidy, Desktop
  <2>2. CASE m.stack # <<>> /\ m.win[Last(m.stack)].stage \in Known
    <3>1. Last(m.stack) \in Windows
      BY <2>1, <2>2, FrontLast
    <3> QED
      BY <2>2, <3>1, FocusWindowIs DEF FocusTopmost, DeskInv
  <2>3. CASE ~(m.stack # <<>> /\ m.win[Last(m.stack)].stage \in Known)
    BY <2>1, <2>3 DEF FocusTopmost, FocusNone, Desktop
  <2> QED
    BY <2>2, <2>3
<1>3. d.active \in Fullscreens(d) \cap Fullscreens(e) => d.active \in Fullscreens(m)
  BY <1>2 DEF Fullscreens
<1> QED
  BY <1>1, <1>3 DEF KeptBy

\* A new window is stacked and joins the Space, on top.
LEMMA MapToplevelInv ==
  ASSUME NEW d, DeskInv(d), NEW w \in Windows, d.win[w].stage = "configured"
  PROVE  KeptBy(d, MapToplevel(d, w))
<1> DEFINE stack == IF Contains(d.stack, w) THEN d.stack ELSE Append(d.stack, w)
           s == [d.win[w] EXCEPT !.stage = "mapped"]
           m == [d EXCEPT !.stack = stack, !.order = Append(d.order, w), !.win[w] = s]
           e == MapToplevel(d, w)
<1>1. /\ d \in Desktop /\ d.stack \in Seq(Windows) /\ d.order \in Seq(Windows)
      /\ d.win[w] \in WindowStates
  BY DEF DeskInv, Tidy, Desktop
<1>2. /\ s \in WindowStates /\ s.parent = d.win[w].parent /\ s.stage = "mapped"
      /\ s.mode = d.win[w].mode
  BY <1>1 DEF WindowStates, Stages, Known
<1>3. /\ Append(d.order, w) \in Seq(Windows)
      /\ ToSet(Append(d.order, w)) = ToSet(d.order) \cup {w}
  BY <1>1, ToSetAppend
<1>4. Contains(d.stack, w) <=> w \in ToSet(d.stack)
  BY <1>1 DEF Contains, ToSet
<1>5. stack \in Seq(Windows) /\ ToSet(stack) = ToSet(d.stack) \cup {w}
  BY <1>1, <1>4, ToSetAppend
<1> HIDE DEF s
<1>6. e = IF ActiveFullscreen(m) = None THEN FocusWindow(m, w) ELSE ApplyLayout(m)
  BY DEF MapToplevel, s
<1>7. w \notin ToSet(d.order)
  BY DEF DeskInv, Tidy, OrderStacked
<1> HIDE DEF stack, e
<1>8. /\ m \in Desktop /\ m.stack = stack /\ m.order = Append(d.order, w)
      /\ m.win[w] = s /\ \A v \in Windows \ {w} : m.win[v] = d.win[v]
      /\ m.active = d.active /\ m.focus = d.focus
  BY <1>1, <1>2, <1>3, <1>5 DEF Desktop
<1> HIDE DEF m
<1>9. Tidy(m)
  <2>1. NoRing(m)
    BY <1>2, <1>8, NoRingKept DEF DeskInv, Tidy
  <2>2. Orphans(m)
    BY <1>2, <1>8 DEF DeskInv, Tidy, Orphans, Known
  <2>3. ToSet(d.order) \subseteq Windows
    BY <1>1, ToSetType
  <2>4. OrderStacked(m)
    BY <1>2, <1>3, <1>5, <1>8, <2>3 DEF DeskInv, Tidy, OrderStacked
  <2> QED
    BY <1>8, <2>1, <2>2, <2>4 DEF Tidy
<1>10. FocusIsActive(m)
  BY <1>8 DEF DeskInv, FocusIsActive
<1>11. d.active = w => Sorted(m)
  <2> SUFFICES ASSUME d.active = w PROVE Sorted(m)
    OBVIOUS
  <2> DEFINE rest == IF Contains(d.stack, w) THEN Front(d.stack) ELSE d.stack
  <2>1. rest \in Seq(Windows) /\ stack = Append(rest, w) /\ w \notin ToSet(rest)
    <3>1. CASE w \in ToSet(d.stack)
      <4>1. d.stack # <<>>
        BY <1>1, <3>1, EmptyToSet
      <4> QED
        BY <1>1, <1>4, <3>1, <4>1, FrontLast DEF DeskInv, Sorted, ActiveOnTop, stack
    <3>2. CASE w \notin ToSet(d.stack)
      BY <1>1, <1>4, <3>2 DEF stack
    <3> QED
      BY <3>1, <3>2
  <2>2. Within(rest, ToSet(d.order)) = d.order
    <3>1. CASE w \in ToSet(d.stack)
      <4>1. d.stack = Append(rest, w)
        BY <1>4, <2>1, <3>1 DEF stack
      <4> DEFINE O == ToSet(d.order)
      <4>2. w \notin O /\ d.order = Within(d.stack, O)
        BY <1>7 DEF DeskInv, Sorted, OrderIsStack
      <4> HIDE DEF O, rest
      <4>3. Within(Append(rest, w), O) = Within(rest, O)
        BY <2>1, <4>2, WithinAppend
      <4> QED
        BY <4>1, <4>2, <4>3 DEF O
    <3>2. CASE w \notin ToSet(d.stack)
      BY <1>4, <3>2 DEF DeskInv, Sorted, OrderIsStack
    <3> QED
      BY <3>1, <3>2
  <2> HIDE DEF rest
  <2>3. Within(rest, ToSet(d.order) \cup {w}) = Within(rest, ToSet(d.order))
    <3>1. ToSet(rest) \cap (ToSet(d.order) \cup {w}) = ToSet(rest) \cap ToSet(d.order)
      BY <2>1
    <3> QED
      BY <2>1, <3>1, WithinSame
  <2>4. Within(stack, ToSet(d.order) \cup {w}) = Append(d.order, w)
    <3>1. Within(Append(rest, w), ToSet(d.order) \cup {w})
            = Append(Within(rest, ToSet(d.order) \cup {w}), w)
      BY <2>1, WithinAppend
    <3> QED
      BY <2>1, <2>2, <2>3, <3>1
  <2>5. Last(stack) = w /\ Front(stack) = rest
    BY <2>1, LastOfAppend
  <2> QED
    BY <1>3, <1>8, <2>1, <2>4, <2>5 DEF Sorted, ActiveOnTop, OrderIsStack
<1>12. CASE ActiveFullscreen(m) = None
  <2>1. e = FocusWindow(m, w)
    BY <1>6, <1>12
  <2>2. Tidy(e) /\ Sorted(e) /\ e.active = w /\ e.focus = w
    BY <1>8, <1>9, <1>11, <1>12, <2>1, FocusWindowIs
  <2>3. Fullscreens(m) = {}
    <3>1. Fullscreens(m) \subseteq ToSet(m.order)
      BY DEF Fullscreens
    <3> QED
      BY <1>12, <3>1, <1>8, TopmostIs DEF ActiveFullscreen
  <2>4. Fullscreens(d) \subseteq Fullscreens(m)
    <3>1. ToSet(d.order) \subseteq Windows
      BY <1>1, ToSetType
    <3> QED
      BY <1>3, <1>7, <1>8, <3>1 DEF Fullscreens
  <2> QED
    BY <2>2, <2>3, <2>4 DEF KeptBy, DeskInv, FocusIsActive, e
<1>13. CASE ActiveFullscreen(m) # None
  <2>1. e = ApplyLayout(m)
    BY <1>6, <1>13
  <2> QED
    BY <1>8, <1>9, <1>10, <2>1, ApplyLayoutIs DEF KeptBy, DeskInv, FocusIsActive, e
<1> QED
  BY <1>12, <1>13

-----------------------------------------------------------------------------
(* Handlers that leave the windows alone.                                  *)

\* The keyboard goes to the active window, or away from the windows.
LEMMA FocusMoves ==
  ASSUME NEW d, DeskInv(d), NEW e \in Desktop,
         e.win = d.win, e.stack = d.stack, e.order = d.order, e.active = d.active,
         e.focus \in Windows => e.focus \in {d.focus, d.active}
  PROVE  KeptBy(d, e)
<1>1. SameWindows(d, e)
  BY DEF SameWindows
<1>2. Tidy(e) /\ Sorted(e)
  BY <1>1, SortedKept DEF DeskInv
<1> QED
  BY <1>2 DEF KeptBy, DeskInv, FocusIsActive

\* Moving the keyboard to a layer, the lock screen or the active window.
LEMMA FocusedInv ==
  ASSUME NEW d, DeskInv(d),
         NEW f \in Windows \cup Layers \cup {LockSurface, None}, f \in Windows => f = d.active
  PROVE  KeptBy(d, [d EXCEPT !.focus = f])
<1> DEFINE e == [d EXCEPT !.focus = f]
<1>1. d \in Desktop
  BY DEF DeskInv, Tidy
<1>2. /\ e \in Desktop /\ e.win = d.win /\ e.stack = d.stack /\ e.order = d.order
      /\ e.active = d.active /\ e.focus = f
  BY <1>1 DEF Desktop
<1> HIDE DEF e
<1>3. KeptBy(d, e)
  BY <1>2, FocusMoves
<1> QED
  BY <1>3 DEF e

\* Remembering the on-demand layer to focus.
LEMMA OnDemandInv ==
  ASSUME NEW d, DeskInv(d), NEW l \in Layers \cup {None}
  PROVE  KeptBy(d, [d EXCEPT !.onDemand = l])
<1> DEFINE e == [d EXCEPT !.onDemand = l]
<1>1. d \in Desktop
  BY DEF DeskInv, Tidy
<1>2. /\ e \in Desktop /\ e.win = d.win /\ e.stack = d.stack /\ e.order = d.order
      /\ e.active = d.active /\ e.focus = d.focus
  BY <1>1 DEF Desktop
<1> HIDE DEF e
<1>3. KeptBy(d, e)
  BY <1>2, FocusMoves
<1> QED
  BY <1>3 DEF e

\* A layer's change may lay the windows out first.
LEMMA LaidOutInv ==
  ASSUME NEW z \in BOOLEAN, DeskInv(desk), NEW l \in Layers \cup {None}
  PROVE  /\ KeptBy(desk, LaidOut(z))
         /\ KeptBy(desk, [LaidOut(z) EXCEPT !.onDemand = l])
<1> DEFINE m == LaidOut(z)
<1>1. KeptBy(desk, desk)
  BY DEF KeptBy
<1>2. KeptBy(desk, m) /\ Fullscreens(desk) \subseteq Fullscreens(m)
  <2>1. CASE z
    <3>1. m = ApplyLayout(desk)
      BY <2>1 DEF LaidOut
    <3>2. ToSet(desk.order) \subseteq Windows
      BY ToSetType DEF DeskInv, Tidy, Desktop
    <3> QED
      BY <3>1, <3>2, ApplyLayoutInv, ApplyLayoutIs DEF DeskInv, SameWindows, Fullscreens
  <2>2. CASE ~z
    BY <1>1, <2>2 DEF LaidOut
  <2> QED
    BY <2>1, <2>2
<1> HIDE DEF m
<1> DEFINE e == [m EXCEPT !.onDemand = l]
<1>3. DeskInv(m)
  BY <1>2 DEF KeptBy
<1>4. KeptBy(m, e)
  BY <1>3, OnDemandInv
<1>5. KeptBy(desk, e)
  BY <1>2, <1>4 DEF KeptBy
<1> QED
  BY <1>2, <1>5 DEF m

\* The surfaces that died leave the stack; none of them is in the Space.
LEMMA PrunedInv ==
  ASSUME NEW d, DeskInv(d)
  PROVE  LET e == [d EXCEPT !.stack = Without(@, {w \in Windows : d.win[w].stage = "none"})]
         IN  DeskInv(e) /\ e.win = d.win /\ e.order = d.order /\ e.active = d.active
<1> DEFINE D == {w \in Windows : d.win[w].stage = "none"}
           e == [d EXCEPT !.stack = Without(@, D)]
<1>1. d \in Desktop /\ d.stack \in Seq(Windows) /\ d.order \in Seq(Windows)
  BY DEF DeskInv, Tidy, Desktop
<1>2. ToSet(d.order) \cap D = {}
  BY DEF DeskInv, Tidy, OrderStacked
<1> HIDE DEF D
<1>3. Without(d.stack, D) \in Seq(Windows) /\ ToSet(Without(d.stack, D)) = ToSet(d.stack) \ D
  BY <1>1, WithoutIs
<1>4. /\ e \in Desktop /\ e.stack = Without(d.stack, D) /\ e.win = d.win
      /\ e.order = d.order /\ e.active = d.active /\ e.focus = d.focus
  BY <1>1, <1>3 DEF Desktop
<1> HIDE DEF e
<1>5. Tidy(e)
  <2>1. NoRing(e) /\ Orphans(e)
    BY <1>4 DEF DeskInv, Tidy, NoRing, Orphans
  <2>2. OrderStacked(e)
    BY <1>2, <1>3, <1>4 DEF DeskInv, Tidy, OrderStacked
  <2> QED
    BY <1>4, <2>1, <2>2 DEF Tidy
<1>6. ActiveOnTop(e)
  <2> SUFFICES ASSUME e.active \in ToSet(e.stack)
               PROVE  Last(e.stack) = e.active /\ e.active \notin ToSet(Front(e.stack))
    BY DEF ActiveOnTop
  <2>1. d.active \in ToSet(Without(d.stack, D)) /\ d.active \in ToSet(d.stack)
    BY <1>3, <1>4
  <2>2. Last(d.stack) = d.active /\ d.active \notin ToSet(Front(d.stack))
    BY <2>1 DEF DeskInv, Sorted, ActiveOnTop
  <2> QED
    BY <1>1, <1>4, <2>1, <2>2, TopWithout
<1>7. OrderIsStack(e)
  <2> DEFINE O == ToSet(d.order)
  <2>1. d.order = Within(d.stack, O)
    BY DEF DeskInv, Sorted, OrderIsStack
  <2>2. Without(d.order, D) = Within(Without(d.stack, D), O \ D)
    BY <1>1, <2>1, BothWithout
  <2>3. Without(d.order, D) = Within(d.order, O \ D)
    BY <1>1, WithoutIs
  <2>4. Within(d.order, O) = d.order
    BY <1>1, WithinAll
  <2>5. O \ D = O
    BY <1>2
  <2> HIDE DEF O
  <2>6. d.order = Within(Without(d.stack, D), O)
    BY <2>2, <2>3, <2>4, <2>5
  <2> QED
    BY <1>4, <2>6 DEF OrderIsStack, O
<1>8. FocusIsActive(e)
  BY <1>4 DEF DeskInv, FocusIsActive
<1> QED
  BY <1>4, <1>5, <1>6, <1>7, <1>8 DEF DeskInv, Sorted, D, e

\* compute_keyboard_focus finds a layer, the active window or nothing.
LEMMA KeyboardFocusIs ==
  ASSUME NEW d \in Desktop, NEW f \in KeyboardFocus(d)
  PROVE  f \in Layers \cup {None, d.active}
<1>1. d.onDemand \in Layers \cup {None} /\ d.active \in Windows \cup {None}
  BY DEF Desktop
<1> QED
  BY <1>1 DEF KeyboardFocus

-----------------------------------------------------------------------------
(* The handlers, one by one.                                               *)

LayersType == layers \in [Layers -> LayerStates] /\ locked \in BOOLEAN /\ curtain \in BOOLEAN

\* ... and of the module.
IInv == DeskInv(desk) /\ LayersType

\* An output without windows satisfies the invariant.
LEMMA InitInv == Init => IInv
<1> SUFFICES ASSUME Init PROVE IInv
  OBVIOUS
<1>1. Absent \in WindowStates /\ Absent.parent = None /\ Absent.stage = "none"
  BY DEF Absent, WindowStates, Stages, Modes
<1>2. NoLayer \in LayerStates
  BY DEF NoLayer, LayerStates
<1>3. ToSet(<<>>) = {}
  BY DEF ToSet
<1>4. LayersType
  BY <1>2 DEF Init, LayersType
<1>5. /\ desk \in Desktop /\ desk.stack = <<>> /\ desk.order = <<>>
      /\ desk.active = None /\ desk.focus = None
      /\ \A w \in Windows : desk.win[w].parent = None /\ desk.win[w].stage = "none"
  BY <1>1 DEF Init, Desktop
<1>6. Tidy(desk)
  BY <1>3, <1>5, SurfacesAssumption DEF Tidy, NoRing, Orphans, OrderStacked
<1>7. Sorted(desk)
  BY <1>3, <1>5, WithinEmpty DEF Sorted, ActiveOnTop, OrderIsStack
<1>8. FocusIsActive(desk)
  BY <1>5, SurfacesAssumption DEF FocusIsActive
<1> QED
  BY <1>4, <1>6, <1>7, <1>8 DEF IInv, DeskInv

\* A request of the window's client.
LEMMA ClientStep ==
  ASSUME IInv, NEW w \in Windows,
         \/ NewToplevel(w) \/ ToplevelDestroyed(w) \/ SurfaceDestroyed(w)
         \/ \E p \in Windows \cup {None} : ParentChanged(w, p)
         \/ \E modal \in ModalHints : DialogHintChanged(w, modal)
         \/ MaximizeRequest(w) \/ UnmaximizeRequest(w)
         \/ FullscreenRequest(w) \/ UnfullscreenRequest(w)
         \/ CommitBuffer(w) \/ CommitNoBuffer(w)
  PROVE  KeptBy(desk, desk') /\ UNCHANGED <<layers, locked, curtain>>
<1>1. /\ DeskInv(desk) /\ desk \in Desktop /\ desk.win[w] \in WindowStates
      /\ desk.stack \in Seq(Windows) /\ desk.order \in Seq(Windows)
  BY DEF IInv, DeskInv, Tidy, Desktop
<1>2. w \in ToSet(desk.order) => desk.win[w].stage = "mapped"
  BY <1>1 DEF DeskInv, Tidy, OrderStacked
<1>3. ASSUME NewToplevel(w) PROVE KeptBy(desk, desk')
  <2> DEFINE s == [desk.win[w] EXCEPT !.stage = "new"]
  <2>1. desk.win[w].parent = None
    BY <1>1, <1>3 DEF NewToplevel, DeskInv, Tidy, Orphans, Known
  <2>2. s \in WindowStates /\ s.parent = None /\ s.stage = "new"
    BY <1>1, <2>1 DEF WindowStates, Stages, Known
  <2>3. w \notin ToSet(desk.order)
    BY <1>2, <1>3 DEF NewToplevel
  <2>4. desk' = [desk EXCEPT !.win[w] = s]
    BY <1>3 DEF NewToplevel
  <2> HIDE DEF s
  <2>5. KeptBy(desk, [desk EXCEPT !.win[w] = s])
    BY <1>1, <2>1, <2>2, <2>3, WindowChangesInv
  <2> QED
    BY <2>4, <2>5
<1>4. ASSUME ToplevelDestroyed(w) PROVE KeptBy(desk, desk')
  <2> DEFINE s == [Absent EXCEPT !.stage = "gone"]
             m == [desk EXCEPT !.stack = Without(@, {w}), !.order = Without(@, {w}), !.win[w] = s]
  <2>1. s \in WindowStates /\ s.parent = None /\ s.stage = "gone"
    BY DEF Absent, WindowStates, Stages, Known, Modes
  <2>2. desk' = m \/ desk' = FocusTopmost(m)
    BY <1>4 DEF ToplevelDestroyed
  <2> HIDE DEF s
  <2>3. DeskInv(m) /\ m.active = desk.active /\ w \notin ToSet(m.order)
        /\ Fullscreens(m) = Fullscreens(desk) \ {w}
    BY <1>1, <2>1, WindowLeaves
  <2> HIDE DEF m
  <2>4. KeptBy(desk, m) /\ KeptBy(desk, FocusTopmost(m))
    BY <1>1, <2>3, LeavesAndFocusInv
  <2> QED
    BY <2>2, <2>4
<1>5. ASSUME SurfaceDestroyed(w) PROVE KeptBy(desk, desk')
  <2> DEFINE s == [desk.win[w] EXCEPT !.stage = "none"]
  <2>1. desk.win[w].parent = None
    BY <1>1, <1>5 DEF SurfaceDestroyed, DeskInv, Tidy, Orphans, Known
  <2>2. s \in WindowStates /\ s.parent = None /\ s.stage = "none"
    BY <1>1, <2>1 DEF WindowStates, Stages, Known
  <2>3. w \notin ToSet(desk.order)
    BY <1>2, <1>5 DEF SurfaceDestroyed
  <2>4. desk' = [desk EXCEPT !.win[w] = s]
    BY <1>5 DEF SurfaceDestroyed
  <2> HIDE DEF s
  <2>5. KeptBy(desk, [desk EXCEPT !.win[w] = s])
    BY <1>1, <2>1, <2>2, <2>3, WindowChangesInv
  <2> QED
    BY <2>4, <2>5
<1>6. ASSUME NEW p \in Windows \cup {None}, ParentChanged(w, p) PROVE KeptBy(desk, desk')
  BY <1>1, <1>6, ReparentedInv DEF ParentChanged
<1>7. ASSUME NEW modal \in ModalHints, DialogHintChanged(w, modal) PROVE KeptBy(desk, desk')
  <2> DEFINE s == [desk.win[w] EXCEPT !.modal = modal]
  <2>1. s \in WindowStates /\ s.parent = desk.win[w].parent /\ s.stage = desk.win[w].stage
    BY <1>1, ClientsAssumption DEF WindowStates
  <2>2. desk' = [desk EXCEPT !.win[w] = s]
    BY <1>7 DEF DialogHintChanged
  <2>3. s.stage \in Known
    BY <1>7, <2>1 DEF DialogHintChanged
  <2> HIDE DEF s
  <2>4. KeptBy(desk, [desk EXCEPT !.win[w] = s])
    BY <1>1, <1>2, <2>1, <2>3, WindowChangesInv
  <2> QED
    BY <2>2, <2>4
<1>8. ASSUME MaximizeRequest(w) \/ UnmaximizeRequest(w) PROVE KeptBy(desk, desk')
  BY <1>1, <1>8, ApplyLayoutInv DEF MaximizeRequest, UnmaximizeRequest
<1>9. ASSUME FullscreenRequest(w) PROVE KeptBy(desk, desk')
  BY <1>1, <1>9, FullscreenRequestInv DEF FullscreenRequest
<1>10. ASSUME UnfullscreenRequest(w) PROVE KeptBy(desk, desk')
  <2>1. "Maximized" \in Modes
    BY DEF Modes
  <2> QED
    BY <1>1, <1>10, <2>1, ApplyModeRequestInv DEF UnfullscreenRequest
<1>11. ASSUME CommitBuffer(w) PROVE KeptBy(desk, desk')
  BY <1>1, <1>11, MapToplevelInv DEF CommitBuffer
<1>12. ASSUME CommitNoBuffer(w) PROVE KeptBy(desk, desk')
  <2>1. CASE desk.win[w].stage = "mapped"
    <3> DEFINE s == [desk.win[w] EXCEPT !.stage = "unmapped", !.mode = "Floating"]
               m == [desk EXCEPT !.stack = Without(@, {w}), !.order = Without(@, {w}), !.win[w] = s]
    <3>1. s \in WindowStates /\ s.parent = desk.win[w].parent /\ s.stage \in Known
      BY <1>1 DEF WindowStates, Stages, Known, Modes
    <3>2. desk' = FocusTopmost(m)
      BY <1>12, <2>1 DEF CommitNoBuffer, UnmapToplevel
    <3> HIDE DEF s
    <3>3. DeskInv(m) /\ m.active = desk.active /\ w \notin ToSet(m.order)
          /\ Fullscreens(m) = Fullscreens(desk) \ {w}
      BY <1>1, <3>1, WindowLeaves
    <3> HIDE DEF m
    <3> QED
      BY <1>1, <3>2, <3>3, LeavesAndFocusInv
  <2>2. CASE desk.win[w].stage # "mapped"
    <3> DEFINE s == [desk.win[w] EXCEPT !.mode = PlacementMode(desk, w), !.stage = "configured"]
    <3>1. PlacementMode(desk, w) \in Modes
      BY <1>1, PlacementModeType
    <3>2. s \in WindowStates /\ s.parent = desk.win[w].parent /\ s.stage \in Known
      BY <1>1, <3>1 DEF WindowStates, Stages, Known
    <3>3. desk' = [desk EXCEPT !.win[w] = s]
      BY <1>1, <1>12, <2>2 DEF CommitNoBuffer, ConfigureToplevel, Desktop
    <3> HIDE DEF s
    <3>4. KeptBy(desk, [desk EXCEPT !.win[w] = s])
      BY <1>1, <1>2, <2>2, <3>2, WindowChangesInv
    <3> QED
      BY <3>3, <3>4
  <2> QED
    BY <2>1, <2>2
<1>13. UNCHANGED <<layers, locked, curtain>>
  BY DEF NewToplevel, ToplevelDestroyed, SurfaceDestroyed, ParentChanged, DialogHintChanged,
         MaximizeRequest, UnmaximizeRequest, FullscreenRequest, UnfullscreenRequest,
         CommitBuffer, CommitNoBuffer
<1> QED
  BY <1>3, <1>4, <1>5, <1>6, <1>7, <1>8, <1>9, <1>10, <1>11, <1>12, <1>13

\* A request to focus the window.
LEMMA FocusStep ==
  ASSUME IInv, NEW w \in Windows,
         RequestActivation(w) \/ ForeignActivate(w) \/ ClickWindow(w)
  PROVE  KeptBy(desk, desk') /\ UNCHANGED <<layers, locked, curtain>>
<1>1. KeptBy(desk, FocusWindow(desk, w))
  BY FocusWindowInv DEF IInv
<1> QED
  BY <1>1 DEF RequestActivation, ForeignActivate, ClickWindow

\* What happens to a layer surface.
LEMMA LayerStep ==
  ASSUME IInv, NEW l \in Layers,
         \/ \E tier \in {"overlay", "top", "bottom"} : NewLayerSurface(l, tier)
         \/ \E i \in {"none", "ondemand", "exclusive"}, z \in BOOLEAN : LayerCommit(l, i, z)
         \/ \E z \in BOOLEAN : LayerDestroyed(l, z)
         \/ ClickLayer(l)
  PROVE  KeptBy(desk, desk') /\ LayersType'
<1>1. DeskInv(desk) /\ LayersType /\ KeptBy(desk, desk) /\ layers[l] \in LayerStates
  BY DEF IInv, KeptBy, LayersType
<1>2. NoLayer \in LayerStates
  BY DEF NoLayer, LayerStates
<1>3. ASSUME NEW tier \in {"overlay", "top", "bottom"}, NewLayerSurface(l, tier)
      PROVE  KeptBy(desk, desk') /\ LayersType'
  <2>1. [NoLayer EXCEPT !.tier = tier] \in LayerStates
    BY DEF NoLayer, LayerStates
  <2>2. desk' = desk
    BY <1>3 DEF NewLayerSurface
  <2>3. LayersType'
    BY <1>1, <1>3, <2>1 DEF NewLayerSurface, LayersType
  <2> QED
    BY <1>1, <2>2, <2>3
<1>4. ASSUME NEW i \in {"none", "ondemand", "exclusive"}, NEW z \in BOOLEAN, LayerCommit(l, i, z)
      PROVE  KeptBy(desk, desk') /\ LayersType'
  <2>1. [layers[l] EXCEPT !.interactivity = i, !.configured = TRUE] \in LayerStates
    BY <1>1 DEF LayerStates
  <2>2. layers' = [layers EXCEPT ![l] = [@ EXCEPT !.interactivity = i, !.configured = TRUE]]
    BY <1>1, <1>4 DEF LayerCommit, LayersType
  <2>3. LayersType'
    BY <1>1, <1>4, <2>1, <2>2 DEF LayerCommit, LayersType
  <2>4. desk' = LaidOut(z) \/ desk' = [LaidOut(z) EXCEPT !.onDemand = l]
    BY <1>4 DEF LayerCommit
  <2> QED
    BY <1>1, <2>3, <2>4, LaidOutInv
<1>5. ASSUME NEW z \in BOOLEAN, LayerDestroyed(l, z)
      PROVE  KeptBy(desk, desk') /\ LayersType'
  <2> DEFINE o == IF LaidOut(z).onDemand = l THEN None ELSE LaidOut(z).onDemand
  <2>1. LaidOut(z) \in Desktop
    BY <1>1, LaidOutInv DEF KeptBy, DeskInv, Tidy
  <2>2. o \in Layers \cup {None}
    BY <2>1 DEF Desktop
  <2>3. desk' = [LaidOut(z) EXCEPT !.onDemand = o]
    BY <1>5 DEF LayerDestroyed
  <2> HIDE DEF o
  <2>4. KeptBy(desk, desk')
    BY <1>1, <2>2, <2>3, LaidOutInv
  <2>5. LayersType'
    BY <1>1, <1>2, <1>5 DEF LayerDestroyed, LayersType
  <2> QED
    BY <2>4, <2>5
<1>6. ASSUME ClickLayer(l) PROVE KeptBy(desk, desk') /\ LayersType'
  <2>1. KeptBy(desk, [desk EXCEPT !.onDemand = l])
    BY <1>1, OnDemandInv
  <2> QED
    BY <1>1, <1>6, <2>1 DEF ClickLayer, LayersType
<1> QED
  BY <1>3, <1>4, <1>5, <1>6

\* The lock screen and the loop callback.
LEMMA SessionStep ==
  ASSUME IInv, ClickLock \/ Refresh \/ Lock \/ NewLockSurface \/ Unlock
  PROVE  KeptBy(desk, desk') /\ LayersType'
<1>1. DeskInv(desk) /\ LayersType /\ KeptBy(desk, desk) /\ desk \in Desktop
  BY DEF IInv, KeptBy, DeskInv, Tidy
<1>2. KeptBy(desk, [desk EXCEPT !.focus = None]) /\ KeptBy(desk, [desk EXCEPT !.focus = LockSurface])
  BY <1>1, FocusedInv, SurfacesAssumption
<1>3. ASSUME ClickLock PROVE KeptBy(desk, desk') /\ LayersType'
  BY <1>1, <1>2, <1>3 DEF ClickLock, LayersType
<1>4. ASSUME Lock PROVE KeptBy(desk, desk') /\ LayersType'
  BY <1>1, <1>2, <1>4 DEF Lock, LayersType
<1>5. ASSUME NewLockSurface PROVE KeptBy(desk, desk') /\ LayersType'
  BY <1>1, <1>2, <1>5 DEF NewLockSurface, LayersType
<1>6. ASSUME Unlock PROVE KeptBy(desk, desk') /\ LayersType'
  BY <1>1, <1>6, FocusTopmostInv DEF Unlock, LayersType
<1>7. ASSUME Refresh PROVE KeptBy(desk, desk') /\ LayersType'
  <2> DEFINE m == [desk EXCEPT !.stack = Without(@, {w \in Windows : desk.win[w].stage = "none"})]
  <2>1. DeskInv(m) /\ m.win = desk.win /\ m.order = desk.order /\ m.active = desk.active
    BY <1>1, PrunedInv
  <2>2. desk' = m \/ \E f \in KeyboardFocus(desk) : desk' = [m EXCEPT !.focus = f]
    BY <1>7 DEF Refresh
  <2> HIDE DEF m
  <2>3. ASSUME NEW f \in KeyboardFocus(desk) PROVE KeptBy(m, [m EXCEPT !.focus = f])
    <3>1. f \in Layers \cup {None, desk.active} /\ desk.active \in Windows \cup {None}
      BY <1>1, KeyboardFocusIs DEF Desktop
    <3> QED
      BY <2>1, <3>1, FocusedInv, SurfacesAssumption
  <2>4. KeptBy(m, m) /\ Fullscreens(m) = Fullscreens(desk)
    BY <2>1 DEF KeptBy, Fullscreens
  <2>5. KeptBy(m, desk')
    BY <2>2, <2>3, <2>4
  <2>6. KeptBy(desk, desk')
    BY <2>1, <2>4, <2>5 DEF KeptBy
  <2>7. LayersType'
    BY <1>1, <1>7 DEF Refresh, LayersType
  <2> QED
    BY <2>6, <2>7
<1> QED
  BY <1>3, <1>4, <1>5, <1>6, <1>7

\* Every handler keeps the invariant.
LEMMA NextKept ==
  ASSUME IInv, [Next]_vars
  PROVE  IInv' /\ KeptBy(desk, desk')
<1>1. CASE UNCHANGED vars
  <2>1. desk' = desk /\ layers' = layers /\ locked' = locked /\ curtain' = curtain
    BY <1>1 DEF vars
  <2> QED
    BY <2>1 DEF IInv, LayersType, KeptBy
<1>2. CASE Next
  <2>1. KeptBy(desk, desk') /\ LayersType'
    <3>1. LayersType /\ UNCHANGED <<layers, locked, curtain>> => LayersType'
      BY DEF LayersType
    <3> QED
      BY <1>2, <3>1, ClientStep, FocusStep, LayerStep, SessionStep DEF Next, IInv
  <2> QED
    BY <2>1 DEF KeptBy, IInv
<1> QED
  BY <1>1, <1>2

-----------------------------------------------------------------------------
(* What the window management promises, for every number of windows.       *)

\* Every desktop the compositor reaches is tidy and sorted, with the keyboard at the
\* active window or away from the windows.
THEOREM Invariance == Spec => []IInv
<1>1. IInv /\ [Next]_vars => IInv'
  BY NextKept
<1> QED
  BY InitInv, <1>1, PTL DEF Spec

\* The handlers keep the types of the desktop, the layers and the lock.
THEOREM TypeCorrect == Spec => []TypeOK
<1>1. IInv => TypeOK
  BY DEF IInv, DeskInv, Tidy, LayersType, TypeOK
<1> QED
  BY Invariance, <1>1, PTL

\* The Space holds the mapped windows in the order the layout stacked them.
THEOREM SpaceFollowsStack == Spec => []ZOrderIsStack
<1>1. IInv => ZOrderIsStack
  BY DEF IInv, DeskInv, Sorted, OrderIsStack, ZOrderIsStack
<1> QED
  BY Invariance, <1>1, PTL

\* The active window, when it is mapped, is the topmost of the Space.
THEOREM ActiveOnTopOfSpace == Spec => []ActiveIsTop
<1>1. IInv => ActiveIsTop
  BY ActiveIsLast DEF IInv, DeskInv, ActiveIsTop
<1> QED
  BY Invariance, <1>1, PTL

\* A window of the active group that is mapped is drawn, whatever is fullscreen and
\* however many windows are hidden.
LEMMA GroupIsDrawn ==
  ASSUME NEW d, Tidy(d), NEW w \in ToSet(d.order) \cap ActiveGroup(d)
  PROVE  w \in Drawn(d)
<1>1. w \in ToSet(d.stack)
  BY DEF Tidy, OrderStacked
<1> QED
  BY <1>1 DEF Drawn, Visible

\* Only a fullscreen window can be drawn above the active one, and none when that is
\* fullscreen itself.
LEMMA ActiveIsCoveredByFullscreen ==
  ASSUME NEW d, Tidy(d), Sorted(d), d.active \in ToSet(d.order), NEW v, Covers(d, v, d.active)
  PROVE  v \in Fullscreens(d) /\ d.active \notin Fullscreens(d)
<1> DEFINE w == d.active
           S == ToSet(d.order)
           below == Within(Front(d.stack), S)
<1>1. /\ w \in Windows /\ d.stack # <<>> /\ Last(d.stack) = w /\ d.stack \in Seq(Windows)
      /\ w \notin ToSet(Front(d.stack))
  BY ActiveIsLast DEF Tidy, Sorted, ActiveOnTop, OrderStacked, Desktop
<1>2. d.order = Append(below, w)
  BY <1>1, WithinLast DEF Sorted, OrderIsStack
<1>3. below \in Seq(Windows) /\ w \notin ToSet(below)
  BY <1>1, FrontLast, WithinType
<1> HIDE DEF below
<1>4. \A i \in 1..Len(below) : below[i] # w
  BY <1>3 DEF ToSet
<1>5. ~ \E i, j \in 1..Len(d.order) : i < j /\ d.order[i] = w /\ d.order[j] = v
  <2> SUFFICES ASSUME NEW i \in 1..Len(d.order), NEW j \in 1..Len(d.order),
                      i < j, d.order[i] = w
               PROVE  FALSE
    OBVIOUS
  <2>1. Len(d.order) = Len(below) + 1 /\ Len(below) \in Nat
    BY <1>2, <1>3
  <2>2. i \in 1..Len(below)
    BY <2>1
  <2>3. d.order[i] = below[i]
    BY <1>1, <1>2, <1>3, <2>2
  <2> QED
    BY <1>4, <2>2, <2>3
<1> QED
  BY <1>5 DEF Covers

\* A mapped window that has the keyboard is drawn, and of the windows drawn only a
\* fullscreen one can lie above it, when it is not fullscreen itself.
THEOREM KeyboardIsSeen == Spec => []KeyboardGoesToScreen
<1>1. ASSUME IInv, NEW w \in ToSet(desk.order), desk.focus = w
      PROVE  /\ w \in Drawn(desk)
             /\ \A v \in Windows :
                  Covers(desk, v, w) => v \in Fullscreens(desk) /\ w \notin Fullscreens(desk)
  <2>1. w \in Windows
    BY <1>1, ToSetType DEF IInv, DeskInv, Tidy, Desktop
  <2>2. desk.active = w
    BY <1>1, <2>1 DEF IInv, DeskInv, FocusIsActive
  <2>3. w \in ToSet(AncestorChain(desk, w))
    BY <1>1, <2>1, ChainMembers DEF IInv, DeskInv, Tidy
  <2>4. w \in ActiveGroup(desk)
    BY <2>1, <2>2, <2>3, SurfacesAssumption DEF ActiveGroup
  <2>5. w \in Drawn(desk)
    BY <1>1, <2>4, GroupIsDrawn DEF IInv, DeskInv
  <2> QED
    BY <1>1, <2>2, <2>5, ActiveIsCoveredByFullscreen DEF IInv, DeskInv
<1>2. IInv => KeyboardGoesToScreen
  BY <1>1 DEF KeyboardGoesToScreen
<1> QED
  BY Invariance, <1>2, PTL

\* The pointer enters only windows that are drawn.
THEOREM PointerIsSeen == Spec => []PointerGoesToScreen
<1>1. IInv => PointerGoesToScreen
  BY GroupIsDrawn DEF IInv, DeskInv, Hit, PointerGoesToScreen
<1> QED
  BY Invariance, <1>1, PTL

\* No handler moves a fullscreen window that is active from its place, while it stays
\* mapped and fullscreen.
THEOREM FullscreenStays == Spec => FullscreenNotStolen
<1> DEFINE Stays == \A w \in Windows :
             desk.active = w /\ ActiveFullscreen(desk) = w /\ w \in Fullscreens(desk')
               => desk'.active = w /\ ActiveFullscreen(desk') = w
<1>1. IInv /\ [Next]_vars => [Stays]_vars
  <2> SUFFICES ASSUME IInv, [Next]_vars, NEW w \in Windows,
                      desk.active = w, ActiveFullscreen(desk) = w, w \in Fullscreens(desk')
               PROVE  desk'.active = w /\ ActiveFullscreen(desk') = w
    OBVIOUS
  <2>1. w \in Fullscreens(desk)
    BY TopmostIs, SurfacesAssumption DEF ActiveFullscreen, IInv, DeskInv, Tidy
  <2>2. KeptBy(desk, desk')
    BY NextKept
  <2>3. desk'.active = w
    BY <2>1, <2>2 DEF KeptBy
  <2> QED
    BY <2>2, <2>3, ActiveFullscreenIs DEF KeptBy, DeskInv
<1> HIDE DEF Stays
<1>2. Spec => [][Stays]_vars
  BY Invariance, <1>1, PTL DEF Spec
<1> QED
  BY <1>2 DEF Stays, FullscreenNotStolen
=============================================================================
