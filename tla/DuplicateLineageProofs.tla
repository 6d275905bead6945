------------------------ MODULE DuplicateLineageProofs ------------------------
(***************************************************************************)
(* No group has two canonical assets and every asset outside of a group is *)
(* canonical, for every set of assets and of sessions, every similarity    *)
(* and every order of quality, until a session has written over a change   *)
(* that it has not seen.                                                   *)
(*                                                                         *)
(* The argument: what a session has read was the table at some moment, and *)
(* so has the two properties; each computation, given rows with the two    *)
(* properties, yields rows with the two properties; and a session that     *)
(* writes over nothing it has not seen leaves a table in which every group *)
(* is as the session has computed it or as it was.                         *)
(***************************************************************************)
EXTENDS DuplicateLineage, TLAPS

\* One canonical asset at most in each group but g (no group: g = 0).
OneBut(t, g) ==
  \A a, b \in Assets :
    /\ t[a].group = t[b].group
    /\ t[a].group \notin {0, g}
    /\ t[a].canonical /\ t[b].canonical
    => a = b

Alone(t) == \A a \in Assets : t[a].group = 0 => t[a].canonical

Good(t) == t \in Table /\ OneBut(t, 0) /\ Alone(t)

LineageInv ==
  /\ clashed \in BOOLEAN
  /\ DOMAIN view = Sessions
  /\ ~clashed => /\ Good(asset)
                 /\ \A s \in Sessions : view[s] = Closed \/ Good(view[s])

-----------------------------------------------------------------------------
(* What the computations return.                                             *)

\* recompute_group_canonical leaves one canonical asset in its group.
LEMMA RecomputedIsGood ==
  ASSUME NEW t \in Table, NEW g \in Groups, OneBut(t, g), Alone(t)
  PROVE  Good(Recomputed(t, g))
<1> DEFINE r == Recomputed(t, g)
<1>1. \A a \in Assets :
        /\ r[a].group = t[a].group
        /\ r[a] \in Row
        /\ t[a].group = g => r[a].canonical = (a = Winner(t, g))
        /\ t[a].group # g => r[a].canonical = t[a].canonical
  BY DEF Recomputed, Table, Row
<1>2. r \in Table
  BY <1>1 DEF Recomputed, Table
<1>3. OneBut(r, 0)
  BY <1>1 DEF OneBut
<1>4. Alone(r)
  BY <1>1, GroupsAssumption DEF Alone
<1> QED BY <1>2, <1>3, <1>4 DEF Good

\* Moving assets into a group g leaves the other groups as they were.
LEMMA MovedIsGood ==
  ASSUME NEW t \in Table, NEW u \in Table, NEW g \in Groups, Good(t),
         \A a \in Assets : u[a].group = g \/ (u[a].group = t[a].group /\ u[a].canonical = t[a].canonical)
  PROVE  Good(Recomputed(u, g))
<1>1. OneBut(u, g)
  BY DEF OneBut, Good
<1>2. Alone(u)
  BY GroupsAssumption DEF Alone, Good
<1> QED BY <1>1, <1>2, RecomputedIsGood

LEMMA JoinedIsGood ==
  ASSUME NEW t \in Table, Good(t), NEW a \in Assets, NEW c \in Assets, NEW g \in Groups
  PROVE  Good(Joined(t, a, c, g))
<1> DEFINE v == [t EXCEPT ![c].group = g]
           u == [t EXCEPT ![c].group = g, ![a].group = g, ![a].measured = TRUE]
<1>1. u \in Table
  <2>1. v \in Table
    BY DEF Table, Row
  <2>2. u = [v EXCEPT ![a] = [v[a] EXCEPT !.group = g, !.measured = TRUE]]
    BY <2>1 DEF Table, Row
  <2> HIDE DEF v, u
  <2> QED BY <2>1, <2>2 DEF Table, Row
<1>2. \A x \in Assets : u[x].group = g \/ (u[x].group = t[x].group /\ u[x].canonical = t[x].canonical)
  BY DEF Table, Row
<1> QED BY <1>1, <1>2, MovedIsGood DEF Joined

LEMMA StandaloneIsGood ==
  ASSUME NEW t \in Table, Good(t), NEW a \in Assets
  PROVE  Good(Standalone(t, a))
<1> DEFINE u == Standalone(t, a)
<1>1. u \in Table
  BY DEF Standalone, Table, Row
<1>2. /\ u[a].group = 0 /\ u[a].canonical
      /\ \A x \in Assets \ {a} : u[x] = t[x]
  BY DEF Standalone, Table, Row
<1> QED BY <1>1, <1>2 DEF Good, OneBut, Alone

LEMMA MergedIsGood ==
  ASSUME NEW t \in Table, Good(t), NEW a \in Assets, NEW c \in Assets, NEW g \in Groups
  PROVE  Good(Merged(t, a, c, g))
<1> DEFINE u == [x \in Assets |->
                   IF x \in {a, c} \/ (t[a].group # 0 /\ t[x].group = t[a].group)
                   THEN [t[x] EXCEPT !.group = g] ELSE t[x]]
<1>1. u \in Table
  BY DEF Table, Row
<1>2. \A x \in Assets : u[x].group = g \/ (u[x].group = t[x].group /\ u[x].canonical = t[x].canonical)
  BY DEF Table, Row
<1> QED BY <1>1, <1>2, MovedIsGood DEF Merged

LEMMA ChosenIsGood ==
  ASSUME NEW t \in Table, Good(t), NEW a \in Assets, t[a].group # 0
  PROVE  Good(Chosen(t, a))
<1> DEFINE u == Chosen(t, a)
<1>1. \A x \in Assets :
        /\ u[x] \in Row
        /\ u[x].group = t[x].group
        /\ t[x].group = t[a].group => (u[x].canonical <=> x = a)
        /\ t[x].group # t[a].group => u[x].canonical = t[x].canonical
  BY DEF Chosen, Table, Row
<1>2. u \in Table
  BY <1>1 DEF Chosen, Table
<1> HIDE DEF u
<1>3. OneBut(u, 0)
  BY <1>1 DEF Good, OneBut
<1>4. Alone(u)
  BY <1>1 DEF Good, Alone
<1> QED BY <1>2, <1>3, <1>4 DEF Good, u

LEMMA RemovedIsGood ==
  ASSUME NEW t \in Table, Good(t), NEW a \in Assets
  PROVE  Good(Removed(t, a))
<1> DEFINE u == [t EXCEPT ![a].group = 0, ![a].canonical = TRUE, ![a].visible = TRUE]
<1>1. u \in Table
  BY DEF Table, Row
<1>2. /\ u[a].group = 0 /\ u[a].canonical
      /\ \A x \in Assets \ {a} : u[x] = t[x]
  BY DEF Table, Row
<1>3. Good(u)
  BY <1>1, <1>2 DEF Good, OneBut, Alone
<1>4. ASSUME t[a].group # 0 PROVE Good(Recomputed(u, t[a].group))
  <2>1. t[a].group \in Groups
    BY <1>4 DEF Table, Row
  <2>2. OneBut(u, t[a].group)
    BY <1>3 DEF Good, OneBut
  <2> QED BY <1>1, <1>3, <2>1, <2>2, RecomputedIsGood DEF Good
<1> QED BY <1>3, <1>4 DEF Removed

\* A change of visibility or of measurements touches neither group nor flag.
LEMMA SameFlagsIsGood ==
  ASSUME NEW t \in Table, NEW u \in Table, Good(t),
         \A a \in Assets : u[a].group = t[a].group /\ u[a].canonical = t[a].canonical
  PROVE  Good(u)
BY DEF Good, OneBut, Alone

LEMMA RebuiltIsGood ==
  ASSUME NEW t \in Table, NEW group \in [Assets -> Groups \cup {0}]
  PROVE  Good(Rebuilt(t, group))
<1> DEFINE u == Rebuilt(t, group)
           w(g) == Winner([b \in Assets |-> [t[b] EXCEPT !.group = group[b]]], g)
<1>1. \A a \in Assets :
        /\ u[a] \in Row
        /\ u[a].group = group[a]
        /\ u[a].canonical <=> (group[a] = 0 \/ a = w(group[a]))
  <2>1. \A a \in Assets : u[a] = [t[a] EXCEPT !.group = group[a],
                                    !.canonical = group[a] = 0 \/ a = w(group[a])]
    BY DEF Rebuilt
  <2> HIDE DEF w, u
  <2>2. ASSUME NEW a \in Assets PROVE u[a] \in Row /\ u[a].group = group[a]
    BY <2>1 DEF Table, Row
  <2>3. ASSUME NEW a \in Assets PROVE u[a].canonical <=> (group[a] = 0 \/ a = w(group[a]))
    BY <2>1 DEF Table, Row
  <2> QED BY <2>2, <2>3
<1> HIDE DEF w
<1>2. u \in Table
  BY <1>1 DEF Rebuilt, Table
<1> HIDE DEF u
<1>3. OneBut(u, 0)
  BY <1>1 DEF OneBut
<1>4. Alone(u)
  BY <1>1 DEF Alone
<1> QED BY <1>2, <1>3, <1>4 DEF Good, u

-----------------------------------------------------------------------------
(* A commit.                                                                 *)

\* A session that has not clashed leaves, in the rows it writes, what it has computed, and
\* in the others what was there; a row of either kind in the group of one of the other kind
\* is one that nobody has changed since the session has read it.
LEMMA WrittenIsGood ==
  ASSUME NEW s, Good(asset), Good(view[s]), NEW new, Good(new), ~Clashes(view[s], new)
  PROVE  Good(Written(view[s], new))
<1> DEFINE read   == view[s]
           w      == Written(read, new)
           writes == Differ(read, new)
<1>0. asset \in Table /\ read \in Table /\ new \in Table
  BY DEF Good
<1>1. ASSUME NEW a \in Assets
      PROVE  /\ w[a] \in Row
             /\ w[a].group = Changed(new[a].group, read[a].group, asset[a].group)
             /\ w[a].canonical = Changed(new[a].canonical, read[a].canonical, asset[a].canonical)
  BY <1>0 DEF Written, Changed, Table, Row
<1>2. w \in Table
  <2>1. w = [a \in Assets |-> w[a]]
    BY DEF Written
  <2> HIDE DEF w
  <2> QED BY <1>1, <2>1 DEF Table
<1> HIDE DEF w
<1>3. ASSUME NEW a \in writes
      PROVE  a \in Assets /\ w[a].group = new[a].group /\ w[a].canonical = new[a].canonical
  <2>1. a \in Assets /\ a \notin Differ(read, asset)
    BY <1>3 DEF Clashes, Differ
  <2>2. read[a].group = asset[a].group /\ read[a].canonical = asset[a].canonical
    BY <2>1 DEF Differ
  <2> QED BY <1>1, <2>1, <2>2 DEF Changed
<1>4. ASSUME NEW a \in Assets \ writes
      PROVE  w[a].group = asset[a].group /\ w[a].canonical = asset[a].canonical
  <2>1. read[a].group = new[a].group /\ read[a].canonical = new[a].canonical
    BY DEF Differ
  <2> QED BY <1>1, <2>1 DEF Changed
<1>5. ASSUME NEW a \in writes, NEW b \in Assets \ writes,
             w[a].group = w[b].group, w[a].group # 0
      PROVE  w[b].group = new[b].group /\ w[b].canonical = new[b].canonical
  <2>1. asset[b].group = new[a].group /\ new[a].group # 0
    BY <1>3, <1>4, <1>5
  <2>2. b \notin Differ(read, asset)
    BY <1>5, <2>1 DEF Clashes
  <2>3. read[b].group = asset[b].group /\ read[b].canonical = asset[b].canonical
    BY <2>2 DEF Differ
  <2>4. read[b].group = new[b].group /\ read[b].canonical = new[b].canonical
    BY DEF Differ
  <2> QED BY <1>4, <2>3, <2>4
<1>6. OneBut(w, 0)
  <2>1. SUFFICES ASSUME NEW a \in Assets, NEW b \in Assets,
                        w[a].group = w[b].group, w[a].group # 0, w[a].canonical, w[b].canonical
                 PROVE  a = b
    BY DEF OneBut
  <2>2. CASE a \in writes /\ b \in writes
    BY <1>3, <2>1, <2>2 DEF Good, OneBut
  <2>3. CASE a \notin writes /\ b \notin writes
    BY <1>4, <2>1, <2>3 DEF Good, OneBut
  <2>4. CASE a \in writes /\ b \notin writes
    BY <1>3, <1>5, <2>1, <2>4 DEF Good, OneBut
  <2>5. CASE a \notin writes /\ b \in writes
    BY <1>3, <1>5, <2>1, <2>5 DEF Good, OneBut
  <2> QED BY <2>2, <2>3, <2>4, <2>5
<1>7. Alone(w)
  BY <1>3, <1>4 DEF Good, Alone
<1> QED BY <1>2, <1>6, <1>7 DEF Good, w

LEMMA CommitIsGood ==
  ASSUME NEW s \in Sessions, LineageInv, Open(s),
         NEW new, Good(view[s]) => Good(new), NEW added, NEW dropped, Commit(s, new, added, dropped)
  PROVE  LineageInv'
<1>1. /\ asset' = Written(view[s], new)
      /\ view' = [view EXCEPT ![s] = Closed]
      /\ clashed' = (clashed \/ Clashes(view[s], new))
  BY DEF Commit
<1>2. clashed' \in BOOLEAN /\ DOMAIN view' = Sessions
  BY <1>1 DEF LineageInv, Clashes
<1>3. ASSUME ~clashed' PROVE Good(Written(view[s], new))
  BY <1>1, <1>3, WrittenIsGood DEF LineageInv, Open
<1>4. \A o \in Sessions : view'[o] = Closed \/ view'[o] = view[o]
  BY <1>1 DEF LineageInv
<1> QED BY <1>1, <1>2, <1>3, <1>4 DEF LineageInv, Good, OneBut, Alone

\* The ids a handler finds or mints are ids of groups.
LEMMA GroupOfIsGroup ==
  ASSUME NEW t \in Table, NEW c \in Assets, NEW g \in GroupOf(t, c)
  PROVE  g \in Groups
BY DEF GroupOf, Fresh, Table, Row

LEMMA InitGood ==
  ASSUME Init PROVE LineageInv
<1>1. asset \in Table
  BY DEF Init, Table, Row
<1> QED BY <1>1 DEF Init, LineageInv, Good, OneBut, Alone

LEMMA StepGood ==
  ASSUME LineageInv, [Next]_vars
  PROVE  LineageInv'
<1>1. CASE UNCHANGED vars
  BY <1>1 DEF vars, LineageInv, Good, OneBut, Alone
<1>2. ASSUME NEW s \in Sessions, Begin(s) PROVE LineageInv'
  BY <1>2 DEF Begin, LineageInv, Good, OneBut, Alone
<1>3. ASSUME NEW s \in Sessions, Abort(s) PROVE LineageInv'
  BY <1>3 DEF Abort, LineageInv, Good, OneBut, Alone
<1>4. ASSUME NEW s \in Sessions, NEW a \in Assets, UpdateLineage(s, a) PROVE LineageInv'
  <2>1. CASE Matches(view[s], a) = {}
    <3>1. Open(s) /\ Commit(s, Standalone(view[s], a), {}, {})
      BY <1>4, <2>1 DEF UpdateLineage
    <3>2. Good(view[s]) => Good(Standalone(view[s], a))
      BY StandaloneIsGood DEF Good
    <3> QED BY <3>1, <3>2, CommitIsGood
  <2>2. CASE Matches(view[s], a) # {}
    <3>0. PICK c \in Matches(view[s], a) : \E g \in GroupOf(view[s], c) :
            Commit(s, Joined(view[s], a, c, g), {g} \ Used(view[s]), {})
      BY <1>4, <2>2 DEF UpdateLineage
    <3>1. PICK g \in GroupOf(view[s], c) :
            Commit(s, Joined(view[s], a, c, g), {g} \ Used(view[s]), {})
      BY <3>0
    <3>2. c \in Assets
      BY HashableAssumption DEF Matches
    <3>3. ASSUME Good(view[s]) PROVE Good(Joined(view[s], a, c, g))
      <4>1. view[s] \in Table /\ g \in Groups
        BY <3>2, <3>3, GroupOfIsGroup DEF Good
      <4> QED BY <3>2, <3>3, <4>1, JoinedIsGood
    <3>4. Open(s)
      BY <1>4 DEF UpdateLineage
    <3> QED BY <3>1, <3>3, <3>4, CommitIsGood
  <2> QED BY <2>1, <2>2
<1>5. ASSUME NEW s \in Sessions, NEW a \in Assets, NEW b \in Assets, Merge(s, a, b)
      PROVE  LineageInv'
  <2>1. PICK g \in GroupOf(view[s], b) :
          Commit(s, Merged(view[s], a, b, g), {g} \ Used(view[s]), {view[s][a].group} \ {0})
    BY <1>5 DEF Merge
  <2>2. ASSUME Good(view[s]) PROVE Good(Merged(view[s], a, b, g))
    <3>1. view[s] \in Table /\ g \in Groups
      BY <2>2, GroupOfIsGroup DEF Good
    <3> QED BY <2>2, <3>1, MergedIsGood
  <2>3. Open(s)
    BY <1>5 DEF Merge
  <2> QED BY <2>1, <2>2, <2>3, CommitIsGood
<1>6. ASSUME NEW s \in Sessions, NEW a \in Assets, SetCanonical(s, a) PROVE LineageInv'
  <2>1. Good(view[s]) => Good(Chosen(view[s], a))
    BY <1>6, ChosenIsGood DEF SetCanonical, Good
  <2>2. Open(s) /\ Commit(s, Chosen(view[s], a), {}, {})
    BY <1>6 DEF SetCanonical
  <2> QED BY <2>1, <2>2, CommitIsGood
<1>7. ASSUME NEW s \in Sessions, NEW a \in Assets, RemoveFromGroup(s, a) PROVE LineageInv'
  <2>1. Good(view[s]) => Good(Removed(view[s], a))
    BY RemovedIsGood DEF Good
  <2>2. Open(s) /\ \E dropped : Commit(s, Removed(view[s], a), {}, dropped)
    BY <1>7 DEF RemoveFromGroup
  <2> QED BY <2>1, <2>2, CommitIsGood
<1>8. ASSUME NEW s \in Sessions, NEW a \in Assets, Demote(s, a) PROVE LineageInv'
  <2> DEFINE u == [view[s] EXCEPT ![a].visible = FALSE]
  <2>1. ASSUME Good(view[s]) PROVE Good(u)
    <3>1. /\ view[s] \in Table /\ u \in Table
          /\ \A x \in Assets : /\ u[x].group = view[s][x].group
                             /\ u[x].canonical = view[s][x].canonical
      BY <2>1 DEF Good, Table, Row
    <3> QED BY <2>1, <3>1, SameFlagsIsGood
  <2>2. Open(s) /\ Commit(s, u, {}, {})
    BY <1>8 DEF Demote
  <2> QED BY <2>1, <2>2, CommitIsGood
<1>9. ASSUME NEW s \in Sessions, NEW a \in Assets, Restore(s, a) PROVE LineageInv'
  <2> DEFINE u == [view[s] EXCEPT ![a].visible = TRUE]
  <2>1. ASSUME Good(view[s]) PROVE Good(u)
    <3>1. /\ view[s] \in Table /\ u \in Table
          /\ \A x \in Assets : /\ u[x].group = view[s][x].group
                             /\ u[x].canonical = view[s][x].canonical
      BY <2>1 DEF Good, Table, Row
    <3> QED BY <2>1, <3>1, SameFlagsIsGood
  <2>2. Open(s) /\ Commit(s, u, {}, {})
    BY <1>9 DEF Restore
  <2> QED BY <2>1, <2>2, CommitIsGood
<1>10. ASSUME NEW s \in Sessions, NEW assets \in SUBSET Assets, NEW visible \in BOOLEAN,
              BatchVisibility(s, assets, visible)
       PROVE  LineageInv'
  <2> DEFINE u == [a \in Assets |-> IF a \in assets THEN [view[s][a] EXCEPT !.visible = visible]
                                    ELSE view[s][a]]
  <2>1. ASSUME Good(view[s]) PROVE Good(u)
    <3>1. /\ view[s] \in Table /\ u \in Table
          /\ \A x \in Assets : /\ u[x].group = view[s][x].group
                             /\ u[x].canonical = view[s][x].canonical
      BY <2>1 DEF Good, Table, Row
    <3> QED BY <2>1, <3>1, SameFlagsIsGood
  <2>2. Open(s) /\ Commit(s, u, {}, {})
    BY <1>10 DEF BatchVisibility
  <2> QED BY <2>1, <2>2, CommitIsGood
<1>11. ASSUME NEW s \in Sessions, NEW assets \in SUBSET Assets, Backfill(s, assets)
       PROVE  LineageInv'
  <2> DEFINE u == [a \in Assets |-> [view[s][a] EXCEPT !.measured = @ \/ a \in assets]]
  <2>1. ASSUME Good(view[s]) PROVE Good(u)
    <3>1. /\ view[s] \in Table /\ u \in Table
          /\ \A x \in Assets : /\ u[x].group = view[s][x].group
                             /\ u[x].canonical = view[s][x].canonical
      BY <2>1 DEF Good, Table, Row
    <3> QED BY <2>1, <3>1, SameFlagsIsGood
  <2>2. Open(s) /\ Commit(s, u, {}, {})
    BY <1>11 DEF Backfill
  <2> QED BY <2>1, <2>2, CommitIsGood
<1>12. ASSUME NEW s \in Sessions, Rebuild(s) PROVE LineageInv'
  <2>1. PICK group \in [Assets -> Fresh \cup {0}] :
          Commit(s, Rebuilt(view[s], group), {group[a] : a \in Assets} \ {0}, groups)
    BY <1>12 DEF Rebuild
  <2>2. group \in [Assets -> Groups \cup {0}]
    BY DEF Fresh
  <2>3. Good(view[s]) => Good(Rebuilt(view[s], group))
    BY <2>2, RebuiltIsGood DEF Good
  <2>4. Open(s)
    BY <1>12 DEF Rebuild
  <2> QED BY <2>1, <2>3, <2>4, CommitIsGood
<1> QED
  BY <1>1, <1>2, <1>3, <1>4, <1>5, <1>6, <1>7, <1>8, <1>9, <1>10, <1>11, <1>12 DEF Next

-----------------------------------------------------------------------------

\* Nothing that is matched, merged, chosen, removed or rebuilt, in whatever order and by
\* whatever number of overlapping transactions, leaves two canonical assets in a group
\* before one of them has written over a change it has not seen.
THEOREM AtMostOneCanonicalCorrect == Spec => []AtMostOneCanonical
<1>1. Init => LineageInv
  BY InitGood
<1>2. LineageInv /\ [Next]_vars => LineageInv'
  BY StepGood
<1>3. LineageInv => AtMostOneCanonical
  BY DEF LineageInv, Good, OneBut, AtMostOneCanonical
<1> QED BY <1>1, <1>2, <1>3, PTL DEF Spec

\* And till then an asset outside of all groups is canonical.
THEOREM StandaloneIsCanonicalCorrect == Spec => []StandaloneIsCanonical
<1>1. Init => LineageInv
  BY InitGood
<1>2. LineageInv /\ [Next]_vars => LineageInv'
  BY StepGood
<1>3. LineageInv => StandaloneIsCanonical
  BY DEF LineageInv, Good, Alone, StandaloneIsCanonical
<1> QED BY <1>1, <1>2, <1>3, PTL DEF Spec

===============================================================================
