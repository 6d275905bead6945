--------------------------- MODULE DuplicateLineage ---------------------------
(***************************************************************************)
(* Near-duplicate groups and their canonical assets.  Ingestion and        *)
(* duplicate processing match one asset at a time                          *)
(* (services/duplicates/lineage.py), a user merges, removes, chooses and   *)
(* hides assets (services/duplicates/manual_control.py,                    *)
(* services/photos/batch_actions_service.py), and a script rebuilds all    *)
(* groups.  Each is one transaction: it reads rows into its session,       *)
(* computes with them and writes the columns it changed.                   *)
(*                                                                         *)
(* Left out: how similar two images are (Similar says which pairs are      *)
(* under the threshold), rejected pairs, which nothing here reads, and     *)
(* the second reads of one transaction: it reads everything at once.       *)
(***************************************************************************)
EXTENDS Naturals, FiniteSets

CONSTANTS
  Assets,
  Hashable,   \* the assets of which a perceptual hash can be computed
  Similar,    \* the pairs {a, b} of assets that match
  Quality,    \* the order in which a canonical asset is chosen
  Groups,     \* ids of rows of duplicate_groups
  Sessions    \* database sessions

ASSUME HashableAssumption == Hashable \subseteq Assets
ASSUME QualityAssumption  == Quality \in [Assets -> Nat]
ASSUME GroupsAssumption   == Groups \subseteq Nat \ {0}

VARIABLES
  asset,   \* rows of assets: group (0: none), canonical, visible, measured (phash and score)
  groups,  \* rows of duplicate_groups that somebody refers to
  view,    \* what a session has read; Closed outside of a transaction
  clashed  \* history: a session has written over a change of the lineage it has not seen

vars == <<asset, groups, view, clashed>>

Row   == [group : Groups \cup {0}, canonical : BOOLEAN, visible : BOOLEAN, measured : BOOLEAN]
Table == [Assets -> Row]

Closed == <<>>

Init ==
  /\ asset = [a \in Assets |->
       [group |-> 0, canonical |-> TRUE, visible |-> TRUE, measured |-> FALSE]]
  /\ groups = {}
  /\ view = [s \in Sessions |-> Closed]
  /\ clashed = FALSE

-----------------------------------------------------------------------------
(* Transactions.                                                             *)

Begin(s) ==
  /\ view[s] = Closed
  /\ view' = [view EXCEPT ![s] = asset]
  /\ UNCHANGED <<asset, groups, clashed>>

\* The handler refuses, fails or does nothing.
Abort(s) ==
  /\ view[s] # Closed
  /\ view' = [view EXCEPT ![s] = Closed]
  /\ UNCHANGED <<asset, groups, clashed>>

Changed(new, read, current) == IF new # read THEN new ELSE current

\* A flush writes the columns whose values differ from what was read.
Written(read, new) ==
  [a \in Assets |->
    [group     |-> Changed(new[a].group, read[a].group, asset[a].group),
     canonical |-> Changed(new[a].canonical, read[a].canonical, asset[a].canonical),
     visible   |-> Changed(new[a].visible, read[a].visible, asset[a].visible),
     measured  |-> Changed(new[a].measured, read[a].measured, asset[a].measured)]]

Used(table) == {table[a].group : a \in Assets} \ {0}

\* Ids are minted, so a new one is in no row and in no session.
Fresh == {g \in Groups \ groups : \A s \in Sessions : view[s] # Closed => g \notin Used(view[s])}

\* The rows whose group or flag differ in two tables.
Differ(t, u) ==
  {a \in Assets : t[a].group # u[a].group \/ t[a].canonical # u[a].canonical}

\* Another session has changed a row that this one writes, or one that is now in a group
\* that this one writes a row of, since this one has read: nothing in the code prevents it.
Clashes(read, new) ==
  LET writes == Differ(read, new)
  IN  \E a \in Differ(read, asset) :
        a \in writes \/ \E b \in writes : new[b].group # 0 /\ asset[a].group = new[b].group

\* The foreign key refuses a group that is gone.  A group without a member that no other
\* session has read is of no more consequence, and forgotten.  (The quantifier has TLC
\* evaluate what is computed once.)
Commit(s, computed, added, dropped) == \E new \in {computed} :
  LET written == Written(view[s], new)
      left    == (groups \cup added) \ dropped
  IN  /\ Used(written) \subseteq left
      /\ asset' = written
      /\ view' = [view EXCEPT ![s] = Closed]
      /\ clashed' = (clashed \/ Clashes(view[s], new))
      /\ groups' = {g \in left : \/ g \in Used(written)
                                 \/ \E o \in Sessions \ {s} : view[o] # Closed /\ g \in Used(view[o])}

-----------------------------------------------------------------------------
(* What the handlers compute.                                                *)

Members(t, g) == {a \in Assets : t[a].group = g}

\* A score is null, and counts as 0, until the asset is measured.
Score(t, a) == IF t[a].measured THEN Quality[a] + 1 ELSE 0

Winner(t, g) ==
  CHOOSE a \in Members(t, g) : \A b \in Members(t, g) :
    \/ Score(t, a) > Score(t, b)
    \/ Score(t, a) = Score(t, b) /\ Quality[a] >= Quality[b]

\* recompute_group_canonical
Recomputed(t, g) ==
  [a \in Assets |->
    IF t[a].group = g THEN [t[a] EXCEPT !.canonical = (a = Winner(t, g))] ELSE t[a]]

\* Mutant: the asset that joins a group is not flushed before the canonical is computed.
JoinedUnflushed(t, a, c, g) ==
  LET others == Recomputed([t EXCEPT ![c].group = g], g)
  IN  [others EXCEPT ![a] = [t[a] EXCEPT !.group = g, !.measured = TRUE]]

\* The asset a joins its best match c, and nothing is done for the group it leaves.
Joined(t, a, c, g) ==
  Recomputed([t EXCEPT ![c].group = g, ![a].group = g, ![a].measured = TRUE], g)

\* An asset without a hash or without a match stands alone.
Standalone(t, a) ==
  [t EXCEPT ![a].group = 0, ![a].canonical = TRUE, ![a].measured = TRUE]

Merged(t, source, target, g) ==
  Recomputed([a \in Assets |->
    IF a \in {source, target} \/ (t[source].group # 0 /\ t[a].group = t[source].group)
    THEN [t[a] EXCEPT !.group = g] ELSE t[a]], g)

Chosen(t, a) ==
  [b \in Assets |->
    IF t[b].group # t[a].group THEN t[b]
    ELSE [t[b] EXCEPT !.canonical = (b = a), !.visible = (b = a) \/ @]]

\* Mutant: the asset keeps the flag it had in the group.
RemovedAsItWas(t, a) == Recomputed([t EXCEPT ![a].group = 0, ![a].visible = TRUE], t[a].group)

Removed(t, a) ==
  LET alone == [t EXCEPT ![a].group = 0, ![a].canonical = TRUE, ![a].visible = TRUE]
  IN  IF t[a].group = 0 THEN alone ELSE Recomputed(alone, t[a].group)

\* The groups that similarity makes of the measured assets, smallest sets closed under it.
Connected(t, a, b) ==
  LET hashed == {x \in Hashable : t[x].measured}
  IN  /\ {a, b} \subseteq hashed
      /\ \A S \in SUBSET hashed :
           a \in S /\ (\A x \in S, y \in hashed : {x, y} \in Similar => y \in S) => b \in S

Rebuilt(t, group) ==
  [a \in Assets |-> [t[a] EXCEPT
    !.group = group[a],
    !.canonical = group[a] = 0 \/ a = Winner([b \in Assets |-> [t[b] EXCEPT !.group = group[b]]], group[a])]]

-----------------------------------------------------------------------------
(* The handlers.                                                             *)

Open(s) == view[s] # Closed

\* The matches of a: candidates have a hash, and the nearest one is taken.
Matches(t, a) ==
  IF a \notin Hashable THEN {}
  ELSE {c \in Hashable \ {a} : t[c].measured /\ {a, c} \in Similar}

\* The group an asset is found in, or a new one.
GroupOf(t, c) == IF t[c].group # 0 THEN {t[c].group} ELSE Fresh

UpdateLineage(s, a) ==
  /\ Open(s)
  /\ LET t == view[s]
     IN  IF Matches(t, a) = {} THEN Commit(s, Standalone(t, a), {}, {})
         ELSE \E c \in Matches(t, a) : \E g \in GroupOf(t, c) :
                Commit(s, Joined(t, a, c, g), {g} \ Used(t), {})

\* merge_asset_into_target_lineage: the group of the source is dissolved.
Merge(s, source, target) ==
  /\ Open(s) /\ source # target
  /\ LET t == view[s]
     IN  \E g \in GroupOf(t, target) :
           /\ t[source].group # g
           /\ Commit(s, Merged(t, source, target, g), {g} \ Used(t), {t[source].group} \ {0})

SetCanonical(s, a) ==
  /\ Open(s) /\ view[s][a].group # 0
  /\ ~(view[s][a].canonical /\ view[s][a].visible)
  /\ Commit(s, Chosen(view[s], a), {}, {})

RemoveFromGroup(s, a) ==
  /\ Open(s)
  /\ Commit(s, Removed(view[s], a), {},
            IF Members(view[s], view[s][a].group) = {a} THEN {view[s][a].group} ELSE {})

Demote(s, a) ==
  /\ Open(s)
  /\ view[s][a].group # 0 /\ ~view[s][a].canonical /\ view[s][a].visible
  /\ Members(view[s], view[s][a].group) # {a}
  /\ Commit(s, [view[s] EXCEPT ![a].visible = FALSE], {}, {})

Restore(s, a) ==
  /\ Open(s) /\ ~view[s][a].visible
  /\ Commit(s, [view[s] EXCEPT ![a].visible = TRUE], {}, {})

\* The batch action of the photo review hides and shows any assets.
BatchVisibility(s, assets, visible) ==
  /\ Open(s)
  /\ Commit(s, [a \in Assets |-> IF a \in assets THEN [view[s][a] EXCEPT !.visible = visible]
                                 ELSE view[s][a]], {}, {})

\* The script: a chunk of the assets without hash or score is measured.
Backfill(s, assets) ==
  /\ Open(s) /\ assets # {} /\ \A a \in assets : ~view[s][a].measured
  /\ Commit(s, [a \in Assets |-> [view[s][a] EXCEPT !.measured = @ \/ a \in assets]], {}, {})

\* The script: all groups are deleted, and one is made of each component.
Rebuild(s) ==
  /\ Open(s)
  /\ LET connected == {p \in Assets \X Assets : Connected(view[s], p[1], p[2])}
     IN  \E group \in [Assets -> Fresh \cup {0}] :
       /\ \A a, b \in Assets :
            a # b => (<<a, b>> \in connected <=> group[a] = group[b] /\ group[a] # 0)
       /\ \A a \in Assets : group[a] # 0 => \E b \in Assets \ {a} : group[b] = group[a]
       /\ Commit(s, Rebuilt(view[s], group), {group[a] : a \in Assets} \ {0}, groups)

Next ==
  \E s \in Sessions :
    \/ Begin(s) \/ Abort(s) \/ Rebuild(s)
    \/ \E a \in Assets : UpdateLineage(s, a) \/ SetCanonical(s, a) \/ RemoveFromGroup(s, a)
                         \/ Demote(s, a) \/ Restore(s, a)
    \/ \E a, b \in Assets : Merge(s, a, b)
    \/ \E assets \in SUBSET Assets :
         Backfill(s, assets) \/ \E visible \in BOOLEAN : BatchVisibility(s, assets, visible)

Spec == Init /\ [][Next]_vars

-----------------------------------------------------------------------------
(* Properties.                                                               *)

\* The rows have their types, and every group that is referred to exists.
LineageTypeOK ==
  /\ asset \in Table /\ groups \subseteq Groups
  /\ Used(asset) \subseteq groups
  /\ \A s \in Sessions : view[s] = Closed \/ view[s] \in Table
  /\ clashed \in BOOLEAN

\* No group shows two canonical assets, whatever is matched, merged, chosen, removed and
\* rebuilt in whatever order and however the transactions overlap, until one of them has
\* written over a change it has not seen.
AtMostOneCanonical == ~clashed =>
  \A a, b \in Assets :
    asset[a].group = asset[b].group /\ asset[a].group # 0
      /\ asset[a].canonical /\ asset[b].canonical => a = b

\* An asset outside of all groups is canonical, as long: the views that show canonical
\* assets only lose no asset that left a group.
StandaloneIsCanonical == ~clashed =>
  \A a \in Assets : asset[a].group = 0 => asset[a].canonical

\* "system must always have exactly one canonical per group"
ExactlyOneCanonical ==
  \A g \in Used(asset) : Cardinality({a \in Members(asset, g) : asset[a].canonical}) = 1

===============================================================================
