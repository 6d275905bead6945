---------------------- MODULE WindowsSourceWorkflowProofs ----------------------
(***************************************************************************)
(* The safety of the Windows Source workflow, for every Source, size of a  *)
(* child and number of requests.                                           *)
(*                                                                         *)
(* The children are cut from the approved proposal by arithmetic, and run  *)
(* one after the other: the number of the completed ones, which is in the  *)
(* aggregate of the panel, says what each child and each run has reached   *)
(* and how many entries they have counted, so no sum is needed.            *)
(***************************************************************************)
EXTENDS WindowsSourceWorkflow, FiniteSetTheorems, SequenceTheorems, TLAPS

Pages    == [kind : {"page", "attest"},
             op : {"pending", "completed", "lost", "invalid", "attestation_required"},
             items : SUBSET Files, last : BOOLEAN, done : BOOLEAN]
Children == [first : Nat, count : Nat, state : {"pending", "running", "completed"}, run : Nat]
ChildRuns == [key : Nat, files : SUBSET Files, state : {"planned", "active", "completed", "failed"},
              dir : BOOLEAN, ready : Nat, op : BOOLEAN, verifying : BOOLEAN,
              attest : {"none", "pending", "ready", "failed"},
              bridge : {"not_started", "running", "completed", "failed"}, new : Nat]
Aggregates == [children : Nat, items : Nat, new : Nat, already : Nat]
Executing == {"execute", "bound", "planned", "activating"}
Workers   == {"none", "loop", "inventory", "paused", "broken", "ending"} \cup Executing

WorkflowTypes ==
  /\ state \in States /\ approved \in BOOLEAN /\ counts \in Aggregates
  /\ pages \in Seq(Pages) /\ pages # <<>> /\ listed \in Seq(Files)
  /\ children \in Seq(Children) /\ runs \in Seq(ChildRuns)
  /\ worker \in Workers
  /\ pc \in [Requests -> {"idle", "read"}] /\ seen \in [Requests -> States \cup {"none"}]

\* The last page ends the list.
Proposed == Current.done /\ Current.last

\* The pages that were read are one chain without repetitions, and listed is what is
\* eligible of them.
PagesChained ==
  /\ \A i \in DOMAIN pages :
       /\ i < Len(pages) => pages[i].done /\ ~pages[i].last
       /\ pages[i].done => pages[i].kind = "page" /\ pages[i].op = "completed"
  /\ \A i, j \in DOMAIN pages : i # j /\ pages[i].done /\ pages[j].done =>
       pages[i].items \cap pages[j].items = {}
  /\ \A i, j \in DOMAIN listed : listed[i] = listed[j] => i = j
  /\ ToSet(listed) = Listed \cap Eligible
  /\ Cardinality(Listed) <= MaxEntries

\* Whoever has seen a proposal, has seen a whole one.
ProposalSeen ==
  \/ Proposed
  \/ state \in {"inventorying", "failed"} /\ ~approved /\ \A q \in Requests : seen[q] = "none"

\* The entries of the first k children.
Upto(k) == IF k * ChildLimit <= Len(listed) THEN k * ChildLimit ELSE Len(listed)

\* The children are the chunks of the approved proposal.
ChildrenCut ==
  /\ ~approved => children = <<>>
  /\ approved => LET sizes == ChunkSizes(Len(listed)) IN
       /\ DOMAIN children = DOMAIN sizes
       /\ \A k \in DOMAIN children :
            children[k].first = (k - 1) * ChildLimit + 1 /\ children[k].count = sizes[k]

\* What the run of the i-th child has reached.
RunFits(i, r) ==
  /\ r.key = i /\ r.files = ChunkFiles(i)
  /\ i <= counts.children => r.bridge = "completed"
  /\ r.state = "completed" => r.ready = Cardinality(r.files)
  /\ r.bridge # "not_started" => r.state = "completed"
  /\ r.new <= Cardinality(r.files)
  /\ r.op => r.state = "active"

\* What the row of the k-th child says.
ChildFits(k, c) ==
  /\ c.state = "completed" <=> k <= counts.children
  /\ c.run # 0 <=> c.state # "pending"
  /\ c.run # 0 => c.run = k /\ k <= Len(runs)

\* The first counts.children children are completed, and there is a run for each of them
\* and at most one more.
RunsInOrder ==
  /\ counts.children <= Len(children) /\ Len(runs) <= Len(children)
  /\ Len(runs) \in {counts.children, counts.children + 1}
  /\ counts.items = Upto(counts.children) /\ counts.new + counts.already = Upto(counts.children)
  /\ \A k \in DOMAIN children : ChildFits(k, children[k])
  /\ \A i \in DOMAIN runs : RunFits(i, runs[i])

\* Who executes, has an approval; who plans has a child to plan for, and who activates a
\* run that is still planned.
ExecutionKnows ==
  /\ state \in {"running", "blocked", "completed"} => approved
  /\ \A q \in Requests : seen[q] \in {"running", "blocked"} => approved
  /\ worker \in Executing => approved
  /\ worker = "planned" => counts.children < Len(children)
  /\ worker = "activating" =>
       /\ counts.children < Len(children) /\ Len(runs) = counts.children + 1
       /\ children[Len(runs)].run = Len(runs) /\ runs[Len(runs)].state = "planned"
  /\ state = "completed" => counts.children = Len(children)

WorkflowInv ==
  /\ WorkflowTypes /\ PagesChained /\ ProposalSeen /\ ChildrenCut /\ RunsInOrder /\ ExecutionKnows

-------------------------------------------------------------------------------
(* Sequences, sets and chunks.                                               *)

\* A finite set as a sequence: every element once.
LEMMA SetToSeqIs ==
  ASSUME NEW S, IsFiniteSet(S)
  PROVE  /\ SetToSeq(S) \in Seq(S) /\ Len(SetToSeq(S)) = Cardinality(S)
         /\ \A i, j \in 1 .. Len(SetToSeq(S)) : SetToSeq(S)[i] = SetToSeq(S)[j] => i = j
         /\ ToSet(SetToSeq(S)) = S
<1> DEFINE n == Cardinality(S)
           s == SetToSeq(S)
<1>1. n \in Nat /\ ExistsBijection(1 .. n, S)
  BY FS_CardinalityType
<1>2. \E f \in [1 .. n -> S] : IsInjective(f)
  BY <1>1 DEF ExistsBijection, Bijection, Injection
<1>3. s \in [1 .. n -> S] /\ IsInjective(s)
  BY <1>2 DEF SetToSeq
<1>4. s \in Injection(1 .. n, S)
  BY <1>3 DEF Injection
<1>5. IsFiniteSet(1 .. n) /\ Cardinality(1 .. n) = n
  BY <1>1, FS_Interval
<1>6. s \in Surjection(1 .. n, S)
  <2> HIDE DEF s, n
  <2>1. n = Cardinality(S)
    BY DEF n
  <2> QED BY <1>4, <1>5, <2>1, FS_Injection
<1>7. s \in Seq(S) /\ Len(s) = n /\ DOMAIN s = 1 .. n
  <2> HIDE DEF s, n
  <2> QED BY <1>1, <1>3
<1>8. ToSet(s) = S
  BY <1>3, <1>6, <1>7 DEF ToSet, Surjection
<1>9. \A i, j \in 1 .. n : s[i] = s[j] => i = j
  BY <1>3, <1>7 DEF IsInjective
<1> QED BY <1>7, <1>8, <1>9

\* A sequence that repeats nothing is as long as its set.
LEMMA RangeCounted ==
  ASSUME NEW S, NEW s \in Seq(S), \A i, j \in DOMAIN s : s[i] = s[j] => i = j
  PROVE  Cardinality(ToSet(s)) = Len(s) /\ IsFiniteSet(ToSet(s))
<1>1. Len(s) \in Nat /\ DOMAIN s = 1 .. Len(s) /\ s \in [1 .. Len(s) -> ToSet(s)]
  BY DEF ToSet
<1>2. s \in Bijection(1 .. Len(s), ToSet(s))
  BY <1>1 DEF Bijection, Injection, Surjection, IsInjective, ToSet
<1>3. ExistsBijection(1 .. Len(s), ToSet(s))
  BY <1>2 DEF ExistsBijection
<1> QED BY <1>1, <1>3, FS_CountingElements, FS_NatBijection

\* The quotient.
LEMMA Division ==
  ASSUME NEW n \in Nat, NEW d \in Nat \ {0}
  PROVE  n \div d \in Nat /\ d * (n \div d) <= n /\ n < d * (n \div d) + d
OBVIOUS

\* Multiples of the size of a child.
LEMMA Multiples ==
  ASSUME NEW a \in Int, NEW b \in Int, NEW d \in Nat \ {0}
  PROVE  /\ (a - 1) * d = a * d - d /\ a * d \in Int
         /\ a <= b => a * d <= b * d
         /\ a < b => a * d + d <= b * d
<1>1. (a - 1) * d = a * d - d /\ a * d \in Int
  OBVIOUS
<1>2. a <= b => a * d <= b * d
  OBVIOUS
<1>3. a < b => a * d + d <= b * d
  OBVIOUS
<1> QED BY <1>1, <1>2, <1>3

\* The chunks of n entries: each begins where the one before it ends, has one entry at
\* least, and the last one ends with the entries.
LEMMA ChunksOf ==
  ASSUME NEW n \in Nat
  PROVE  /\ \E m \in Nat : DOMAIN ChunkSizes(n) = 1 .. m /\ n <= m * ChildLimit
         /\ \A k \in DOMAIN ChunkSizes(n) :
              /\ k \in Nat \ {0} /\ (k - 1) * ChildLimit \in Nat /\ k * ChildLimit \in Nat
              /\ k * ChildLimit = (k - 1) * ChildLimit + ChildLimit
              /\ ChunkSizes(n)[k] \in 1 .. ChildLimit /\ (k - 1) * ChildLimit < n
              /\ (k - 1) * ChildLimit + ChunkSizes(n)[k]
                   = IF k * ChildLimit <= n THEN k * ChildLimit ELSE n
<1> DEFINE m == (n + ChildLimit - 1) \div ChildLimit
<1>l. ChildLimit \in Nat \ {0}
  BY WorkflowAssumption
<1>1. m \in Nat /\ ChildLimit * m <= n + ChildLimit - 1 /\ n + ChildLimit - 1 < ChildLimit * m + ChildLimit
  BY <1>l, Division
<1>2. DOMAIN ChunkSizes(n) = 1 .. m
  BY DEF ChunkSizes
<1>3. \A k \in 1 .. m : ChunkSizes(n)[k] = IF k * ChildLimit <= n THEN ChildLimit
                                          ELSE n - (k - 1) * ChildLimit
  BY DEF ChunkSizes
<1> HIDE DEF m
<1> DEFINE e == m * ChildLimit
<1>4. e \in Int /\ e <= n + ChildLimit - 1 /\ n <= e
  <2> DEFINE d == ChildLimit * m
  <2>1. d = e /\ d \in Int
    BY <1>1, <1>l
  <2>2. d <= n + ChildLimit - 1 /\ n + ChildLimit - 1 < d + ChildLimit
    BY <1>1
  <2> HIDE DEF d, e
  <2> QED BY <1>l, <2>1, <2>2
<1>5. ASSUME NEW k \in 1 .. m
      PROVE  /\ k \in Nat \ {0} /\ (k - 1) * ChildLimit \in Nat /\ k * ChildLimit \in Nat
             /\ k * ChildLimit = (k - 1) * ChildLimit + ChildLimit
             /\ ChunkSizes(n)[k] \in 1 .. ChildLimit /\ (k - 1) * ChildLimit < n
             /\ (k - 1) * ChildLimit + ChunkSizes(n)[k]
                  = IF k * ChildLimit <= n THEN k * ChildLimit ELSE n
  <2>1. k * ChildLimit <= m * ChildLimit /\ (k - 1) * ChildLimit = k * ChildLimit - ChildLimit
        /\ k * ChildLimit \in Int
    BY <1>1, <1>l, Multiples
  <2>2. 0 <= (k - 1) * ChildLimit
    <3>1. 0 * ChildLimit <= (k - 1) * ChildLimit
      BY <1>1, <1>l, Multiples
    <3> QED BY <1>l, <3>1
  <2> DEFINE p == k * ChildLimit
             o == (k - 1) * ChildLimit
  <2>3. p \in Int /\ o = p - ChildLimit /\ 0 <= o /\ p <= n + ChildLimit - 1
    <3>1. p \in Int /\ p <= e /\ o = p - ChildLimit /\ 0 <= o
      BY <2>1, <2>2
    <3> HIDE DEF p, o, e
    <3> QED BY <1>l, <1>4, <3>1
  <2>4. ChunkSizes(n)[k] = IF p <= n THEN ChildLimit ELSE n - o
    BY <1>3
  <2> HIDE DEF p, o
  <2>5. /\ o \in Nat /\ p \in Nat /\ p = o + ChildLimit
        /\ ChunkSizes(n)[k] \in 1 .. ChildLimit /\ o < n
        /\ o + ChunkSizes(n)[k] = IF p <= n THEN p ELSE n
    BY <1>l, <2>3, <2>4
  <2> QED BY <1>1, <2>5 DEF p, o
<1>6. m \in Nat /\ n <= m * ChildLimit
  BY <1>1, <1>4
<1> QED BY <1>2, <1>5, <1>6

\* Every entry is in one chunk.
LEMMA EntryInChunk ==
  ASSUME NEW n \in Nat, NEW i \in 1 .. n
  PROVE  /\ \E k \in DOMAIN ChunkSizes(n) : (k - 1) * ChildLimit < i /\ i <= k * ChildLimit
         /\ \A k, j \in DOMAIN ChunkSizes(n) :
              /\ (k - 1) * ChildLimit < i /\ i <= k * ChildLimit
              /\ (j - 1) * ChildLimit < i /\ i <= j * ChildLimit
              => k = j
<1>l. ChildLimit \in Nat \ {0}
  BY WorkflowAssumption
<1>1. PICK m \in Nat : DOMAIN ChunkSizes(n) = 1 .. m /\ n <= m * ChildLimit
  BY ChunksOf
<1>2. ASSUME NEW k \in 1 .. m, NEW j \in 1 .. m, k < j,
             i <= k * ChildLimit, (j - 1) * ChildLimit < i
      PROVE  FALSE
  <2>1. k * ChildLimit <= (j - 1) * ChildLimit /\ k * ChildLimit \in Int /\ (j - 1) * ChildLimit \in Int
    BY <1>l, <1>2, Multiples
  <2> QED BY <1>2, <2>1
<1>3. \A k, j \in 1 .. m :
        /\ (k - 1) * ChildLimit < i /\ i <= k * ChildLimit
        /\ (j - 1) * ChildLimit < i /\ i <= j * ChildLimit
        => k = j
  BY <1>2
<1>4. \E k \in 1 .. m : (k - 1) * ChildLimit < i /\ i <= k * ChildLimit
  <2> DEFINE q == (i - 1) \div ChildLimit
  <2>1. q \in Nat /\ ChildLimit * q <= i - 1 /\ i - 1 < ChildLimit * q + ChildLimit
    BY <1>l, Division
  <2> HIDE DEF q
  <2>2. (q + 1 - 1) * ChildLimit = (q + 1) * ChildLimit - ChildLimit /\ q * ChildLimit = ChildLimit * q
    BY <1>l, <2>1, Multiples
  <2>3. (q + 1 - 1) * ChildLimit < i /\ i <= (q + 1) * ChildLimit
    BY <1>l, <2>1, <2>2
  <2>4. q + 1 <= m
    <3> SUFFICES ASSUME m <= q PROVE FALSE
      BY <2>1
    <3>1. m * ChildLimit <= q * ChildLimit /\ m * ChildLimit \in Int
      BY <1>l, <2>1, Multiples
    <3>2. ChildLimit * q \in Int /\ n <= ChildLimit * q
      <4>1. q * ChildLimit \in Int /\ n <= m * ChildLimit
        BY <1>1, <1>l, <2>1
      <4> QED BY <2>2, <3>1, <4>1
    <3> DEFINE a == ChildLimit * q
    <3>3. a \in Int /\ n <= a /\ a <= i - 1
      BY <2>1, <3>2
    <3> HIDE DEF a
    <3> QED BY <3>3
  <2> QED BY <2>1, <2>3, <2>4
<1> QED BY <1>1, <1>3, <1>4

-------------------------------------------------------------------------------
(* What the invariant says of the child at hand.                             *)

\* The types, by part.
LEMMA WorkflowFacts ==
  ASSUME WorkflowTypes
  PROVE  /\ counts.children \in Nat /\ counts.items \in Nat /\ counts.new \in Nat /\ counts.already \in Nat
         /\ Len(pages) \in Nat \ {0} /\ DOMAIN pages = 1 .. Len(pages)
         /\ \A i \in 1 .. Len(pages) : pages[i] \in Pages
         /\ Current \in Pages
         /\ Len(listed) \in Nat /\ DOMAIN listed = 1 .. Len(listed)
         /\ \A i \in 1 .. Len(listed) : listed[i] \in Files
         /\ Len(children) \in Nat /\ DOMAIN children = 1 .. Len(children)
         /\ \A k \in 1 .. Len(children) : children[k] \in Children
         /\ Len(runs) \in Nat /\ DOMAIN runs = 1 .. Len(runs)
         /\ \A i \in 1 .. Len(runs) : runs[i] \in ChildRuns
<1>1. counts.children \in Nat /\ counts.items \in Nat /\ counts.new \in Nat /\ counts.already \in Nat
  BY DEF WorkflowTypes, Aggregates
<1>2. /\ Len(pages) \in Nat \ {0} /\ DOMAIN pages = 1 .. Len(pages)
      /\ \A i \in 1 .. Len(pages) : pages[i] \in Pages
  BY DEF WorkflowTypes
<1>3. Current \in Pages
  BY <1>2 DEF Current
<1>4. /\ Len(listed) \in Nat /\ DOMAIN listed = 1 .. Len(listed)
      /\ \A i \in 1 .. Len(listed) : listed[i] \in Files
  BY DEF WorkflowTypes
<1>5. /\ Len(children) \in Nat /\ DOMAIN children = 1 .. Len(children)
      /\ \A k \in 1 .. Len(children) : children[k] \in Children
  BY DEF WorkflowTypes
<1>6. /\ Len(runs) \in Nat /\ DOMAIN runs = 1 .. Len(runs)
      /\ \A i \in 1 .. Len(runs) : runs[i] \in ChildRuns
  BY DEF WorkflowTypes
<1> QED BY <1>1, <1>2, <1>3, <1>4, <1>5, <1>6

\* The children that are open are those after the counted ones, and the child at hand is
\* the first of them.
LEMMA ChildIs ==
  ASSUME WorkflowTypes, RunsInOrder
  PROVE  /\ Open = {} <=> counts.children = Len(children)
         /\ Open # {} => /\ Child = counts.children + 1
                         /\ Child \in 1 .. Len(children)
<1>t. /\ counts.children \in Nat /\ Len(children) \in Nat /\ DOMAIN children = 1 .. Len(children)
  BY WorkflowFacts
<1>1. counts.children <= Len(children)
      /\ \A k \in 1 .. Len(children) : children[k].state = "completed" <=> k <= counts.children
  BY <1>t DEF RunsInOrder, ChildFits
<1>2. Open = counts.children + 1 .. Len(children)
  BY <1>t, <1>1 DEF Open
<1>3. Open # {} => counts.children + 1 \in Open /\ \A j \in Open : counts.children + 1 <= j
  BY <1>t, <1>2
<1>4. Open # {} => Child \in Open /\ \A j \in Open : Child <= j
  BY <1>3 DEF Child
<1>5. Open # {} => Child = counts.children + 1
  BY <1>t, <1>2, <1>3, <1>4
<1> QED BY <1>t, <1>1, <1>2, <1>4, <1>5

\* Its run, when it has one, is the last one.
LEMMA RunIs ==
  ASSUME WorkflowTypes, RunsInOrder, Open # {}, children[Child].run # 0
  PROVE  /\ children[Child].run = Child /\ Len(runs) = Child /\ Child = counts.children + 1
         /\ Child \in DOMAIN runs /\ Run = runs[Child] /\ Run \in ChildRuns /\ RunFits(Child, Run)
         /\ \A r : SetRun(r) <=> runs' = [runs EXCEPT ![Child] = r]
<1>t. /\ counts.children \in Nat /\ DOMAIN children = 1 .. Len(children)
      /\ Len(runs) \in Nat /\ DOMAIN runs = 1 .. Len(runs)
      /\ \A i \in 1 .. Len(runs) : runs[i] \in ChildRuns
  BY WorkflowFacts
<1>1. Child = counts.children + 1 /\ Child \in 1 .. Len(children)
  BY ChildIs
<1>2. children[Child].run = Child /\ Child <= Len(runs)
  BY <1>t, <1>1 DEF RunsInOrder, ChildFits
<1>3. Len(runs) = Child
  BY <1>t, <1>1, <1>2 DEF RunsInOrder
<1>4. Run = runs[Child] /\ \A r : SetRun(r) <=> runs' = [runs EXCEPT ![Child] = r]
  BY <1>2 DEF Run, SetRun
<1>5. Child \in DOMAIN runs /\ Run \in ChildRuns /\ RunFits(Child, Run)
  BY <1>t, <1>1, <1>3, <1>4 DEF RunsInOrder
<1> QED BY <1>1, <1>2, <1>3, <1>4, <1>5

\* A child of an approved proposal has the entries from one multiple of the size of a
\* child to the next, or to the last entry.
LEMMA ChunkIs ==
  ASSUME WorkflowTypes, ChildrenCut, PagesChained, NEW k \in DOMAIN children
  PROVE  /\ ChunkFiles(k) = {listed[p] : p \in {x \in 1 .. Len(listed) :
                                  (k - 1) * ChildLimit < x /\ x <= k * ChildLimit}}
         /\ Cardinality(ChunkFiles(k)) = children[k].count
         /\ ChunkFiles(k) \in SUBSET Files
         /\ Upto(k - 1) + children[k].count = Upto(k)
         /\ Upto(k) \in Nat /\ Upto(k - 1) \in Nat
<1> DEFINE n == Len(listed)
           o == (k - 1) * ChildLimit
           p == k * ChildLimit
           z == children[k].count
           s == SubSeq(listed, o + 1, o + z)
<1>t. /\ n \in Nat /\ listed \in Seq(Files) /\ DOMAIN listed = 1 .. n
      /\ \A i \in 1 .. n : listed[i] \in Files
      /\ \A i, j \in 1 .. n : listed[i] = listed[j] => i = j
  BY WorkflowFacts DEF WorkflowTypes, PagesChained
<1>a. approved
  BY DEF ChildrenCut
<1>1. k \in DOMAIN ChunkSizes(n) /\ children[k].first = o + 1 /\ z = ChunkSizes(n)[k]
  BY <1>a DEF ChildrenCut
<1>2. /\ k \in Nat \ {0} /\ o \in Nat /\ p \in Nat /\ p = o + ChildLimit /\ z \in 1 .. ChildLimit
      /\ o < n /\ o + z = IF p <= n THEN p ELSE n
  BY <1>t, <1>1, ChunksOf
<1>l. ChildLimit \in Nat \ {0}
  BY WorkflowAssumption
<1>3. ChunkFiles(k) = ToSet(s)
  <2>1. o + 1 + z - 1 = o + z
    <3> HIDE DEF o, z, p, n
    <3> QED BY <1>2, <1>l
  <2> QED BY <1>1, <2>1 DEF ChunkFiles
<1>4. Upto(k - 1) = o /\ Upto(k) = o + z
  <2>1. Upto(k) = IF p <= n THEN p ELSE n
    BY DEF Upto
  <2>2. Upto(k - 1) = IF o <= n THEN o ELSE n
    BY DEF Upto
  <2> QED BY <1>t, <1>2, <2>1, <2>2
<1> HIDE DEF n, o, p, z
<1>5. s \in Seq(Files) /\ Len(s) = z /\ \A i \in 1 .. z : s[i] = listed[o + i]
  <2>1. /\ o + 1 \in 1 .. n + 1 /\ o + z \in o .. n /\ o + z \in Nat
        /\ (o + z) - (o + 1) + 1 = z /\ \A i \in 1 .. z : (o + 1) + i - 1 = o + i
    BY <1>t, <1>2, <1>l
  <2>2. n = Len(listed)
    BY DEF n
  <2> DEFINE a == o + 1
             b == o + z
  <2>3. a \in 1 .. n + 1 /\ b \in a - 1 .. n /\ b - a + 1 = z /\ \A i \in 1 .. z : a + i - 1 = o + i
    BY <1>2, <1>t, <1>l, <2>1
  <2> HIDE DEF a, b
  <2>4. SubSeq(listed, a, b) \in Seq(Files) /\ Len(SubSeq(listed, a, b)) = z
        /\ \A i \in 1 .. z : SubSeq(listed, a, b)[i] = listed[o + i]
    <3>1. a \in Int /\ b \in Int /\ \A i \in a .. b : listed[i] \in Files
      BY <1>t, <2>3
    <3>2. /\ SubSeq(listed, a, b) \in Seq(Files)
          /\ Len(SubSeq(listed, a, b)) = IF a <= b THEN b - a + 1 ELSE 0
          /\ \A i \in 1 .. b - a + 1 : SubSeq(listed, a, b)[i] = listed[a + i - 1]
      BY <3>1, SubSeqProperties
    <3>3. a <= b /\ b - a + 1 = z
      BY <1>2, <1>l, <2>3, <3>1
    <3> QED BY <2>3, <3>2, <3>3
  <2> QED BY <2>4 DEF a, b
<1>6. DOMAIN s = 1 .. z /\ \A i \in 1 .. z : o + i \in 1 .. n
  BY <1>2, <1>5, <1>l, <1>t
<1> HIDE DEF s
<1>7. \A i, j \in DOMAIN s : s[i] = s[j] => i = j
  <2> SUFFICES ASSUME NEW i \in 1 .. z, NEW j \in 1 .. z, s[i] = s[j] PROVE i = j
    BY <1>6
  <2>1. o + i = o + j
    BY <1>t, <1>5, <1>6
  <2> QED BY <1>2, <2>1
<1>8. Cardinality(ToSet(s)) = z
  BY <1>5, <1>7, RangeCounted
<1>9. ToSet(s) = {listed[x] : x \in {y \in 1 .. n : o < y /\ y <= p}}
  <2>1. \A i \in 1 .. z : o + i \in {y \in 1 .. n : o < y /\ y <= p}
    BY <1>2, <1>6, <1>t, <1>l
  <2>2. ASSUME NEW x \in 1 .. n, o < x, x <= p
        PROVE  x - o \in 1 .. z /\ o + (x - o) = x
    BY <1>2, <1>t, <1>l, <2>2
  <2>3. ToSet(s) = {s[i] : i \in 1 .. z}
    BY <1>6 DEF ToSet
  <2> QED BY <1>5, <2>1, <2>2, <2>3
<1>10. ToSet(s) \in SUBSET Files
  BY <1>t, <1>9
<1>11. o \in Nat /\ o + z \in Nat
  BY <1>2, <1>l
<1> QED BY <1>3, <1>4, <1>8, <1>9, <1>10, <1>11 DEF n, o, p, z

-------------------------------------------------------------------------------
(* What each kind of step has to show.                                       *)

\* The entries that are listed, as a union over the pages that were read.
LEMMA ListedIs ==
  ASSUME WorkflowTypes
  PROVE  /\ \A f : f \in Listed <=> \E i \in 1 .. Len(pages) : pages[i].done /\ f \in pages[i].items
         /\ Listed \subseteq Files /\ IsFiniteSet(Listed)
<1>1. /\ DOMAIN pages = 1 .. Len(pages) /\ \A i \in 1 .. Len(pages) : pages[i] \in Pages
  BY WorkflowFacts
<1>2. \A f : f \in Listed <=> \E i \in 1 .. Len(pages) : pages[i].done /\ f \in pages[i].items
  BY <1>1 DEF Listed
<1>3. Listed \subseteq Files
  BY <1>1, <1>2 DEF Pages
<1>4. IsFiniteSet(Listed)
  BY <1>3, WorkflowAssumption, FS_Subset
<1> QED BY <1>2, <1>3, <1>4

\* A proposal that a step leaves alone stays one.
LEMMA ProposalKept ==
  ASSUME PagesChained, UNCHANGED proposal
  PROVE  PagesChained' /\ (Proposed' <=> Proposed)
<1>1. pages' = pages /\ listed' = listed
  BY DEF proposal
<1>2. Listed' = Listed /\ Current' = Current
  BY <1>1 DEF Listed, Current
<1> QED BY <1>1, <1>2 DEF PagesChained, Proposed

\* The same of the children and their runs.
LEMMA ChildrenKept ==
  ASSUME UNCHANGED <<approved, proposal, children>>, ChildrenCut
  PROVE  ChildrenCut'
BY DEF proposal, ChildrenCut

LEMMA RunsKept ==
  ASSUME UNCHANGED <<counts, proposal, children, runs>>, RunsInOrder
  PROVE  RunsInOrder'
<1>1. \A i : ChunkFiles(i)' = ChunkFiles(i) /\ Upto(i)' = Upto(i)
  BY DEF proposal, ChunkFiles, Upto
<1>2. counts' = counts /\ children' = children /\ runs' = runs
  OBVIOUS
<1>3. Upto(counts.children)' = Upto(counts.children)
  BY <1>2 DEF proposal, Upto
<1>4. \A k \in DOMAIN children' : ChildFits(k, children[k])'
  BY <1>2 DEF RunsInOrder, ChildFits
<1>5. \A i \in DOMAIN runs' : RunFits(i, runs[i])'
  BY <1>1, <1>2 DEF RunsInOrder, RunFits
<1> QED BY <1>2, <1>3, <1>4, <1>5 DEF RunsInOrder

\* A step of the thread or of a request on the parent alone.
LEMMA ParentStep ==
  ASSUME WorkflowInv, UNCHANGED <<approved, counts, proposal, children, runs>>,
         state' \in States, worker' \in Workers,
         pc' \in [Requests -> {"idle", "read"}], seen' \in [Requests -> States \cup {"none"}],
         state' \in {"running", "blocked", "completed"} => approved,
         \A q \in Requests : seen'[q] \in {"running", "blocked"} => approved,
         worker' \in Executing => approved,
         worker' \in {"planned", "activating"} => worker' = worker,
         state' = "completed" => Open = {},
         Proposed \/ (state' \in {"inventorying", "failed"} /\ ~approved
                      /\ \A q \in Requests : seen'[q] = "none")
  PROVE  WorkflowInv'
<1>1. WorkflowTypes'
  BY DEF WorkflowInv, WorkflowTypes, proposal
<1>2. PagesChained' /\ (Proposed' <=> Proposed) /\ ChildrenCut' /\ RunsInOrder'
  BY ProposalKept, ChildrenKept, RunsKept DEF WorkflowInv
<1>3. ProposalSeen'
  BY <1>2 DEF ProposalSeen
<1>4. state' = "completed" => counts.children = Len(children)
  BY ChildIs DEF WorkflowInv
<1>5. ExecutionKnows'
  BY <1>4 DEF WorkflowInv, ExecutionKnows
<1> QED BY <1>1, <1>2, <1>3, <1>5 DEF WorkflowInv

\* A step on the pages, while the list is incomplete: nothing else is there yet.
LEMMA PagesStep ==
  ASSUME WorkflowInv, ~Proposed, UNCHANGED <<row, children, runs, pc, seen>>,
         worker' \in {worker, "loop"},
         pages' \in Seq(Pages), pages' # <<>>, listed' \in Seq(Files), PagesChained'
  PROVE  WorkflowInv'
<1>a. /\ state \in {"inventorying", "failed"} /\ ~approved /\ \A q \in Requests : seen[q] = "none"
      /\ state' = state /\ approved' = approved /\ counts' = counts
  BY DEF WorkflowInv, ProposalSeen, row
<1>b. worker \notin Executing /\ worker' \notin Executing
  BY <1>a DEF WorkflowInv, ExecutionKnows, Executing
<1>1. WorkflowTypes'
  BY <1>a DEF WorkflowInv, WorkflowTypes, Workers
<1>2. ProposalSeen' /\ ExecutionKnows'
  BY <1>a, <1>b DEF ProposalSeen, ExecutionKnows, Executing
<1>3. ChildrenCut' /\ children = <<>>
  BY <1>a DEF WorkflowInv, ChildrenCut
<1>4. RunsInOrder'
  <2>t. counts.children \in Nat /\ Len(runs) \in Nat /\ DOMAIN runs = 1 .. Len(runs)
        /\ Len(listed) \in Nat /\ Len(listed') \in Nat /\ runs \in Seq(ChildRuns)
    BY WorkflowFacts DEF WorkflowInv, WorkflowTypes
  <2>1. /\ counts.children <= Len(children) /\ Len(runs) <= Len(children)
        /\ counts.items = Upto(counts.children) /\ counts.new + counts.already = Upto(counts.children)
    BY DEF WorkflowInv, RunsInOrder
  <2>2. counts.children = 0 /\ Len(runs) = 0 /\ Len(children) = 0
    BY <1>3, <2>t, <2>1
  <2>3. Upto(0) = 0 /\ Upto(0)' = 0
    BY <2>t, WorkflowAssumption DEF Upto
  <2>4. children' = <<>> /\ counts'.children = 0 /\ DOMAIN runs' = {} /\ Len(runs') = 0
        /\ counts'.items = 0 /\ counts'.new + counts'.already = 0
    BY <1>a, <1>3, <2>t, <2>1, <2>2, <2>3
  <2>5. Upto(counts.children)' = 0
    BY <2>3, <2>4
  <2> QED BY <2>4, <2>5 DEF RunsInOrder
<1> QED BY <1>1, <1>2, <1>3, <1>4 DEF WorkflowInv

\* A page that is not read yet is replaced by another one.
LEMMA PageEdit ==
  ASSUME WorkflowTypes, PagesChained, NEW p \in Pages, ~Current.done, ~p.done,
         SetPage(p), listed' = listed
  PROVE  pages' \in Seq(Pages) /\ pages' # <<>> /\ PagesChained'
<1> DEFINE n == Len(pages)
<1>t. /\ n \in Nat \ {0} /\ pages \in Seq(Pages) /\ DOMAIN pages = 1 .. n
  BY WorkflowFacts DEF WorkflowTypes
<1>u. pages' \in Seq(Pages) /\ Len(pages') = n /\ DOMAIN pages' = 1 .. n
      /\ pages'[n] = p /\ \A i \in 1 .. n : i # n => pages'[i] = pages[i]
  <2>1. pages' = [pages EXCEPT ![n] = p] /\ n \in 1 .. n
    BY <1>t DEF SetPage
  <2>2. Len(pages) = n
    OBVIOUS
  <2> HIDE DEF n
  <2>3. pages' \in Seq(Pages) /\ Len(pages') = n
    BY <1>t, <2>1, <2>2, ExceptSeq
  <2> QED BY <1>t, <2>1, <2>2, <2>3
<1>c. ~pages[n].done
  BY DEF Current
<1>1. pages' # <<>>
  BY <1>t, <1>u
<1>2. Listed' = Listed
  <2>1. {pages'[i].items : i \in {j \in DOMAIN pages' : pages'[j].done}}
          = {pages[i].items : i \in {j \in DOMAIN pages : pages[j].done}}
    <3>1. {j \in DOMAIN pages' : pages'[j].done} = {j \in DOMAIN pages : pages[j].done}
      <4>1. \A j \in 1 .. n : pages'[j].done <=> pages[j].done
        <5> SUFFICES ASSUME NEW j \in 1 .. n PROVE pages'[j].done <=> pages[j].done
          OBVIOUS
        <5>1. CASE j = n
          BY <1>u, <1>c, <5>1
        <5>2. CASE j # n
          BY <1>u, <5>2
        <5> QED BY <5>1, <5>2
      <4> QED BY <1>t, <1>u, <4>1
    <3>2. \A i \in {j \in DOMAIN pages : pages[j].done} : pages'[i].items = pages[i].items
      <4> SUFFICES ASSUME NEW i \in 1 .. n, pages[i].done PROVE pages'[i] = pages[i]
        BY <1>t
      <4>1. i # n
        BY <1>c
      <4> QED BY <1>u, <4>1
    <3> QED BY <3>1, <3>2
  <2> QED BY <2>1 DEF Listed
<1> HIDE DEF n
<1>3. \A i \in 1 .. n :
        /\ i < n => pages'[i].done /\ ~pages'[i].last
        /\ pages'[i].done => pages'[i].kind = "page" /\ pages'[i].op = "completed"
  <2>1. \A i \in 1 .. n : i < n => i # n /\ pages[i].done /\ ~pages[i].last
    <3>1. \A i \in 1 .. n : i < Len(pages) => pages[i].done /\ ~pages[i].last
      BY <1>t DEF PagesChained
    <3>2. Len(pages) = n
      BY DEF n
    <3> QED BY <1>t, <3>1, <3>2
  <2>2. \A i \in 1 .. n : pages[i].done => pages[i].kind = "page" /\ pages[i].op = "completed"
    BY <1>t DEF PagesChained
  <2> QED BY <1>u, <2>1, <2>2
<1>4. \A i, j \in 1 .. n : i # j /\ pages'[i].done /\ pages'[j].done =>
        pages'[i].items \cap pages'[j].items = {}
  BY <1>t, <1>u DEF PagesChained
<1>5. (\A i, j \in DOMAIN listed : listed[i] = listed[j] => i = j) /\ ToSet(listed) = Listed \cap Eligible
      /\ Cardinality(Listed) <= MaxEntries
  BY DEF PagesChained
<1> QED BY <1>u, <1>1, <1>2, <1>3, <1>4, <1>5 DEF PagesChained

\* A step on the run of the child at hand.
LEMMA RunEdit ==
  ASSUME WorkflowInv, Open # {}, children[Child].run # 0,
         NEW r \in ChildRuns, SetRun(r), RunFits(Child, r),
         UNCHANGED <<row, proposal, children, pc, seen>>,
         worker' \in Workers, worker' \in Executing => approved,
         worker' = "planned" => worker = "planned", worker' = "activating" => r.state = "planned"
  PROVE  WorkflowInv'
<1>t. /\ runs \in Seq(ChildRuns) /\ DOMAIN runs = 1 .. Len(runs) /\ Len(runs) \in Nat
      /\ counts.children \in Nat /\ Len(children) \in Nat
  BY WorkflowFacts DEF WorkflowInv, WorkflowTypes
<1>r. /\ children[Child].run = Child /\ Len(runs) = Child /\ Child = counts.children + 1
      /\ Child \in DOMAIN runs /\ runs' = [runs EXCEPT ![Child] = r] /\ Child \in 1 .. Len(children)
  BY RunIs, ChildIs DEF WorkflowInv
<1> DEFINE c == Child
<1>u. runs' \in Seq(ChildRuns) /\ Len(runs') = Len(runs) /\ DOMAIN runs' = 1 .. Len(runs)
      /\ runs'[c] = r /\ \A i \in 1 .. Len(runs) : i # c => runs'[i] = runs[i]
  BY <1>t, <1>r
<1>s. UNCHANGED <<state, approved, counts, pages, listed>>
  BY DEF row, proposal
<1>1. WorkflowTypes'
  BY <1>u, <1>s DEF WorkflowInv, WorkflowTypes
<1>2. PagesChained' /\ (Proposed' <=> Proposed) /\ ChildrenCut'
  BY <1>s, ProposalKept, ChildrenKept DEF WorkflowInv
<1>3. ProposalSeen'
  BY <1>2, <1>s DEF WorkflowInv, ProposalSeen
<1>4. RunsInOrder'
  <2>1. \A i : ChunkFiles(i)' = ChunkFiles(i) /\ Upto(i)' = Upto(i)
    BY <1>s DEF ChunkFiles, Upto
  <2>2. Upto(counts.children)' = Upto(counts.children)
    BY <1>s DEF Upto
  <2>4. /\ \A k \in DOMAIN children : ChildFits(k, children[k])
        /\ \A i \in DOMAIN runs : RunFits(i, runs[i])
    BY DEF WorkflowInv, RunsInOrder
  <2>5. \A k \in DOMAIN children' : ChildFits(k, children[k])'
    BY <1>s, <1>u, <2>4 DEF ChildFits
  <2>6. \A i \in DOMAIN runs' : RunFits(i, runs[i])'
    <3>1. RunFits(c, r)
      OBVIOUS
    <3> HIDE DEF c
    <3>2. \A i \in 1 .. Len(runs) : RunFits(i, runs'[i])
      BY <1>t, <1>u, <2>4, <3>1
    <3>3. \A i \in DOMAIN runs' : RunFits(i, runs'[i])
      BY <1>u, <3>2
    <3> QED BY <1>s, <2>1, <3>3 DEF RunFits
  <2>7. /\ counts.children <= Len(children) /\ Len(runs) <= Len(children)
        /\ Len(runs) \in {counts.children, counts.children + 1}
        /\ counts.items = Upto(counts.children) /\ counts.new + counts.already = Upto(counts.children)
    BY DEF WorkflowInv, RunsInOrder
  <2>8. children' = children /\ Len(runs') = Len(runs)
    BY <1>u
  <2> QED BY <1>s, <2>2, <2>5, <2>6, <2>7, <2>8 DEF RunsInOrder
<1>5. ExecutionKnows'
  <2>1. /\ worker' = "activating" =>
             /\ counts.children < Len(children) /\ Len(runs) = counts.children + 1
             /\ children[Len(runs)].run = Len(runs) /\ runs'[Len(runs)].state = "planned"
    BY <1>r, <1>t, <1>u
  <2>2. worker' = "planned" => counts.children < Len(children)
    BY DEF WorkflowInv, ExecutionKnows
  <2> QED BY <1>s, <1>u, <2>1, <2>2 DEF WorkflowInv, ExecutionKnows
<1> QED BY <1>1, <1>2, <1>3, <1>4, <1>5 DEF WorkflowInv

-------------------------------------------------------------------------------
(* The steps on the pages.                                                   *)

\* A page is asked for, attested, answered or lost.
LEMMA PageReplaced ==
  ASSUME WorkflowInv, AskAgain \/ AttestAgain \/ HelperLists \/ HelperAttests \/ PageLost
  PROVE  ~Proposed /\ WorkflowInv'
<1>t. WorkflowTypes /\ PagesChained /\ Current \in Pages
  BY WorkflowFacts DEF WorkflowInv
<1>d. Current.done => Current.kind = "page" /\ Current.op = "completed"
  BY <1>t, WorkflowFacts DEF PagesChained, Current
<1>1. /\ ~Current.done
      /\ UNCHANGED <<row, children, runs, pc, seen>> /\ worker' \in {worker, "loop"} /\ listed' = listed
      /\ \E p \in Pages : ~p.done /\ SetPage(p)
  <2>1. CASE AskAgain
    <3>1. NewPage("page") \in Pages /\ ~NewPage("page").done
      BY DEF NewPage, Pages
    <3> QED BY <1>d, <2>1, <3>1 DEF AskAgain, InInventory, row
  <2>2. CASE AttestAgain
    <3>1. NewPage("attest") \in Pages /\ ~NewPage("attest").done
      BY DEF NewPage, Pages
    <3> QED BY <1>d, <2>2, <3>1 DEF AttestAgain, InInventory, row
  <2>3. CASE HelperLists
    <3>1. ~Current.done
      BY <1>d, <2>3 DEF HelperLists
    <3>2. PICK items \in SUBSET Files, last \in BOOLEAN :
            SetPage([Current EXCEPT !.op = "completed", !.items = items, !.last = last])
      BY <2>3 DEF HelperLists
    <3> DEFINE p == [Current EXCEPT !.op = "completed", !.items = items, !.last = last]
    <3>3. p \in Pages /\ ~p.done
      BY <1>t, <3>1 DEF Pages
    <3> QED BY <2>3, <3>1, <3>2, <3>3 DEF HelperLists
  <2>4. CASE HelperAttests
    <3>1. ~Current.done
      BY <1>d, <2>4 DEF HelperAttests
    <3> DEFINE p == [Current EXCEPT !.op = "completed"]
    <3>2. p \in Pages /\ ~p.done
      BY <1>t, <3>1 DEF Pages
    <3> QED BY <2>4, <3>1, <3>2 DEF HelperAttests
  <2>5. CASE PageLost
    <3>1. ~Current.done
      BY <1>d, <2>5 DEF PageLost
    <3>2. PICK end \in {"lost", "invalid", "attestation_required"} : SetPage([Current EXCEPT !.op = end])
      BY <2>5 DEF PageLost
    <3> DEFINE p == [Current EXCEPT !.op = end]
    <3>3. p \in Pages /\ ~p.done
      BY <1>t, <3>1 DEF Pages
    <3> QED BY <2>5, <3>1, <3>2, <3>3 DEF PageLost
  <2> QED BY <2>1, <2>2, <2>3, <2>4, <2>5
<1>2. pages' \in Seq(Pages) /\ pages' # <<>> /\ PagesChained'
  BY <1>t, <1>1, PageEdit
<1>3. listed' \in Seq(Files) /\ ~Proposed
  BY <1>t, <1>1 DEF WorkflowTypes, Proposed
<1> QED BY <1>1, <1>2, <1>3, PagesStep

\* The list goes on with another page.
LEMMA PageFollows ==
  ASSUME WorkflowInv, NextPage
  PROVE  ~Proposed /\ WorkflowInv'
<1> DEFINE n == Len(pages)
<1>t. /\ n \in Nat \ {0} /\ pages \in Seq(Pages) /\ DOMAIN pages = 1 .. n
      /\ listed \in Seq(Files) /\ PagesChained
  BY WorkflowFacts DEF WorkflowInv, WorkflowTypes
<1>1. PICK p \in Pages : pages' = Append(pages, p) /\ ~p.done
  <2>1. NewPage("page") \in Pages /\ ~NewPage("page").done
        /\ NewPage("attest") \in Pages /\ ~NewPage("attest").done
    BY DEF NewPage, Pages
  <2> QED BY <2>1 DEF NextPage
<1>2. /\ pages[n].done /\ ~pages[n].last /\ listed' = listed /\ worker' = "loop"
      /\ UNCHANGED <<row, children, runs, pc, seen>>
  BY DEF NextPage, InInventory, Current, row
<1>3. ~Proposed
  BY <1>2 DEF Proposed, Current
<1>u. pages' \in Seq(Pages) /\ Len(pages') = n + 1 /\ DOMAIN pages' = 1 .. n + 1
      /\ pages'[n + 1] = p /\ \A i \in 1 .. n : pages'[i] = pages[i]
  BY <1>t, <1>1
<1>4. pages' # <<>>
  BY <1>t, <1>u
<1>5. Listed' = Listed
  <2>1. {j \in DOMAIN pages' : pages'[j].done} = {j \in DOMAIN pages : pages[j].done}
    <3> HIDE DEF n
    <3>1. \A j \in 1 .. n + 1 : pages'[j].done <=> j \in 1 .. n /\ pages[j].done
      <4> SUFFICES ASSUME NEW j \in 1 .. n + 1
                   PROVE  pages'[j].done <=> j \in 1 .. n /\ pages[j].done
        OBVIOUS
      <4>1. CASE j = n + 1
        BY <1>1, <1>t, <1>u, <4>1
      <4>2. CASE j \in 1 .. n
        BY <1>u, <4>2
      <4> QED BY <1>t, <4>1, <4>2
    <3> QED BY <1>t, <1>u, <3>1
  <2>2. \A i \in {j \in DOMAIN pages : pages[j].done} : pages'[i].items = pages[i].items
    BY <1>t, <1>u
  <2>3. {pages'[i].items : i \in {j \in DOMAIN pages' : pages'[j].done}}
          = {pages[i].items : i \in {j \in DOMAIN pages : pages[j].done}}
    BY <2>1, <2>2
  <2> QED BY <2>3 DEF Listed
<1>6. \A i \in 1 .. n : pages[i].done /\ ~pages[i].last /\ pages[i].kind = "page" /\ pages[i].op = "completed"
  <2> SUFFICES ASSUME NEW i \in 1 .. n
               PROVE pages[i].done /\ ~pages[i].last /\ pages[i].kind = "page" /\ pages[i].op = "completed"
    OBVIOUS
  <2>1. pages[i].done /\ ~pages[i].last
    <3>1. CASE i = n
      BY <1>2, <3>1
    <3>2. CASE i # n
      <4> HIDE DEF n
      <4>1. i < n
        BY <1>t, <3>2
      <4>2. n = Len(pages)
        BY DEF n
      <4> QED BY <1>t, <4>1, <4>2 DEF PagesChained
    <3> QED BY <3>1, <3>2
  <2> QED BY <1>t, <2>1 DEF PagesChained
<1>7. \A i, j \in 1 .. n : i # j => pages[i].items \cap pages[j].items = {}
  BY <1>t, <1>6 DEF PagesChained
<1> HIDE DEF n
<1>8. \A i \in DOMAIN pages' :
        /\ i < Len(pages') => pages'[i].done /\ ~pages'[i].last
        /\ pages'[i].done => pages'[i].kind = "page" /\ pages'[i].op = "completed"
  <2> SUFFICES ASSUME NEW i \in 1 .. n + 1
               PROVE  /\ i < n + 1 => pages'[i].done /\ ~pages'[i].last
                      /\ pages'[i].done => pages'[i].kind = "page" /\ pages'[i].op = "completed"
    BY <1>u
  <2>1. CASE i = n + 1
    BY <1>1, <1>t, <1>u, <2>1
  <2>2. CASE i \in 1 .. n
    BY <1>u, <1>6, <2>2
  <2> QED BY <1>t, <2>1, <2>2
<1>9. \A i, j \in DOMAIN pages' : i # j /\ pages'[i].done /\ pages'[j].done =>
        pages'[i].items \cap pages'[j].items = {}
  <2>1. \A i \in 1 .. n + 1 : pages'[i].done => i \in 1 .. n
    BY <1>1, <1>t, <1>u
  <2> QED BY <1>u, <1>7, <2>1
<1>10. (\A i, j \in DOMAIN listed : listed[i] = listed[j] => i = j) /\ ToSet(listed) = Listed \cap Eligible
       /\ Cardinality(Listed) <= MaxEntries
  BY <1>t DEF PagesChained
<1>11. PagesChained'
  BY <1>2, <1>5, <1>8, <1>9, <1>10 DEF PagesChained
<1> QED BY <1>2, <1>3, <1>4, <1>11, <1>t, <1>u, PagesStep

\* A page is read: what it lists is new.
LEMMA PageRead ==
  ASSUME WorkflowInv, AcceptPage
  PROVE  ~Proposed /\ WorkflowInv'
<1> DEFINE n == Len(pages)
           p == [Current EXCEPT !.done = TRUE]
           new == Current.items
           s == SetToSeq(new \cap Eligible)
<1>t. /\ n \in Nat \ {0} /\ pages \in Seq(Pages) /\ DOMAIN pages = 1 .. n /\ Current \in Pages
      /\ \A i \in 1 .. n : pages[i] \in Pages
      /\ listed \in Seq(Files) /\ Len(listed) \in Nat /\ DOMAIN listed = 1 .. Len(listed)
      /\ PagesChained /\ WorkflowTypes
  BY WorkflowFacts DEF WorkflowInv, WorkflowTypes
<1>1. /\ Current.kind = "page" /\ Current.op = "completed" /\ ~Current.done
      /\ pages' = [pages EXCEPT ![n] = p] /\ listed' = listed \o s
      /\ worker' = worker /\ UNCHANGED <<row, children, runs, pc, seen>>
  BY DEF AcceptPage, InInventory, SetPage, row
<1>2. new \cap Listed = {} /\ Cardinality(Listed) + Cardinality(new) <= MaxEntries
  <2>1. ~(new \cap Listed # {} \/ Cardinality(Listed) + Cardinality(new) > MaxEntries)
    BY <1>1 DEF AcceptPage, Refusable
  <2>2. new \subseteq Files /\ IsFiniteSet(new)
    BY <1>t, WorkflowAssumption, FS_Subset DEF Pages
  <2>3. Cardinality(Listed) \in Nat /\ Cardinality(new) \in Nat /\ MaxEntries \in Nat
    BY <1>t, <2>2, ListedIs, FS_CardinalityType, WorkflowAssumption
  <2> QED BY <2>1, <2>3
<1>3. ~Proposed
  BY <1>1 DEF Proposed
<1>4. p \in Pages /\ p.done /\ p.kind = "page" /\ p.op = "completed" /\ p.items = new /\ new \subseteq Files
  BY <1>t, <1>1 DEF Pages
<1>c. ~pages[n].done
  BY <1>1 DEF Current
<1>5. IsFiniteSet(new) /\ IsFiniteSet(new \cap Eligible)
  BY <1>4, WorkflowAssumption, FS_Subset
<1>6. /\ s \in Seq(new \cap Eligible) /\ Len(s) \in Nat /\ DOMAIN s = 1 .. Len(s)
      /\ \A i, j \in 1 .. Len(s) : s[i] = s[j] => i = j
      /\ ToSet(s) = new \cap Eligible
  <2>1. /\ s \in Seq(new \cap Eligible) /\ Len(s) = Cardinality(new \cap Eligible)
        /\ \A i, j \in 1 .. Len(s) : s[i] = s[j] => i = j
        /\ ToSet(s) = new \cap Eligible
    BY <1>5, SetToSeqIs
  <2> HIDE DEF s
  <2>2. Len(s) \in Nat /\ DOMAIN s = 1 .. Len(s)
    BY <2>1
  <2> QED BY <2>1, <2>2
<1> HIDE DEF n, p, new, s
<1>7. n = Len(pages)
  BY DEF n
<1>u. pages' \in Seq(Pages) /\ Len(pages') = n /\ DOMAIN pages' = 1 .. n
      /\ pages'[n] = p /\ \A i \in 1 .. n : i # n => pages'[i] = pages[i]
  <2>1. pages' \in Seq(Pages) /\ Len(pages') = n
    BY <1>t, <1>1, <1>4, <1>7, ExceptSeq
  <2> QED BY <1>t, <1>1, <2>1
<1>8. pages' # <<>>
  BY <1>t, <1>u
<1>9. \A f : f \in Listed <=> \E i \in 1 .. n : pages[i].done /\ f \in pages[i].items
  BY <1>t, <1>7, ListedIs
<1>10. Listed' = Listed \cup new
  <2>1. \A f : f \in Listed' <=> \E i \in 1 .. n : pages'[i].done /\ f \in pages'[i].items
    BY <1>u DEF Listed
  <2>2. ASSUME NEW f PROVE f \in Listed' <=> f \in Listed \cup new
    <3>1. CASE f \in Listed
      <4>1. PICK i \in 1 .. n : pages[i].done /\ f \in pages[i].items
        BY <1>9, <3>1
      <4>2. pages'[i] = pages[i]
        BY <1>c, <1>u, <4>1
      <4> QED BY <2>1, <3>1, <4>1, <4>2
    <3>2. CASE f \in new
      BY <1>t, <1>u, <1>4, <2>1, <3>2
    <3>3. CASE f \in Listed'
      <4>1. PICK i \in 1 .. n : pages'[i].done /\ f \in pages'[i].items
        BY <2>1, <3>3
      <4>2. CASE i = n
        <5>1. f \in p.items
          BY <1>u, <4>1, <4>2
        <5> QED BY <1>4, <3>3, <5>1
      <4>3. CASE i # n
        <5>1. pages[i].done /\ f \in pages[i].items
          BY <1>u, <4>1, <4>3
        <5>2. f \in Listed
          BY <1>9, <5>1
        <5> QED BY <3>3, <5>2
      <4> QED BY <4>2, <4>3
    <3> QED BY <3>1, <3>2, <3>3
  <2> QED BY <2>2
<1>11. Cardinality(Listed') <= MaxEntries
  <2>1. IsFiniteSet(Listed) /\ Cardinality(Listed) \in Nat /\ Cardinality(new) \in Nat
    BY <1>t, <1>5, ListedIs, FS_CardinalityType
  <2>2. Cardinality(Listed \cup new) = Cardinality(Listed) + Cardinality(new) - Cardinality(Listed \cap new)
    BY <1>5, <2>1, FS_Union
  <2>3. Cardinality(Listed \cap new) = 0
    BY <1>2, FS_EmptySet
  <2> QED BY <1>2, <1>10, <2>1, <2>2, <2>3, WorkflowAssumption
<1>12. \A i \in DOMAIN pages' :
        /\ i < Len(pages') => pages'[i].done /\ ~pages'[i].last
        /\ pages'[i].done => pages'[i].kind = "page" /\ pages'[i].op = "completed"
  <2>1. \A i \in 1 .. n : i < n => i # n /\ pages[i].done /\ ~pages[i].last
    <3>1. \A i \in 1 .. n : i < Len(pages) => pages[i].done /\ ~pages[i].last
      BY <1>t DEF PagesChained
    <3>2. \A i \in 1 .. n : i < n => i # n
      BY <1>t
    <3> QED BY <1>7, <3>1, <3>2
  <2>2. \A i \in 1 .. n : pages[i].done => pages[i].kind = "page" /\ pages[i].op = "completed"
    BY <1>t DEF PagesChained
  <2> QED BY <1>4, <1>u, <2>1, <2>2
<1>13. \A i, j \in DOMAIN pages' : i # j /\ pages'[i].done /\ pages'[j].done =>
        pages'[i].items \cap pages'[j].items = {}
  <2>1. \A i \in 1 .. n : i # n /\ pages'[i].done => pages'[i].items \cap new = {}
    BY <1>2, <1>9, <1>u
  <2>2. \A i, j \in 1 .. n : i # j /\ pages[i].done /\ pages[j].done =>
          pages[i].items \cap pages[j].items = {}
    BY <1>t DEF PagesChained
  <2> SUFFICES ASSUME NEW i \in 1 .. n, NEW j \in 1 .. n, i # j, pages'[i].done, pages'[j].done
               PROVE  pages'[i].items \cap pages'[j].items = {}
    BY <1>u
  <2>3. CASE i = n
    BY <1>4, <1>u, <2>1, <2>3
  <2>4. CASE j = n
    BY <1>4, <1>u, <2>1, <2>4
  <2>5. CASE i # n /\ j # n
    BY <1>u, <2>2, <2>5
  <2> QED BY <2>3, <2>4, <2>5
<1>14. /\ \A i, j \in 1 .. Len(listed) : listed[i] = listed[j] => i = j
       /\ ToSet(listed) = Listed \cap Eligible
       /\ \A i \in 1 .. Len(listed) : listed[i] \in Listed
  <2>1. (\A i, j \in DOMAIN listed : listed[i] = listed[j] => i = j) /\ ToSet(listed) = Listed \cap Eligible
    BY <1>t DEF PagesChained
  <2>2. \A i \in 1 .. Len(listed) : listed[i] \in ToSet(listed)
    BY <1>t DEF ToSet
  <2> QED BY <1>t, <2>1, <2>2
<1>15. \A i \in 1 .. Len(s) : s[i] \in new /\ s[i] \notin Listed
  BY <1>2, <1>6
<1> DEFINE a == Len(listed)
           b == Len(s)
<1>16. /\ listed' \in Seq(Files) /\ DOMAIN listed' = 1 .. a + b /\ Len(listed') = a + b
       /\ \A i \in 1 .. a : listed'[i] = listed[i]
       /\ \A i \in 1 .. b : listed'[a + i] = s[i]
  <2>1. s \in Seq(Files)
    BY <1>4, <1>6
  <2>2. listed' \in Seq(Files) /\ Len(listed') = a + b
    BY <1>1, <1>t, <2>1, ConcatProperties
  <2>3. \A i \in 1 .. a + b : listed'[i] = IF i <= a THEN listed[i] ELSE s[i - a]
    BY <1>1, <1>t, <2>1, ConcatProperties
  <2>4. a \in Nat /\ b \in Nat
    BY <1>t, <1>6
  <2> HIDE DEF a, b
  <2>5. \A i \in 1 .. a : listed'[i] = listed[i]
    BY <2>3, <2>4
  <2>6. \A i \in 1 .. b : a + i \in 1 .. a + b /\ ~(a + i <= a) /\ (a + i) - a = i
    BY <2>4
  <2>7. \A i \in 1 .. b : listed'[a + i] = s[i]
    BY <2>3, <2>6
  <2> QED BY <2>2, <2>4, <2>5, <2>7
<1>17. a \in Nat /\ b \in Nat
  BY <1>t, <1>6
<1>18. \A i \in 1 .. a + b : i \in 1 .. a \/ (i - a \in 1 .. b /\ i = a + (i - a))
  BY <1>17
<1>19. \A i, j \in DOMAIN listed' : listed'[i] = listed'[j] => i = j
  <2> SUFFICES ASSUME NEW i \in 1 .. a + b, NEW j \in 1 .. a + b, listed'[i] = listed'[j]
               PROVE  i = j
    BY <1>16
  <2>l. /\ \A x \in 1 .. a : listed'[x] = listed[x] /\ listed[x] \in Listed
        /\ \A x \in 1 .. b : listed'[a + x] = s[x] /\ s[x] \notin Listed
        /\ \A x, y \in 1 .. a : listed[x] = listed[y] => x = y
        /\ \A x, y \in 1 .. b : s[x] = s[y] => x = y
    BY <1>6, <1>14, <1>15, <1>16
  <2> HIDE DEF a, b
  <2>1. CASE i \in 1 .. a /\ j \in 1 .. a
    BY <2>l, <2>1
  <2>2. CASE i \in 1 .. a /\ j - a \in 1 .. b
    BY <1>17, <1>18, <2>l, <2>2
  <2>3. CASE i - a \in 1 .. b /\ j \in 1 .. a
    BY <1>17, <1>18, <2>l, <2>3
  <2>4. CASE i - a \in 1 .. b /\ j - a \in 1 .. b
    <3>1. listed'[a + (i - a)] = s[i - a] /\ listed'[a + (j - a)] = s[j - a]
      BY <2>l, <2>4
    <3>2. a + (i - a) = i /\ a + (j - a) = j
      BY <1>17
    <3>3. s[i - a] = s[j - a]
      BY <3>1, <3>2
    <3>4. i - a = j - a
      BY <2>l, <2>4, <3>3
    <3> QED BY <3>2, <3>4
  <2> QED BY <1>18, <2>1, <2>2, <2>3, <2>4
<1>20. ToSet(listed') = Listed' \cap Eligible
  <2>1. ToSet(listed') = {listed'[i] : i \in 1 .. a + b}
    BY <1>16 DEF ToSet
  <2>2. ToSet(listed) = {listed[i] : i \in 1 .. a} /\ ToSet(s) = {s[i] : i \in 1 .. b}
    BY <1>t, <1>6 DEF ToSet
  <2>3. \A i \in 1 .. a : i \in 1 .. a + b
    BY <1>17
  <2>4. \A i \in 1 .. b : a + i \in 1 .. a + b
    BY <1>17
  <2> HIDE DEF a, b
  <2>5. \A f \in ToSet(listed') : f \in ToSet(listed) \cup ToSet(s)
    BY <1>16, <1>18, <2>1, <2>2
  <2>6. \A f \in ToSet(listed) \cup ToSet(s) : f \in ToSet(listed')
    BY <1>16, <2>1, <2>2, <2>3, <2>4
  <2> QED BY <1>6, <1>10, <1>14, <2>5, <2>6
<1>21. PagesChained'
  BY <1>11, <1>12, <1>13, <1>19, <1>20 DEF PagesChained
<1> QED BY <1>1, <1>3, <1>8, <1>16, <1>21, <1>u, PagesStep

-------------------------------------------------------------------------------
(* The steps that write the parent alone.                                    *)

\* The steps of the thread that leave children and runs as they are.
LEMMA ThreadParentSteps ==
  ASSUME WorkflowInv,
         \/ ReadParent \/ HandleError \/ EndWorker
         \/ WaitPage \/ RefuseInventory \/ Propose \/ RefuseCapacity
         \/ FinishParent \/ ActivationConflict \/ WaitHelper \/ ReceivingStuck \/ Interrupted
         \/ WaitBridge \/ FailChild
  PROVE  WorkflowInv' /\ UNCHANGED <<approved, proposal, children>>
<1>t. /\ state \in States /\ worker \in Workers /\ pc \in [Requests -> {"idle", "read"}]
      /\ seen \in [Requests -> States \cup {"none"}] /\ approved \in BOOLEAN
  BY DEF WorkflowInv, WorkflowTypes
<1>k. /\ state \in {"running", "blocked", "completed"} => approved
      /\ \A q \in Requests : seen[q] \in {"running", "blocked"} => approved
      /\ worker \in Executing => approved
  BY DEF WorkflowInv, ExecutionKnows
<1>o. state = "completed" => Open = {}
  BY ChildIs DEF WorkflowInv, ExecutionKnows
<1>p. \/ Proposed
      \/ state \in {"inventorying", "failed"} /\ ~approved /\ \A q \in Requests : seen[q] = "none"
  BY DEF WorkflowInv, ProposalSeen
<1>1. /\ UNCHANGED <<approved, counts, proposal, children, runs, pc, seen>>
      /\ state' \in States /\ worker' \in Workers
      /\ state' \in {"running", "blocked", "completed"} => approved
      /\ worker' \in Executing => approved
      /\ worker' \in {"planned", "activating"} => worker' = worker
      /\ state' = "completed" => Open = {}
      /\ Proposed \/ (state' \in {"inventorying", "failed"} /\ ~approved
                      /\ \A q \in Requests : seen[q] = "none")
  <2>1. CASE ReadParent
    BY <1>t, <1>k, <1>o, <1>p, <2>1 DEF ReadParent, row, Workers, Executing, States
  <2>2. CASE HandleError
    BY <1>t, <1>k, <1>o, <1>p, <2>2 DEF HandleError, Workers, Executing, States
  <2>3. CASE EndWorker
    BY <1>t, <1>k, <1>o, <1>p, <2>3 DEF EndWorker, row, Workers, Executing
  <2>4. CASE WaitPage \/ RefuseInventory \/ RefuseCapacity
    BY <1>t, <1>k, <1>o, <1>p, <2>4
       DEF WaitPage, RefuseInventory, RefuseCapacity, InInventory, Raise, Workers, Executing
  <2>5. CASE Propose
    BY <1>t, <1>k, <1>o, <1>p, <2>5 DEF Propose, Proposed, InInventory, Workers, Executing, States
  <2>6. CASE FinishParent
    BY <1>t, <1>k, <1>p, <2>6 DEF FinishParent, InExecution, Workers, Executing, States
  <2>7. CASE ActivationConflict \/ ReceivingStuck \/ Interrupted
    BY <1>t, <1>k, <1>o, <1>p, <2>7
       DEF ActivationConflict, ReceivingStuck, Interrupted, Receiving, AtRun, InExecution, Stay, Raise,
           Workers, Executing
  <2>8. CASE WaitHelper \/ WaitBridge
    BY <1>t, <1>k, <1>o, <1>p, <2>8
       DEF WaitHelper, WaitBridge, Receiving, AtRun, InExecution, Stay, Workers, Executing
  <2>9. CASE FailChild
    BY <1>t, <1>k, <1>p, <2>9 DEF FailChild, AtRun, InExecution, Workers, Executing, States
  <2> QED BY <2>1, <2>2, <2>3, <2>4, <2>5, <2>6, <2>7, <2>8, <2>9
<1>2. WorkflowInv'
  BY <1>t, <1>k, <1>1, ParentStep
<1> QED BY <1>1, <1>2

\* The steps of a request other than an approval, and a poll.
LEMMA RequestParentSteps ==
  ASSUME WorkflowInv,
         Poll \/ \E q \in Requests : BeginRequest(q) \/ Resume(q) \/ AnswerOnly(q)
  PROVE  WorkflowInv' /\ UNCHANGED <<approved, proposal, children>>
<1>t. /\ state \in States /\ worker \in Workers /\ pc \in [Requests -> {"idle", "read"}]
      /\ seen \in [Requests -> States \cup {"none"}]
  BY DEF WorkflowInv, WorkflowTypes
<1>k. /\ state \in {"running", "blocked", "completed"} => approved
      /\ \A q \in Requests : seen[q] \in {"running", "blocked"} => approved
      /\ worker \in Executing => approved
  BY DEF WorkflowInv, ExecutionKnows
<1>o. state = "completed" => Open = {}
  BY ChildIs DEF WorkflowInv, ExecutionKnows
<1>p. \/ Proposed
      \/ state \in {"inventorying", "failed"} /\ ~approved /\ \A q \in Requests : seen[q] = "none"
  BY DEF WorkflowInv, ProposalSeen
<1>1. /\ UNCHANGED <<approved, counts, proposal, children, runs>>
      /\ state' \in States /\ worker' \in {worker, "loop"}
      /\ pc' \in [Requests -> {"idle", "read"}] /\ seen' \in [Requests -> States \cup {"none"}]
      /\ state' \in {"running", "blocked", "completed"} => approved
      /\ \A q \in Requests : seen'[q] \in {"running", "blocked"} => approved
      /\ state' = "completed" => Open = {}
      /\ Proposed \/ (state' \in {"inventorying", "failed"} /\ ~approved
                      /\ \A q \in Requests : seen'[q] = "none")
  <2>1. CASE Poll
    BY <1>t, <1>k, <1>o, <1>p, <2>1 DEF Poll, StartWorker, row
  <2>2. ASSUME NEW q \in Requests, BeginRequest(q) PROVE <1>1!:
    BY <1>t, <1>k, <1>o, <1>p, <2>2 DEF BeginRequest, row, States
  <2>3. ASSUME NEW q \in Requests, Resume(q) PROVE <1>1!:
    <3>1. Proposed /\ approved
      BY <1>k, <1>p, <2>3 DEF Resume
    <3> QED BY <1>t, <1>k, <2>3, <3>1 DEF Resume, Answer, StartWorker, States
  <2>4. ASSUME NEW q \in Requests, AnswerOnly(q) PROVE <1>1!:
    BY <1>t, <1>k, <1>o, <1>p, <2>4 DEF AnswerOnly, Answer, StartWorker
  <2> QED BY <2>1, <2>2, <2>3, <2>4
<1>2. worker' \in Workers /\ (worker' \in Executing \cup {"planned", "activating"} => worker' = worker)
  BY <1>t, <1>1 DEF Workers, Executing
<1>3. WorkflowInv'
  BY <1>t, <1>k, <1>1, <1>2, ParentStep
<1> QED BY <1>1, <1>3

-------------------------------------------------------------------------------
(* The steps on the run of the child at hand.                                *)

\* The thread's.
LEMMA ThreadRunSteps ==
  ASSUME WorkflowInv, ActivateDir \/ ActivateRun \/ AttestChild \/ CreateAcquire \/ StartBridge
  PROVE  WorkflowInv' /\ UNCHANGED <<approved, proposal, children>>
<1>k. /\ worker \in Executing => approved
      /\ worker = "activating" =>
           /\ counts.children < Len(children) /\ Len(runs) = counts.children + 1
           /\ children[Len(runs)].run = Len(runs) /\ runs[Len(runs)].state = "planned"
  BY DEF WorkflowInv, ExecutionKnows
<1>t. WorkflowTypes /\ RunsInOrder /\ counts.children \in Nat /\ Len(children) \in Nat
  BY WorkflowFacts DEF WorkflowInv
<1>1. Open # {} /\ children[Child].run # 0 /\ worker \in Executing
  <2>1. CASE ActivateRun
    <3>1. worker = "activating"
      BY <2>1 DEF ActivateRun
    <3>2. Open # {} /\ Child = Len(runs)
      BY <1>k, <1>t, <3>1, ChildIs
    <3> QED BY <1>k, <1>t, <3>1, <3>2 DEF Executing
  <2> QED BY <2>1 DEF ActivateDir, AttestChild, CreateAcquire, StartBridge, Receiving, AtRun, InExecution,
                      Executing
<1>r. /\ Run \in ChildRuns /\ RunFits(Child, Run) /\ Child = Len(runs) /\ Child = counts.children + 1
      /\ Run = runs[Child]
  BY <1>t, <1>1, RunIs
<1>n. ~(Child <= counts.children)
  BY <1>r, <1>t
<1>2. /\ UNCHANGED <<row, proposal, children, pc, seen>>
      /\ worker' \in Workers /\ worker' # "planned"
      /\ \E r \in ChildRuns : /\ SetRun(r) /\ RunFits(Child, r)
                              /\ worker' = "activating" => r.state = "planned"
  <2>1. CASE ActivateDir
    <3> DEFINE r == [Run EXCEPT !.dir = TRUE]
    <3>1. r \in ChildRuns /\ RunFits(Child, r) /\ r.state = "planned"
      BY <1>r, <2>1 DEF ChildRuns, RunFits, ActivateDir
    <3>2. SetRun(r) /\ worker' = "activating" /\ UNCHANGED <<row, proposal, children, pc, seen>>
      BY <2>1 DEF ActivateDir, AtRun, InExecution, Stay, row
    <3> HIDE DEF r
    <3> QED BY <3>1, <3>2 DEF Workers, Executing
  <2>2. CASE ActivateRun
    <3> DEFINE r == [Run EXCEPT !.state = "active"]
    <3>1. Run.state = "planned"
      BY <1>k, <1>r, <2>2 DEF ActivateRun
    <3>2. r \in ChildRuns /\ RunFits(Child, r)
      BY <1>r, <1>n, <3>1 DEF ChildRuns, RunFits
    <3>3. SetRun(r) /\ worker' = "bound" /\ UNCHANGED <<row, proposal, children, pc, seen>>
      BY <2>2 DEF ActivateRun
    <3> HIDE DEF r
    <3> QED BY <3>2, <3>3 DEF Workers, Executing
  <2>3. CASE AttestChild
    <3> DEFINE r == [Run EXCEPT !.attest = "pending"]
    <3>1. r \in ChildRuns /\ RunFits(Child, r)
      BY <1>r DEF ChildRuns, RunFits
    <3>2. SetRun(r) /\ worker' = "loop" /\ UNCHANGED <<row, proposal, children, pc, seen>>
      BY <2>3 DEF AttestChild, Receiving, AtRun, InExecution, Stay, row
    <3> HIDE DEF r
    <3> QED BY <3>1, <3>2 DEF Workers, Executing
  <2>4. CASE CreateAcquire
    <3> DEFINE r == [Run EXCEPT !.op = TRUE]
    <3>1. Run.state = "active"
      BY <2>4 DEF CreateAcquire, Receiving
    <3>2. r \in ChildRuns /\ RunFits(Child, r)
      BY <1>r, <3>1 DEF ChildRuns, RunFits
    <3>3. SetRun(r) /\ worker' = "loop" /\ UNCHANGED <<row, proposal, children, pc, seen>>
      BY <2>4 DEF CreateAcquire, Receiving, AtRun, InExecution, Stay, row
    <3> HIDE DEF r
    <3> QED BY <3>2, <3>3 DEF Workers, Executing
  <2>5. CASE StartBridge
    <3>1. PICK b \in {"running", "completed"} : SetRun([Run EXCEPT !.bridge = b])
      BY <2>5 DEF StartBridge
    <3> DEFINE r == [Run EXCEPT !.bridge = b]
    <3>2. Run.state = "completed"
      BY <2>5 DEF StartBridge
    <3>3. r \in ChildRuns
      BY <1>r DEF ChildRuns
    <3>4. SetRun(r) /\ worker' = "bound" /\ UNCHANGED <<row, proposal, children, pc, seen>>
      BY <2>5, <3>1 DEF StartBridge, AtRun, InExecution, Stay, row
    <3>5. RunFits(Child, r)
      BY <1>r, <1>n, <3>2 DEF ChildRuns, RunFits
    <3> HIDE DEF r
    <3> QED BY <3>3, <3>4, <3>5 DEF Workers, Executing
  <2> QED BY <2>1, <2>2, <2>3, <2>4, <2>5
<1>3. WorkflowInv'
  BY <1>k, <1>1, <1>2, RunEdit
<1> QED BY <1>2, <1>3 DEF row

\* The helper's and Source Intake's.
LEMMA HelperRunSteps ==
  ASSUME WorkflowInv, ChildAttested \/ ReceiveItem \/ ReceiveFails \/ BridgeEnds
  PROVE  WorkflowInv' /\ UNCHANGED <<approved, proposal, children>>
<1>k. /\ worker \in Executing => approved
      /\ worker = "activating" => Len(runs) = counts.children + 1 /\ runs[Len(runs)].state = "planned"
  BY DEF WorkflowInv, ExecutionKnows
<1>t. WorkflowTypes /\ RunsInOrder /\ counts.children \in Nat /\ worker \in Workers
  BY WorkflowFacts DEF WorkflowInv, WorkflowTypes
<1>1. Open # {} /\ children[Child].run # 0
  BY DEF ChildAttested, ReceiveItem, ReceiveFails, BridgeEnds, Bound
<1>r. /\ Run \in ChildRuns /\ RunFits(Child, Run) /\ Child = Len(runs) /\ Child = counts.children + 1
      /\ Run = runs[Child]
  BY <1>t, <1>1, RunIs
<1>n. ~(Child <= counts.children)
  BY <1>r, <1>t
<1>2. \E r \in ChildRuns : /\ RunStep(r) /\ RunFits(Child, r)
                           /\ r.state = Run.state \/ Run.state # "planned"
  <2>1. CASE ChildAttested
    <3>1. PICK a \in {"ready", "none", "failed"} : RunStep([Run EXCEPT !.attest = a])
      BY <2>1 DEF ChildAttested
    <3> DEFINE r == [Run EXCEPT !.attest = a]
    <3>2. r \in ChildRuns /\ RunFits(Child, r) /\ r.state = Run.state
      BY <1>r DEF ChildRuns, RunFits
    <3> QED BY <3>1, <3>2
  <2>2. CASE ReceiveItem
    <3>1. Run.op /\ Run.state = "active" /\ Run.bridge = "not_started"
      BY <1>r, <2>2 DEF ReceiveItem, RunFits
    <3>2. CASE RunStep([Run EXCEPT !.verifying = TRUE])
      <4> DEFINE r == [Run EXCEPT !.verifying = TRUE]
      <4>1. r \in ChildRuns /\ RunFits(Child, r) /\ r.state = Run.state
        BY <1>r DEF ChildRuns, RunFits
      <4> QED BY <3>2, <4>1
    <3> DEFINE next == IF Run.ready + 1 = Cardinality(Run.files) THEN "completed" ELSE "active"
               r == [Run EXCEPT !.verifying = FALSE, !.op = FALSE, !.ready = @ + 1, !.state = next]
    <3>3. CASE RunStep(r)
      <4>1. next \in {"completed", "active"} /\ (next = "completed" => Run.ready + 1 = Cardinality(Run.files))
        OBVIOUS
      <4> HIDE DEF next
      <4>2. r \in ChildRuns
        <5>1. Run.ready + 1 \in Nat /\ next \in {"planned", "active", "completed", "failed"}
          BY <1>r, <4>1 DEF ChildRuns
        <5> QED BY <1>r, <5>1 DEF ChildRuns
      <4>3. RunFits(Child, r)
        BY <1>r, <1>n, <3>1, <4>1 DEF ChildRuns, RunFits
      <4> QED BY <3>1, <3>3, <4>2, <4>3
    <3> QED BY <2>2, <3>2, <3>3 DEF ReceiveItem
  <2>3. CASE ReceiveFails
    <3>1. Run.op /\ Run.state = "active" /\ Run.bridge = "not_started"
      BY <1>r, <2>3 DEF ReceiveFails, RunFits
    <3>2. CASE RunStep([Run EXCEPT !.op = FALSE])
      <4> DEFINE r == [Run EXCEPT !.op = FALSE]
      <4>1. r \in ChildRuns /\ RunFits(Child, r)
        BY <1>r DEF ChildRuns, RunFits
      <4> QED BY <3>1, <3>2, <4>1
    <3>3. CASE RunStep([Run EXCEPT !.op = FALSE, !.verifying = FALSE, !.state = "failed"])
      <4> DEFINE r == [Run EXCEPT !.op = FALSE, !.verifying = FALSE, !.state = "failed"]
      <4>1. r \in ChildRuns /\ RunFits(Child, r)
        BY <1>r, <1>n, <3>1 DEF ChildRuns, RunFits
      <4> QED BY <3>1, <3>3, <4>1
    <3>4. CASE RunStep([Run EXCEPT !.op = FALSE, !.attest = "none"])
      <4> DEFINE r == [Run EXCEPT !.op = FALSE, !.attest = "none"]
      <4>1. r \in ChildRuns /\ RunFits(Child, r)
        BY <1>r DEF ChildRuns, RunFits
      <4> QED BY <3>1, <3>4, <4>1
    <3> QED BY <2>3, <3>2, <3>3, <3>4 DEF ReceiveFails
  <2>4. CASE BridgeEnds
    <3>1. Run.bridge = "running" /\ Run.state = "completed"
      BY <1>r, <2>4 DEF BridgeEnds, RunFits
    <3>2. ASSUME NEW n \in 0 .. Cardinality(Run.files),
                 RunStep([Run EXCEPT !.bridge = "completed", !.new = n])
          PROVE  <1>2!:
      <4> DEFINE r == [Run EXCEPT !.bridge = "completed", !.new = n]
      <4>1. n \in Nat /\ n <= Cardinality(Run.files)
        <5>1. Cardinality(Run.files) \in Nat
          BY <1>r, WorkflowAssumption, FS_Subset, FS_CardinalityType DEF ChildRuns
        <5> QED BY <5>1
      <4>2. r \in ChildRuns /\ RunFits(Child, r)
        BY <1>r, <1>n, <3>1, <4>1 DEF ChildRuns, RunFits
      <4> QED BY <3>1, <3>2, <4>2
    <3>3. CASE RunStep([Run EXCEPT !.bridge = "failed"])
      <4> DEFINE r == [Run EXCEPT !.bridge = "failed"]
      <4>1. r \in ChildRuns /\ RunFits(Child, r)
        BY <1>r, <1>n, <3>1 DEF ChildRuns, RunFits
      <4> QED BY <3>1, <3>3, <4>1
    <3> QED BY <2>4, <3>2, <3>3 DEF BridgeEnds
  <2> QED BY <2>1, <2>2, <2>3, <2>4
<1>3. PICK r \in ChildRuns : /\ RunStep(r) /\ RunFits(Child, r)
                             /\ r.state = Run.state \/ Run.state # "planned"
  BY <1>2
<1>4. SetRun(r) /\ UNCHANGED <<row, proposal, children, worker, pc, seen>>
  BY <1>3 DEF RunStep
<1>5. worker' = "activating" => r.state = "planned"
  BY <1>3, <1>4, <1>k, <1>r
<1>6. WorkflowInv'
  BY <1>k, <1>t, <1>1, <1>3, <1>4, <1>5, RunEdit
<1> QED BY <1>4, <1>6 DEF row

-------------------------------------------------------------------------------
(* The steps that make or count a child.                                     *)

\* The run of a child is planned, unless it is there.
LEMMA PlanStep ==
  ASSUME WorkflowInv, PlanChild
  PROVE  WorkflowInv' /\ UNCHANGED <<approved, proposal, children>>
<1>t. /\ WorkflowTypes /\ RunsInOrder /\ PagesChained /\ ChildrenCut
      /\ counts.children \in Nat /\ Len(children) \in Nat /\ DOMAIN children = 1 .. Len(children)
      /\ runs \in Seq(ChildRuns) /\ Len(runs) \in Nat /\ DOMAIN runs = 1 .. Len(runs)
  BY WorkflowFacts DEF WorkflowInv, WorkflowTypes
<1>1. /\ Open # {} /\ UNCHANGED <<row, proposal, children, pc, seen>> /\ worker' = "planned"
      /\ worker \in Executing
  BY DEF PlanChild, InExecution, row, Executing
<1>2. /\ Child = counts.children + 1 /\ Child \in 1 .. Len(children)
  BY <1>t, <1>1, ChildIs
<1>a. approved
  BY <1>1 DEF WorkflowInv, ExecutionKnows
<1> DEFINE c == counts.children
           new == NewRun(Child, ChunkFiles(Child))
<1>3. \A i \in DOMAIN runs : runs[i].key = i /\ RunFits(i, runs[i])
  BY <1>t DEF RunsInOrder, RunFits
<1>4. Len(runs) \in {c, c + 1}
  BY <1>t DEF RunsInOrder
<1>5. RunIds(Child) # {} <=> Len(runs) = c + 1
  BY <1>t, <1>2, <1>3, <1>4 DEF RunIds
<1>6. new \in ChildRuns /\ RunFits(c + 1, new)
  <2>1. ChunkFiles(Child) \in SUBSET Files /\ Child \in Nat
    BY <1>t, <1>2, ChunkIs
  <2>2. Cardinality(ChunkFiles(Child)) \in Nat
    BY <2>1, WorkflowAssumption, FS_Subset, FS_CardinalityType
  <2>3. new \in ChildRuns
    BY <2>1 DEF NewRun, ChildRuns
  <2> QED BY <1>t, <1>2, <2>2, <2>3 DEF NewRun, RunFits
<1>u. /\ runs' \in Seq(ChildRuns) /\ Len(runs') = c + 1 /\ DOMAIN runs' = 1 .. c + 1
      /\ \A i \in 1 .. c + 1 : RunFits(i, runs'[i])
  <2>1. CASE Len(runs) = c + 1
    <3>1. runs' = runs
      BY <1>5, <2>1 DEF PlanChild
    <3> QED BY <1>t, <1>3, <2>1, <3>1
  <2>2. CASE Len(runs) = c
    <3>1. runs' = Append(runs, new)
      BY <1>t, <1>5, <2>2 DEF PlanChild
    <3> HIDE DEF new
    <3>2. /\ runs' \in Seq(ChildRuns) /\ Len(runs') = c + 1 /\ runs'[c + 1] = new
          /\ \A i \in 1 .. c : runs'[i] = runs[i]
      BY <1>t, <1>6, <2>2, <3>1
    <3>3. \A i \in 1 .. c + 1 : i \in 1 .. c \/ i = c + 1
      BY <1>t
    <3>4. \A i \in 1 .. c : RunFits(i, runs'[i])
      BY <1>t, <1>3, <2>2, <3>2
    <3>5. RunFits(c + 1, runs'[c + 1])
      BY <1>6, <3>2
    <3>6. \A i \in 1 .. c + 1 : RunFits(i, runs'[i])
      BY <3>3, <3>4, <3>5
    <3> QED BY <1>t, <3>2, <3>6
  <2> QED BY <1>4, <2>1, <2>2
<1>s. UNCHANGED <<state, approved, counts, pages, listed>>
  BY <1>1 DEF row, proposal
<1>7. WorkflowTypes'
  BY <1>1, <1>s, <1>u DEF WorkflowInv, WorkflowTypes, Workers, Executing
<1>8. PagesChained' /\ (Proposed' <=> Proposed) /\ ChildrenCut'
  BY <1>1, <1>s, ProposalKept, ChildrenKept DEF WorkflowInv
<1>9. ProposalSeen'
  BY <1>1, <1>8, <1>s DEF WorkflowInv, ProposalSeen
<1>10. RunsInOrder'
  <2>1. \A i : ChunkFiles(i)' = ChunkFiles(i)
    BY <1>1, <1>s DEF ChunkFiles
  <2>2. Upto(counts.children)' = Upto(counts.children)
    BY <1>s DEF Upto
  <2>3. \A k \in DOMAIN children' : ChildFits(k, children[k])'
    <3>1. \A k \in 1 .. Len(children) : ChildFits(k, children[k])
      BY <1>t DEF RunsInOrder
    <3>2. \A k \in 1 .. Len(children) : k <= Len(runs) => k <= Len(runs')
      BY <1>4, <1>t, <1>u
    <3> QED BY <1>1, <1>s, <1>t, <3>1, <3>2 DEF ChildFits
  <2>4. \A i \in DOMAIN runs' : RunFits(i, runs[i])'
    BY <1>s, <1>u, <2>1 DEF RunFits
  <2>5. /\ c <= Len(children) /\ Len(runs') <= Len(children)
        /\ counts.items = Upto(counts.children) /\ counts.new + counts.already = Upto(counts.children)
    BY <1>2, <1>t, <1>u DEF RunsInOrder
  <2> QED BY <1>1, <1>s, <1>u, <2>2, <2>3, <2>4, <2>5 DEF RunsInOrder
<1>11. ExecutionKnows'
  <2>1. c < Len(children)
    BY <1>2, <1>t
  <2> QED BY <1>1, <1>a, <1>s, <2>1 DEF WorkflowInv, ExecutionKnows, Executing
<1> QED BY <1>1, <1>7, <1>8, <1>9, <1>10, <1>11, <1>s DEF WorkflowInv

\* The child gets the number of its run.
LEMMA BindStep ==
  ASSUME WorkflowInv, BindChild
  PROVE  WorkflowInv' /\ UNCHANGED <<approved, proposal>>
         /\ \E c \in Children : /\ children' = [children EXCEPT ![Child] = c]
                                /\ Child \in DOMAIN children /\ children[Child].state # "completed"
<1>t. /\ WorkflowTypes /\ RunsInOrder
      /\ counts.children \in Nat /\ Len(children) \in Nat /\ DOMAIN children = 1 .. Len(children)
      /\ children \in Seq(Children) /\ \A k \in 1 .. Len(children) : children[k] \in Children
      /\ Len(runs) \in Nat /\ DOMAIN runs = 1 .. Len(runs)
  BY WorkflowFacts DEF WorkflowInv, WorkflowTypes
<1>1. /\ worker = "planned" /\ worker' = "bound" /\ UNCHANGED <<row, proposal, runs, pc, seen>>
  BY DEF BindChild
<1>a. approved /\ counts.children < Len(children)
  BY <1>1 DEF WorkflowInv, ExecutionKnows, Executing
<1>2. Child = counts.children + 1 /\ Child \in 1 .. Len(children)
  BY <1>a, <1>t, ChildIs
<1>3. PICK i \in RunIds(Child) : children' = [children EXCEPT ![Child].run = i, ![Child].state = "running"]
  BY DEF BindChild
<1>4. i = Child /\ Child \in 1 .. Len(runs)
  BY <1>t, <1>3 DEF RunIds, RunsInOrder, RunFits
<1> DEFINE k == Child
           c == [children[k] EXCEPT !.run = k, !.state = "running"]
<1>5. c \in Children /\ c.first = children[k].first /\ c.count = children[k].count /\ c.run = k
      /\ c.state = "running"
  <2>1. k \in Nat /\ children[k] \in Children
    BY <1>2, <1>t
  <2> HIDE DEF k
  <2> QED BY <2>1 DEF Children
<1>6. children' = [children EXCEPT ![k] = c]
  BY <1>2, <1>3, <1>4, <1>t
<1>7. children[k].state # "completed"
  BY <1>2, <1>t DEF RunsInOrder, ChildFits
<1> HIDE DEF k, c
<1>k. k = Child
  BY DEF k
<1>u. /\ children' \in Seq(Children) /\ Len(children') = Len(children) /\ DOMAIN children' = DOMAIN children
      /\ children'[k] = c /\ \A j \in DOMAIN children : j # k => children'[j] = children[j]
  <2>1. children' \in Seq(Children) /\ Len(children') = Len(children)
    BY <1>k, <1>2, <1>5, <1>6, <1>t, ExceptSeq
  <2> QED BY <1>k, <1>2, <1>6, <1>t, <2>1
<1>s. UNCHANGED <<state, approved, counts, pages, listed, runs>>
  BY <1>1 DEF row, proposal
<1>8. WorkflowTypes'
  BY <1>1, <1>s, <1>u DEF WorkflowInv, WorkflowTypes, Workers, Executing
<1>9. PagesChained' /\ (Proposed' <=> Proposed)
  BY <1>1, ProposalKept DEF WorkflowInv
<1>10. ProposalSeen'
  BY <1>1, <1>9, <1>s DEF WorkflowInv, ProposalSeen
<1>f. \A j \in DOMAIN children : children'[j].first = children[j].first
                                /\ children'[j].count = children[j].count
  BY <1>5, <1>u
<1>11. ChildrenCut'
  <2>1. LET sizes == ChunkSizes(Len(listed)) IN
          /\ DOMAIN children = DOMAIN sizes
          /\ \A j \in DOMAIN children :
               children[j].first = (j - 1) * ChildLimit + 1 /\ children[j].count = sizes[j]
    BY <1>a DEF WorkflowInv, ChildrenCut
  <2> QED BY <1>a, <1>f, <1>s, <1>u, <2>1 DEF ChildrenCut
<1>12. RunsInOrder'
  <2>1. \A j \in DOMAIN runs : ChunkFiles(j)' = ChunkFiles(j)
    <3>1. Len(runs) <= Len(children)
      BY <1>t DEF RunsInOrder
    <3>2. \A j \in DOMAIN runs : j \in DOMAIN children
      BY <1>t, <3>1
    <3> QED BY <1>f, <1>s, <3>2 DEF ChunkFiles
  <2>2. Upto(counts.children)' = Upto(counts.children)
    BY <1>s DEF Upto
  <2>3. \A j \in DOMAIN children' : ChildFits(j, children[j])'
    <3>1. ASSUME NEW j \in DOMAIN children PROVE ChildFits(j, children'[j])
      <4>1. CASE j = k
        BY <1>2, <1>4, <1>5, <1>k, <1>t, <1>u, <4>1 DEF ChildFits
      <4>2. CASE j # k
        BY <1>t, <1>u, <4>2 DEF RunsInOrder
      <4> QED BY <4>1, <4>2
    <3> QED BY <1>s, <1>u, <3>1 DEF ChildFits
  <2>4. \A j \in DOMAIN runs' : RunFits(j, runs[j])'
    <3>1. \A j \in DOMAIN runs : RunFits(j, runs[j])
      BY <1>t DEF RunsInOrder
    <3> QED BY <1>s, <2>1, <3>1 DEF RunFits
  <2>5. /\ counts.children <= Len(children) /\ Len(runs) <= Len(children)
        /\ Len(runs) \in {counts.children, counts.children + 1}
        /\ counts.items = Upto(counts.children) /\ counts.new + counts.already = Upto(counts.children)
    BY <1>t DEF RunsInOrder
  <2> QED BY <1>s, <1>u, <2>2, <2>3, <2>4, <2>5 DEF RunsInOrder
<1>13. ExecutionKnows'
  BY <1>1, <1>a, <1>s, <1>u DEF WorkflowInv, ExecutionKnows, Executing
<1> QED BY <1>1, <1>2, <1>5, <1>6, <1>7, <1>8, <1>9, <1>10, <1>11, <1>12, <1>13, <1>k, <1>s, <1>t
        DEF WorkflowInv

\* The child is completed and counted.
LEMMA CompleteStep ==
  ASSUME WorkflowInv, CompleteChild
  PROVE  WorkflowInv' /\ UNCHANGED <<approved, proposal>>
         /\ \E c \in Children : /\ children' = [children EXCEPT ![Child] = c]
                                /\ Child \in DOMAIN children /\ children[Child].state # "completed"
<1>t. /\ WorkflowTypes /\ RunsInOrder /\ PagesChained /\ ChildrenCut
      /\ counts.children \in Nat /\ counts.items \in Nat /\ counts.new \in Nat /\ counts.already \in Nat
      /\ counts \in Aggregates
      /\ Len(children) \in Nat /\ DOMAIN children = 1 .. Len(children)
      /\ children \in Seq(Children) /\ \A k \in 1 .. Len(children) : children[k] \in Children
      /\ Len(runs) \in Nat /\ DOMAIN runs = 1 .. Len(runs)
  BY WorkflowFacts DEF WorkflowInv, WorkflowTypes
<1>1. /\ Open # {} /\ children[Child].run # 0 /\ Run.bridge = "completed"
      /\ UNCHANGED <<state, approved, proposal, runs, pc, seen>> /\ worker' = "loop"
      /\ children' = [children EXCEPT ![Child].state = "completed"]
      /\ counts' = [counts EXCEPT !.children = @ + 1, !.items = @ + Run.ready, !.new = @ + Run.new,
                                  !.already = @ + Cardinality(Run.files) - Run.new]
  BY DEF CompleteChild, AtRun, InExecution
<1>2. Child = counts.children + 1 /\ Child \in 1 .. Len(children)
  BY <1>1, <1>t, ChildIs
<1>r. /\ Run \in ChildRuns /\ RunFits(Child, Run) /\ Len(runs) = Child /\ Run = runs[Child]
      /\ children[Child].run = Child
  BY <1>1, <1>t, RunIs
<1> DEFINE k == Child
           c == [children[k] EXCEPT !.state = "completed"]
           z == children[k].count
<1>3. Run.ready = z /\ Cardinality(Run.files) = z /\ Run.new \in 0 .. z /\ z \in Nat
  <2>1. Run.files = ChunkFiles(k) /\ Run.ready = Cardinality(Run.files) /\ Run.new <= Cardinality(Run.files)
    BY <1>1, <1>r DEF RunFits
  <2>2. Cardinality(ChunkFiles(k)) = z
    BY <1>2, <1>t, ChunkIs
  <2>3. z \in Nat /\ Run.new \in Nat
    BY <1>2, <1>r, <1>t DEF Children, ChildRuns
  <2> QED BY <2>1, <2>2, <2>3
<1>4. Upto(k - 1) + z = Upto(k) /\ Upto(k) \in Nat /\ Upto(k - 1) \in Nat
  BY <1>2, <1>t, ChunkIs
<1>5. c \in Children /\ c.first = children[k].first /\ c.count = children[k].count /\ c.run = k
      /\ c.state = "completed"
  BY <1>2, <1>r, <1>t DEF Children
<1>6. children' = [children EXCEPT ![k] = c]
  BY <1>1, <1>2, <1>t
<1>7. children[k].state # "completed"
  BY <1>2, <1>t DEF RunsInOrder, ChildFits
<1>8. k - 1 = counts.children /\ k \in Nat /\ k = counts.children + 1
  BY <1>2, <1>t
<1> HIDE DEF k, c, z
<1>k. k = Child
  BY DEF k
<1>9. counts.items = Upto(k - 1) /\ counts.new + counts.already = Upto(k - 1)
  BY <1>t, <1>8 DEF RunsInOrder
<1>10. /\ counts' \in Aggregates /\ counts'.children = k
       /\ counts'.items = Upto(k) /\ counts'.new + counts'.already = Upto(k)
  <2>1. counts' = [counts EXCEPT !.children = @ + 1, !.items = @ + z, !.new = @ + Run.new,
                                 !.already = @ + z - Run.new]
    BY <1>1, <1>3
  <2> DEFINE u == Upto(k)
             v == Upto(k - 1)
             x == Run.new
  <2>2. v + z = u /\ u \in Nat /\ v \in Nat /\ counts.items = v /\ counts.new + counts.already = v
        /\ x \in 0 .. z /\ z \in Nat
    BY <1>3, <1>4, <1>9
  <2> HIDE DEF u, v, x
  <2>3. counts' = [counts EXCEPT !.children = @ + 1, !.items = @ + z, !.new = @ + x, !.already = @ + z - x]
    BY <2>1 DEF x
  <2> DEFINE i == counts.items + z
             e == counts.new + x
             w == counts.already + z - x
  <2>4. i \in Nat /\ e \in Nat /\ w \in Nat /\ i = u /\ e + w = u
    <3>1. counts.items \in Nat /\ counts.new \in Nat /\ counts.already \in Nat
      BY <1>t
    <3> QED BY <2>2, <3>1
  <2>5. counts' = [counts EXCEPT !.children = k, !.items = i, !.new = e, !.already = w]
    BY <1>8, <1>t, <2>3 DEF Aggregates
  <2> HIDE DEF i, e, w
  <2>6. counts' \in Aggregates /\ counts'.children = k /\ counts'.items = i /\ counts'.new = e
        /\ counts'.already = w
    BY <1>8, <1>t, <2>4, <2>5 DEF Aggregates
  <2> QED BY <2>4, <2>6 DEF u
<1>u. /\ children' \in Seq(Children) /\ Len(children') = Len(children) /\ DOMAIN children' = DOMAIN children
      /\ children'[k] = c /\ \A j \in DOMAIN children : j # k => children'[j] = children[j]
  <2>1. children' \in Seq(Children) /\ Len(children') = Len(children)
    BY <1>k, <1>2, <1>5, <1>6, <1>t, ExceptSeq
  <2> QED BY <1>k, <1>2, <1>6, <1>t, <2>1
<1>s. UNCHANGED <<state, approved, pages, listed, runs>>
  BY <1>1 DEF proposal
<1>a. approved
  BY <1>2, <1>t DEF ChildrenCut
<1>11. WorkflowTypes'
  BY <1>1, <1>10, <1>s, <1>u DEF WorkflowInv, WorkflowTypes, Workers
<1>12. PagesChained' /\ (Proposed' <=> Proposed)
  BY <1>1, ProposalKept DEF WorkflowInv
<1>13. ProposalSeen'
  BY <1>1, <1>12, <1>s DEF WorkflowInv, ProposalSeen
<1>f. \A j \in DOMAIN children : children'[j].first = children[j].first
                                /\ children'[j].count = children[j].count
  BY <1>5, <1>u
<1>14. ChildrenCut'
  <2>1. LET sizes == ChunkSizes(Len(listed)) IN
          /\ DOMAIN children = DOMAIN sizes
          /\ \A j \in DOMAIN children :
               children[j].first = (j - 1) * ChildLimit + 1 /\ children[j].count = sizes[j]
    BY <1>a, <1>t DEF ChildrenCut
  <2> QED BY <1>a, <1>f, <1>s, <1>u, <2>1 DEF ChildrenCut
<1>15. RunsInOrder'
  <2>1. \A j \in DOMAIN runs : ChunkFiles(j)' = ChunkFiles(j)
    <3>1. Len(runs) <= Len(children)
      BY <1>t DEF RunsInOrder
    <3>2. \A j \in DOMAIN runs : j \in DOMAIN children
      BY <1>t, <3>1
    <3> QED BY <1>f, <1>s, <3>2 DEF ChunkFiles
  <2>2. Upto(counts.children)' = Upto(k)
    <3>1. \A x : Upto(x)' = Upto(x)
      BY <1>s DEF Upto
    <3>2. Upto(counts.children)' = Upto(counts'.children)
      BY <1>s DEF Upto
    <3> QED BY <1>10, <3>2
  <2>3. \A j \in DOMAIN children' : ChildFits(j, children[j])'
    <3>1. ASSUME NEW j \in DOMAIN children
          PROVE  /\ children'[j].state = "completed" <=> j <= k
                 /\ children'[j].run # 0 <=> children'[j].state # "pending"
                 /\ children'[j].run # 0 => children'[j].run = j /\ j <= Len(runs)
      <4>1. CASE j = k
        BY <1>2, <1>r, <1>5, <1>8, <1>k, <1>t, <1>u, <4>1
      <4>2. CASE j # k
        <5>1. ChildFits(j, children[j])
          BY <1>t DEF RunsInOrder
        <5>2. j <= counts.children <=> j <= k
          BY <1>8, <1>t, <4>2
        <5> QED BY <1>u, <4>2, <5>1, <5>2 DEF ChildFits
      <4> QED BY <4>1, <4>2
    <3> QED BY <1>10, <1>s, <1>u, <3>1 DEF ChildFits
  <2>4. \A j \in DOMAIN runs' : RunFits(j, runs[j])'
    <3>1. \A j \in DOMAIN runs : RunFits(j, runs[j])
      BY <1>t DEF RunsInOrder
    <3>2. ASSUME NEW j \in DOMAIN runs, j <= k PROVE runs[j].bridge = "completed"
      <4>1. CASE j = k
        BY <1>1, <1>r, <1>k, <4>1
      <4>2. CASE j # k
        <5>1. j <= counts.children
          BY <1>8, <1>t, <3>2, <4>2
        <5> QED BY <3>1, <5>1 DEF RunFits
      <4> QED BY <4>1, <4>2
    <3> QED BY <1>10, <1>s, <2>1, <3>1, <3>2 DEF RunFits
  <2>5. /\ k <= Len(children) /\ Len(runs) <= Len(children) /\ Len(runs) = k
    BY <1>2, <1>r, <1>k, <1>t DEF RunsInOrder
  <2>6. counts'.children <= Len(children') /\ Len(runs') <= Len(children')
        /\ Len(runs') \in {counts'.children, counts'.children + 1}
    BY <1>10, <1>s, <1>u, <2>5
  <2> QED BY <1>10, <2>2, <2>3, <2>4, <2>6 DEF RunsInOrder
<1>16. ExecutionKnows'
  <2>1. state # "completed"
    BY <1>2, <1>t DEF WorkflowInv, ExecutionKnows
  <2> QED BY <1>1, <1>a, <1>s, <2>1 DEF WorkflowInv, ExecutionKnows, Executing
<1> QED BY <1>1, <1>2, <1>5, <1>6, <1>7, <1>11, <1>12, <1>13, <1>14, <1>15, <1>16, <1>k, <1>s, <1>t
        DEF WorkflowInv

-------------------------------------------------------------------------------
(* The approval and the restart.                                             *)

\* The approval cuts the proposal into its children; there were none.
LEMMA ApproveStep ==
  ASSUME WorkflowInv, NEW q \in Requests, Approve(q)
  PROVE  WorkflowInv' /\ approved' /\ UNCHANGED proposal /\ children = <<>>
         /\ (approved => children' = <<>>)
<1>t. /\ WorkflowTypes /\ RunsInOrder /\ ChildrenCut /\ Len(listed) \in Nat
      /\ counts.children \in Nat /\ Len(children) \in Nat
      /\ Len(runs) \in Nat /\ DOMAIN runs = 1 .. Len(runs)
  BY WorkflowFacts DEF WorkflowInv, WorkflowTypes
<1> DEFINE n == Len(listed)
           sizes == ChunkSizes(n)
           cut == [k \in DOMAIN sizes |-> [first |-> (k - 1) * ChildLimit + 1, count |-> sizes[k],
                                           state |-> "pending", run |-> 0]]
<1>1. /\ pc[q] = "read" /\ pc' = [pc EXCEPT ![q] = "idle"] /\ seen' = [seen EXCEPT ![q] = "none"]
      /\ UNCHANGED <<counts, proposal, runs, faults>>
      /\ seen[q] = "awaiting_confirmation" /\ children = <<>> /\ children' = cut
      /\ state' = "running" /\ approved' = TRUE /\ worker' \in {worker, "loop"}
  BY DEF Approve, Answer, StartWorker
<1>2. PICK m \in Nat : DOMAIN sizes = 1 .. m
  BY <1>t, ChunksOf
<1>3. \A k \in 1 .. m : cut[k] \in Children /\ cut[k].first = (k - 1) * ChildLimit + 1
                        /\ cut[k].count = sizes[k] /\ cut[k].state = "pending" /\ cut[k].run = 0
  <2> SUFFICES ASSUME NEW k \in 1 .. m
               PROVE  cut[k] \in Children /\ cut[k].first = (k - 1) * ChildLimit + 1
                      /\ cut[k].count = sizes[k] /\ cut[k].state = "pending" /\ cut[k].run = 0
    OBVIOUS
  <2>1. cut[k] = [first |-> (k - 1) * ChildLimit + 1, count |-> sizes[k],
                  state |-> "pending", run |-> 0]
    BY <1>2
  <2>2. (k - 1) * ChildLimit \in Nat /\ sizes[k] \in 1 .. ChildLimit
    BY <1>t, <1>2, ChunksOf
  <2>3. sizes[k] \in Nat /\ (k - 1) * ChildLimit + 1 \in Nat
    BY <2>2, WorkflowAssumption
  <2> HIDE DEF cut, sizes
  <2> QED BY <2>1, <2>3 DEF Children
<1>4. children' \in Seq(Children) /\ Len(children') = m /\ DOMAIN children' = 1 .. m
  <2>1. children' \in [1 .. m -> Children] /\ DOMAIN children' = 1 .. m
    BY <1>1, <1>2, <1>3
  <2> HIDE DEF cut, sizes
  <2> QED BY <2>1
<1>5. Len(children) = 0 /\ counts.children = 0 /\ Len(runs) = 0 /\ runs = <<>>
  <2>1. Len(children) = 0
    BY <1>1
  <2> QED BY <1>t, <2>1 DEF RunsInOrder, WorkflowTypes
<1>p. Proposed
  BY <1>1 DEF WorkflowInv, ProposalSeen
<1>s. pages' = pages /\ listed' = listed /\ counts' = counts /\ runs' = runs
  BY <1>1 DEF proposal
<1>6. WorkflowTypes'
  BY <1>1, <1>4, <1>s DEF WorkflowInv, WorkflowTypes, Workers, States
<1>7. PagesChained' /\ ProposalSeen'
  BY <1>1, <1>p, ProposalKept DEF WorkflowInv, ProposalSeen
<1>8. ChildrenCut'
  <2>1. \A k \in DOMAIN children' : children'[k].first = (k - 1) * ChildLimit + 1
                                   /\ children'[k].count = sizes[k]
    BY <1>1, <1>3, <1>4
  <2>2. DOMAIN children' = DOMAIN sizes
    BY <1>2, <1>4
  <2> QED BY <1>1, <1>s, <2>1, <2>2 DEF ChildrenCut
<1>9. RunsInOrder'
  <2>1. Upto(0) = 0
    BY <1>t, WorkflowAssumption DEF Upto
  <2>2. counts.items = 0 /\ counts.new + counts.already = 0
    BY <1>5, <1>t, <2>1 DEF RunsInOrder
  <2>3. Upto(counts.children)' = 0
    BY <1>5, <1>s, <2>1 DEF Upto
  <2>4. \A k \in DOMAIN children' : ChildFits(k, children[k])'
    <3>1. \A k \in 1 .. m : children'[k].state = "pending" /\ children'[k].run = 0 /\ ~(k <= 0)
      <4>1. \A k \in 1 .. m : ~(k <= 0)
        OBVIOUS
      <4> HIDE DEF cut
      <4> QED BY <1>1, <1>3, <4>1
    <3> QED BY <1>4, <1>5, <1>s, <3>1 DEF ChildFits
  <2> QED BY <1>4, <1>5, <1>s, <1>t, <2>2, <2>3, <2>4 DEF RunsInOrder
<1>10. ExecutionKnows'
  <2>1. worker \notin {"planned", "activating"}
    BY <1>5 DEF WorkflowInv, ExecutionKnows
  <2> QED BY <1>1, <2>1 DEF ExecutionKnows
<1>11. approved => children' = <<>>
  <2> SUFFICES ASSUME approved PROVE children' = <<>>
    OBVIOUS
  <2>1. DOMAIN children = DOMAIN sizes
    BY <1>t DEF ChildrenCut
  <2>2. m = 0
    BY <1>1, <1>2, <2>1
  <2> QED BY <1>4, <2>2
<1> QED BY <1>1, <1>6, <1>7, <1>8, <1>9, <1>10, <1>11 DEF WorkflowInv

\* The process starts again: the bridges that ran have failed, and so has the list; what
\* was approved is blocked.
LEMMA RestartStep ==
  ASSUME WorkflowInv, Restart
  PROVE  WorkflowInv' /\ UNCHANGED <<approved, proposal, children>>
<1>t. /\ WorkflowTypes /\ RunsInOrder /\ counts.children \in Nat /\ state \in States
      /\ Len(runs) \in Nat /\ DOMAIN runs = 1 .. Len(runs)
      /\ \A i \in 1 .. Len(runs) : runs[i] \in ChildRuns
  BY WorkflowFacts DEF WorkflowInv, WorkflowTypes
<1>1. /\ worker' = "none" /\ pc' = [q \in Requests |-> "idle"] /\ seen' = [q \in Requests |-> "none"]
      /\ state' = CASE state = "inventorying" -> "failed"
                    [] state = "running" -> "blocked"
                    [] OTHER -> state
      /\ runs' = [i \in DOMAIN runs |-> IF runs[i].bridge = "running"
                                        THEN [runs[i] EXCEPT !.bridge = "failed"] ELSE runs[i]]
      /\ UNCHANGED <<approved, counts, proposal, children>>
  BY DEF Restart
<1>2. ASSUME NEW i \in 1 .. Len(runs)
      PROVE  runs'[i] \in ChildRuns /\ RunFits(i, runs'[i])
  <2>1. runs[i] \in ChildRuns /\ RunFits(i, runs[i])
    BY <1>t DEF RunsInOrder
  <2>2. CASE runs[i].bridge = "running"
    <3>1. runs'[i] = [runs[i] EXCEPT !.bridge = "failed"]
      BY <1>1, <1>t, <2>2
    <3>2. runs[i].state = "completed" /\ ~(i <= counts.children)
      BY <2>1, <2>2 DEF RunFits
    <3> QED BY <2>1, <3>1, <3>2 DEF ChildRuns, RunFits
  <2>3. CASE runs[i].bridge # "running"
    BY <1>1, <1>t, <2>1, <2>3
  <2> QED BY <2>2, <2>3
<1>3. runs' \in Seq(ChildRuns) /\ Len(runs') = Len(runs) /\ DOMAIN runs' = DOMAIN runs
  <2>1. DOMAIN runs' = 1 .. Len(runs) /\ runs' \in [1 .. Len(runs) -> ChildRuns]
    BY <1>1, <1>2, <1>t
  <2> QED BY <1>t, <2>1
<1>s. pages' = pages /\ listed' = listed /\ counts' = counts /\ children' = children /\ approved' = approved
  BY <1>1 DEF proposal
<1>4. state' \in States /\ (state' = "completed" => state = "completed")
      /\ (state' \in {"running", "blocked"} => state \in {"running", "blocked"})
      /\ (state \in {"inventorying", "failed"} => state' = "failed")
  BY <1>1, <1>t DEF States
<1>5. WorkflowTypes'
  BY <1>1, <1>3, <1>4, <1>s DEF WorkflowInv, WorkflowTypes, Workers
<1>6. PagesChained' /\ (Proposed' <=> Proposed) /\ ChildrenCut'
  BY <1>1, ProposalKept, ChildrenKept DEF WorkflowInv
<1>7. ProposalSeen'
  BY <1>1, <1>4, <1>6, <1>s DEF WorkflowInv, ProposalSeen
<1>8. RunsInOrder'
  <2>1. \A i : ChunkFiles(i)' = ChunkFiles(i)
    BY <1>s DEF ChunkFiles
  <2>2. Upto(counts.children)' = Upto(counts.children)
    BY <1>s DEF Upto
  <2>3. \A k \in DOMAIN children' : ChildFits(k, children[k])'
    BY <1>3, <1>s, <1>t DEF RunsInOrder, ChildFits
  <2>4. \A i \in DOMAIN runs' : RunFits(i, runs[i])'
    <3>1. \A i \in DOMAIN runs' : RunFits(i, runs'[i])
      BY <1>2, <1>3, <1>t
    <3> QED BY <1>s, <2>1, <3>1 DEF RunFits
  <2>5. /\ counts.children <= Len(children) /\ Len(runs) <= Len(children)
        /\ Len(runs) \in {counts.children, counts.children + 1}
        /\ counts.items = Upto(counts.children) /\ counts.new + counts.already = Upto(counts.children)
    BY <1>t DEF RunsInOrder
  <2> QED BY <1>3, <1>s, <2>2, <2>3, <2>4, <2>5 DEF RunsInOrder
<1>9. ExecutionKnows'
  BY <1>1, <1>4, <1>s DEF WorkflowInv, ExecutionKnows, Executing
<1> QED BY <1>1, <1>5, <1>6, <1>7, <1>8, <1>9 DEF WorkflowInv

-------------------------------------------------------------------------------
(* The theorems.                                                             *)

\* A workflow that was just created.
LEMMA WorkflowStarts ==
  ASSUME Init
  PROVE  WorkflowInv
<1>1. NewPage("page") \in Pages /\ ~NewPage("page").done
  BY DEF NewPage, Pages
<1>2. Len(pages) = 1 /\ pages[1] = NewPage("page") /\ DOMAIN pages = {1} /\ DOMAIN listed = {}
      /\ Len(listed) = 0 /\ Len(children) = 0 /\ Len(runs) = 0 /\ DOMAIN children = {} /\ DOMAIN runs = {}
  BY DEF Init
<1>3. WorkflowTypes
  <2>1. pages \in Seq(Pages) /\ pages # <<>> /\ listed \in Seq(Files) /\ children \in Seq(Children)
        /\ runs \in Seq(ChildRuns)
    BY <1>1 DEF Init
  <2> QED BY <2>1 DEF Init, WorkflowTypes, States, Workers, Aggregates, NoCounts
<1>4. Listed = {} /\ ToSet(listed) = {}
  BY <1>1, <1>2 DEF Listed, ToSet
<1>5. PagesChained
  <2>1. Cardinality(Listed) = 0 /\ 0 <= MaxEntries
    BY <1>4, FS_EmptySet, WorkflowAssumption
  <2> QED BY <1>1, <1>2, <1>4, <2>1 DEF PagesChained
<1>6. ProposalSeen /\ ChildrenCut
  BY DEF Init, ProposalSeen, ChildrenCut
<1>7. RunsInOrder
  <2>1. Upto(0) = 0
    BY <1>2, WorkflowAssumption DEF Upto
  <2>2. counts.children = 0 /\ counts.items = 0 /\ counts.new + counts.already = 0
    BY DEF Init, NoCounts
  <2> QED BY <1>2, <2>1, <2>2 DEF RunsInOrder
<1>8. ExecutionKnows
  BY DEF Init, ExecutionKnows, Executing
<1> QED BY <1>3, <1>5, <1>6, <1>7, <1>8 DEF WorkflowInv

\* A step that changes nothing of the parent.
LEMMA WorkflowIdles ==
  ASSUME WorkflowInv, UNCHANGED vars
  PROVE  WorkflowInv'
<1>1. UNCHANGED <<state, approved, counts, proposal, children, runs, worker, pc, seen>>
  BY DEF vars, proposal
<1>2. state = "completed" => Open = {}
  BY ChildIs DEF WorkflowInv, ExecutionKnows
<1>3. /\ state \in States /\ worker \in Workers /\ pc \in [Requests -> {"idle", "read"}]
      /\ seen \in [Requests -> States \cup {"none"}]
  BY DEF WorkflowInv, WorkflowTypes
<1>4. /\ state \in {"running", "blocked", "completed"} => approved
      /\ \A q \in Requests : seen[q] \in {"running", "blocked"} => approved
      /\ worker \in Executing => approved
  BY DEF WorkflowInv, ExecutionKnows
<1>5. \/ Proposed
      \/ state \in {"inventorying", "failed"} /\ ~approved /\ \A q \in Requests : seen[q] = "none"
  BY DEF WorkflowInv, ProposalSeen
<1> QED BY <1>1, <1>2, <1>3, <1>4, <1>5, ParentStep

\* Every step keeps the invariant.
LEMMA WorkflowMoves ==
  ASSUME WorkflowInv, [Next]_vars
  PROVE  WorkflowInv'
<1>1. CASE Work
  BY <1>1, ThreadParentSteps, PageReplaced, PageFollows, PageRead, ThreadRunSteps, PlanStep, BindStep,
     CompleteStep DEF Work, Inventory, Execution
<1>2. CASE Helper
  BY <1>2, PageReplaced, HelperRunSteps DEF Helper
<1>3. CASE Faulty
  BY <1>3, PageReplaced, HelperRunSteps DEF Faulty
<1>4. CASE Restart
  BY <1>4, RestartStep
<1>5. CASE Poll
  BY <1>5, RequestParentSteps
<1>6. CASE \E q \in Requests : Request(q)
  BY <1>6, RequestParentSteps, ApproveStep DEF Request, Reply
<1>7. CASE UNCHANGED vars
  BY <1>7, WorkflowIdles
<1> QED BY <1>1, <1>2, <1>3, <1>4, <1>5, <1>6, <1>7 DEF Next

\* The invariant of the workflow, whatever the Source lists and whenever it is resumed
\* or started again.
THEOREM WorkflowInvariant == Spec => []WorkflowInv
<1>1. Init => WorkflowInv
  BY WorkflowStarts
<1>2. WorkflowInv /\ [Next]_vars => WorkflowInv'
  BY WorkflowMoves
<1> QED BY <1>1, <1>2, PTL DEF Spec

\* The parent can only be approved for a whole list: one unbroken chain of pages in which
\* no entry comes twice, with exactly its eligible entries as candidates.
THEOREM ProposalIsWholeCorrect == Spec => []ProposalIsWhole
<1>1. ASSUME WorkflowInv PROVE ProposalIsWhole
  <2> SUFFICES ASSUME state \notin {"inventorying", "failed"}
               PROVE  /\ \A i \in DOMAIN pages : pages[i].done /\ (pages[i].last <=> i = Len(pages))
                      /\ \A i, j \in DOMAIN pages : i # j => pages[i].items \cap pages[j].items = {}
                      /\ Len(listed) = Cardinality(ToSet(listed))
                      /\ ToSet(listed) = Listed \cap Eligible
                      /\ Cardinality(Listed) <= MaxEntries
    BY DEF ProposalIsWhole
  <2> DEFINE n == Len(pages)
  <2>t. n \in Nat \ {0} /\ DOMAIN pages = 1 .. n /\ listed \in Seq(Files) /\ PagesChained
        /\ \A i \in 1 .. n : pages[i] \in Pages
    BY <1>1, WorkflowFacts DEF WorkflowInv, WorkflowTypes
  <2>1. pages[n].done /\ pages[n].last
    BY <1>1 DEF WorkflowInv, ProposalSeen, Proposed, Current
  <2>2. \A i \in 1 .. n : i # n => pages[i].done /\ ~pages[i].last
    <3> SUFFICES ASSUME NEW i \in 1 .. n, i # n PROVE pages[i].done /\ ~pages[i].last
      OBVIOUS
    <3> HIDE DEF n
    <3>1. i < n
      BY <2>t
    <3>2. n = Len(pages)
      BY DEF n
    <3> QED BY <2>t, <3>1, <3>2 DEF PagesChained
  <2>3. \A i \in DOMAIN pages : pages[i].done /\ (pages[i].last <=> i = Len(pages))
    BY <2>t, <2>1, <2>2
  <2>4. Len(listed) = Cardinality(ToSet(listed))
    BY <2>t, RangeCounted DEF PagesChained
  <2> QED BY <2>t, <2>3, <2>4 DEF PagesChained
<1> QED BY <1>1, WorkflowInvariant, PTL

\* A child has one acquisition run at most, and the one it names is its own, although a
\* crash may come between the run's commit and the child's.
THEOREM OneRunPerChildCorrect == Spec => []OneRunPerChild
<1>1. ASSUME WorkflowInv PROVE OneRunPerChild
  <2>t. /\ Len(runs) \in Nat /\ DOMAIN runs = 1 .. Len(runs) /\ DOMAIN children = 1 .. Len(children)
        /\ RunsInOrder
    BY <1>1, WorkflowFacts DEF WorkflowInv
  <2> SUFFICES ASSUME NEW k \in DOMAIN children
               PROVE  /\ Cardinality(RunIds(k)) <= 1
                      /\ children[k].run # 0 => runs[children[k].run].key = k
    BY DEF OneRunPerChild
  <2>1. \A i \in DOMAIN runs : runs[i].key = i
    BY <2>t DEF RunsInOrder, RunFits
  <2>2. RunIds(k) = {} \/ RunIds(k) = {k}
    BY <2>1 DEF RunIds
  <2>3. Cardinality(RunIds(k)) <= 1
    <3>1. CASE RunIds(k) = {}
      BY <3>1, FS_EmptySet
    <3>2. CASE RunIds(k) = {k}
      <4>1. Cardinality({k}) = 1
        BY FS_Singleton
      <4> QED BY <3>2, <4>1
    <3> QED BY <2>2, <3>1, <3>2
  <2>4. children[k].run # 0 => children[k].run = k /\ k \in DOMAIN runs
    BY <2>t DEF RunsInOrder, ChildFits
  <2> QED BY <2>1, <2>3, <2>4
<1> QED BY <1>1, WorkflowInvariant, PTL

\* No child is received before the one before it has gone through Source Intake.
THEOREM ChildrenInOrderCorrect == Spec => []ChildrenInOrder
<1>1. ASSUME WorkflowInv PROVE ChildrenInOrder
  <2>t. /\ Len(runs) \in Nat /\ DOMAIN runs = 1 .. Len(runs) /\ counts.children \in Nat /\ RunsInOrder
    BY <1>1, WorkflowFacts DEF WorkflowInv
  <2>1. \A i \in 1 .. Len(runs) : i # Len(runs) => i <= counts.children
    <3> DEFINE r == Len(runs)
               c == counts.children
    <3>1. r \in Nat /\ c \in Nat /\ (r = c \/ r = c + 1)
      BY <2>t DEF RunsInOrder
    <3> HIDE DEF r, c
    <3>2. \A i \in 1 .. r : i # r => i <= c
      BY <3>1
    <3> QED BY <3>2 DEF r, c
  <2> QED BY <2>t, <2>1 DEF ChildrenInOrder, RunsInOrder, RunFits
<1> QED BY <1>1, WorkflowInvariant, PTL

\* All children completed: the counted entries are the listed ones.
LEMMA CompletedIsAll ==
  ASSUME WorkflowInv, state = "completed"
  PROVE  /\ approved /\ counts.children = Len(children) /\ Upto(Len(children)) = Len(listed)
         /\ \A k \in DOMAIN children : k \in DOMAIN runs /\ runs[k].bridge = "completed"
<1>t. /\ WorkflowTypes /\ RunsInOrder /\ ChildrenCut /\ Len(listed) \in Nat
      /\ Len(children) \in Nat /\ DOMAIN children = 1 .. Len(children)
      /\ Len(runs) \in Nat /\ DOMAIN runs = 1 .. Len(runs)
  BY WorkflowFacts DEF WorkflowInv
<1>1. approved /\ counts.children = Len(children)
  BY DEF WorkflowInv, ExecutionKnows
<1>2. DOMAIN children = DOMAIN ChunkSizes(Len(listed))
  BY <1>1, <1>t DEF ChildrenCut
<1>3. PICK m \in Nat : DOMAIN ChunkSizes(Len(listed)) = 1 .. m /\ Len(listed) <= m * ChildLimit
  BY <1>t, ChunksOf
<1>4. m = Len(children)
  BY <1>2, <1>3, <1>t
<1>5. Upto(m) = Len(listed)
  <2> DEFINE e == m * ChildLimit
  <2>1. e \in Int /\ Len(listed) <= e
    BY <1>3, WorkflowAssumption
  <2>2. Upto(m) = IF e <= Len(listed) THEN e ELSE Len(listed)
    BY DEF Upto
  <2> HIDE DEF e
  <2> QED BY <1>t, <2>1, <2>2
<1>6. Len(runs) = Len(children)
  <2> DEFINE r == Len(runs)
             c == Len(children)
  <2>1. r \in Nat /\ c \in Nat /\ (r = c \/ r = c + 1) /\ r <= c
    BY <1>1, <1>t DEF RunsInOrder
  <2> HIDE DEF r, c
  <2>2. r = c
    BY <2>1
  <2> QED BY <2>2 DEF r, c
<1>7. \A k \in DOMAIN children : k \in DOMAIN runs /\ runs[k].bridge = "completed"
  BY <1>1, <1>6, <1>t DEF RunsInOrder, RunFits
<1> QED BY <1>1, <1>4, <1>5, <1>7

\* The aggregate of a completed run adds up to its proposal.
THEOREM CompletedCountsAllCorrect == Spec => []CompletedCountsAll
<1>1. ASSUME WorkflowInv PROVE CompletedCountsAll
  BY <1>1, CompletedIsAll DEF WorkflowInv, RunsInOrder, CompletedCountsAll
<1> QED BY <1>1, WorkflowInvariant, PTL

\* Every candidate of a completed run has gone through exactly one bridge.
THEOREM EveryFileOnceCorrect == Spec => []EveryFileOnce
<1>1. ASSUME WorkflowInv PROVE EveryFileOnce
  <2> SUFFICES ASSUME state = "completed", NEW f \in ToSet(listed)
               PROVE  \E i \in DOMAIN runs :
                        /\ f \in runs[i].files /\ runs[i].bridge = "completed"
                        /\ \A j \in DOMAIN runs : f \in runs[j].files => j = i
    BY DEF EveryFileOnce
  <2> DEFINE n == Len(listed)
  <2>t. /\ WorkflowTypes /\ RunsInOrder /\ ChildrenCut /\ PagesChained /\ n \in Nat /\ DOMAIN listed = 1 .. n
        /\ Len(children) \in Nat /\ DOMAIN children = 1 .. Len(children)
        /\ Len(runs) \in Nat /\ DOMAIN runs = 1 .. Len(runs)
    BY <1>1, WorkflowFacts DEF WorkflowInv
  <2>a. approved /\ \A k \in DOMAIN children : k \in DOMAIN runs /\ runs[k].bridge = "completed"
    BY <1>1, CompletedIsAll
  <2>1. DOMAIN children = DOMAIN ChunkSizes(n)
    BY <2>a, <2>t DEF ChildrenCut
  <2>2. PICK x \in 1 .. n : f = listed[x]
    BY <2>t DEF ToSet
  <2>3. \A k \in DOMAIN runs : k \in DOMAIN children /\ runs[k].files = ChunkFiles(k)
    BY <2>t DEF RunsInOrder, RunFits
  <2>4. \A y \in 1 .. n : listed[y] = f => y = x
    BY <2>2, <2>t DEF PagesChained
  <2>5. ASSUME NEW k \in DOMAIN children
        PROVE  f \in ChunkFiles(k) <=> (k - 1) * ChildLimit < x /\ x <= k * ChildLimit
    <3>1. ChunkFiles(k) = {listed[p] : p \in {y \in 1 .. n :
                                  (k - 1) * ChildLimit < y /\ y <= k * ChildLimit}}
      BY <2>t, ChunkIs
    <3> HIDE DEF n
    <3>2. f \in ChunkFiles(k) => (k - 1) * ChildLimit < x /\ x <= k * ChildLimit
      BY <2>4, <3>1
    <3>3. (k - 1) * ChildLimit < x /\ x <= k * ChildLimit => f \in ChunkFiles(k)
      BY <2>2, <3>1
    <3> QED BY <3>2, <3>3
  <2>6. PICK k \in DOMAIN ChunkSizes(n) : (k - 1) * ChildLimit < x /\ x <= k * ChildLimit
    BY <2>t, EntryInChunk
  <2>7. \A j \in DOMAIN children : (j - 1) * ChildLimit < x /\ x <= j * ChildLimit => j = k
    BY <2>1, <2>6, <2>t, EntryInChunk
  <2>8. k \in DOMAIN runs /\ runs[k].bridge = "completed" /\ f \in runs[k].files
    BY <2>1, <2>3, <2>5, <2>6, <2>a
  <2>9. \A j \in DOMAIN runs : f \in runs[j].files => j = k
    BY <2>3, <2>5, <2>7
  <2> QED BY <2>8, <2>9
<1> QED BY <1>1, WorkflowInvariant, PTL

\* A step never takes anything back from an approved proposal, nor from a completed child.
THEOREM CompletedChildKeptCorrect == Spec => CompletedChildKept
<1> DEFINE Kept == /\ approved => approved' /\ proposal' = proposal
                   /\ children # <<>> => DOMAIN children' = DOMAIN children
                   /\ \A k \in DOMAIN children :
                        children[k].state = "completed" => children'[k] = children[k]
<1>1. ASSUME WorkflowInv, [Next]_vars PROVE Kept
  <2>p. approved => Proposed
    BY <1>1 DEF WorkflowInv, ProposalSeen
  <2>c. ~approved => children = <<>>
    BY <1>1 DEF WorkflowInv, ChildrenCut
  <2>1. CASE UNCHANGED <<approved, proposal, children>>
    BY <2>1
  <2>2. CASE AskAgain \/ AttestAgain \/ HelperLists \/ HelperAttests \/ PageLost \/ NextPage \/ AcceptPage
    <3>1. ~approved /\ children = <<>>
      BY <1>1, <2>2, <2>p, <2>c, PageReplaced, PageFollows, PageRead
    <3> QED BY <3>1
  <2>3. CASE BindChild \/ CompleteChild
    <3>1. UNCHANGED <<approved, proposal>>
          /\ \E c \in Children : /\ children' = [children EXCEPT ![Child] = c]
                                 /\ Child \in DOMAIN children /\ children[Child].state # "completed"
      BY <1>1, <2>3, BindStep, CompleteStep
    <3> QED BY <3>1
  <2>4. CASE \E q \in Requests : Approve(q)
    BY <1>1, <2>4, ApproveStep
  <2>5. CASE Work
    <3>1. \/ ReadParent \/ HandleError \/ EndWorker
          \/ WaitPage \/ RefuseInventory \/ Propose \/ RefuseCapacity
          \/ FinishParent \/ ActivationConflict \/ WaitHelper \/ ReceivingStuck \/ Interrupted
          \/ WaitBridge \/ FailChild
          \/ AskAgain \/ AttestAgain \/ NextPage \/ AcceptPage
          \/ ActivateDir \/ ActivateRun \/ AttestChild \/ CreateAcquire \/ StartBridge
          \/ PlanChild \/ BindChild \/ CompleteChild
      BY <2>5 DEF Work, Inventory, Execution
    <3> QED BY <1>1, <2>1, <2>2, <2>3, <3>1, ThreadParentSteps, ThreadRunSteps, PlanStep
  <2>6. CASE Helper \/ Faulty
    BY <1>1, <2>1, <2>2, <2>6, HelperRunSteps DEF Helper, Faulty
  <2>7. CASE Restart \/ Poll
    BY <1>1, <2>1, <2>7, RestartStep, RequestParentSteps
  <2>8. CASE \E q \in Requests : Request(q)
    BY <1>1, <2>1, <2>4, <2>8, RequestParentSteps DEF Request, Reply
  <2>9. CASE UNCHANGED vars
    BY <2>1, <2>9 DEF vars, proposal
  <2> QED BY <1>1, <2>5, <2>6, <2>7, <2>8, <2>9 DEF Next
<1>2. WorkflowInv /\ [Next]_vars => [Kept]_vars
  BY <1>1
<1> HIDE DEF Kept
<1>3. Spec => [][Kept]_vars
  BY <1>2, WorkflowInvariant, PTL DEF Spec
<1> QED BY <1>3 DEF CompletedChildKept, Kept

===============================================================================
