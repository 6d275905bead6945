-------------------------- MODULE BackgroundRunsProofs --------------------------
(***************************************************************************)
(* The safety of the background services, for every number of items, runs, *)
(* stages and faults.                                                      *)
(*                                                                         *)
(* Duplicate processing lets the cutoff of its last completed run stand    *)
(* for all that is processed.  The runs may overlap and end in any order,  *)
(* so the invariant says of every cutoff, whether its run is completed, at *)
(* work or being started, what has become of the items before it.          *)
(***************************************************************************)
EXTENDS BackgroundRuns, WellFoundedInduction, TLAPS

Rows    == [status : Statuses, stop : BOOLEAN, cutoff : Nat, missed : SUBSET Items]
Workers == [pc : {"idle", "load", "check", "item", "report"}, run : Nat, stage : Nat \ {0},
            left : SUBSET Items, stop : BOOLEAN]
Starts  == [pc : {"idle", "spawn", "insert"}, run : Nat, cutoff : Nat, work : SUBSET Items,
            missed : SUBSET Items]

BackgroundTypes ==
  /\ kind \in {"sweep", "workset"} /\ rows \in Seq(Rows)
  /\ created \in [Items -> Nat] /\ committed \subseteq Items /\ done \in [Items -> Nat] /\ now \in Nat
  /\ worker \in [Processes -> Workers] /\ start \in [Processes -> Starts]
  /\ stopper \in [run : Nat, was : Statuses]

\* The clock is not behind what it has stamped, and the processes know existing rows.
ClockAndRows ==
  /\ \A i \in Items : created[i] <= now
  /\ \A i \in committed : created[i] > 0
  /\ \A r \in DOMAIN rows : rows[r].cutoff <= now
  /\ \A p \in Processes : /\ worker[p].pc # "idle" => worker[p].run \in DOMAIN rows
                          /\ start[p].pc = "insert" => start[p].cutoff <= now
  /\ stopper # NoStop => stopper.run \in DOMAIN rows

\* An item whose insert was open at a cutoff is among the missed ones.
OpenIsMissed(cutoff, missed) ==
  \A i \in Items \ committed : 0 < created[i] /\ created[i] <= cutoff => i \in missed

\* What a cutoff covers is processed, still to be processed by the run, or was missed.
Covered(cutoff, left, missed) ==
  \A i \in committed : created[i] <= cutoff =>
    done[i] > 0 \/ i \in left \/ i \in missed \/ \E r \in DOMAIN rows : i \in rows[r].missed

\* Duplicate processing: the runs that are completed, being worked on and being started.
WorksetsCover ==
  kind = "workset" =>
    /\ \A r \in DOMAIN rows : /\ OpenIsMissed(rows[r].cutoff, rows[r].missed)
                              /\ rows[r].status = "completed" => Covered(rows[r].cutoff, {}, {})
    /\ \A p \in Processes :
         /\ worker[p].pc # "load"
         /\ worker[p].pc \in {"check", "item"} => Covered(rows[worker[p].run].cutoff, worker[p].left, {})
         /\ start[p].pc # "spawn"
         /\ start[p].pc = "insert" => /\ OpenIsMissed(start[p].cutoff, start[p].missed)
                                      /\ Covered(start[p].cutoff, start[p].work, start[p].missed)

\* A sweep: only the backend runs one, its thread works on a row that has not ended, and
\* so does the thread that is to be started, on another row.
SweepsOwnRow ==
  kind = "sweep" =>
    /\ worker["script"].pc = "idle" /\ \A p \in Processes : start[p].pc # "insert"
    /\ start["script"].pc = "idle"
    /\ worker["backend"].pc \in {"load", "check", "item"} => Active(worker["backend"].run)
    /\ start["backend"].pc = "spawn" =>
         /\ start["backend"].run \in DOMAIN rows /\ Active(start["backend"].run)
         /\ worker["backend"].pc # "idle" => worker["backend"].run # start["backend"].run

BackgroundInv == BackgroundTypes /\ ClockAndRows /\ WorksetsCover /\ SweepsOwnRow

-------------------------------------------------------------------------------
(* The last cutoff.                                                          *)

\* A set of natural numbers has a least one.
LEMMA LeastExists ==
  ASSUME NEW T, T \subseteq Nat, T # {}
  PROVE  \E x \in T : \A y \in T : x <= y
<1> DEFINE R == OpToRel(<, Nat)
<1>1. IsWellFoundedOn(R, Nat)
  BY NatLessThanWellFounded
<1>2. PICK x \in T : \A y \in T : ~ (<<y, x>> \in R)
  <2> HIDE DEF R
  <2> QED BY <1>1, WFMin
<1>3. R = {ss \in Nat \X Nat : ss[1] < ss[2]}
  BY DEF OpToRel
<1>4. \A y \in T : ~(y < x)
  <2> SUFFICES ASSUME NEW y \in T, y < x PROVE FALSE
    OBVIOUS
  <2>1. <<y, x>> \in R
    BY <1>3
  <2> QED BY <1>2, <2>1
<1> QED BY <1>4

\* One that is bounded has a greatest one.
LEMMA MaxIs ==
  ASSUME NEW n \in Nat, NEW S, S \subseteq 1 .. n, S # {}
  PROVE  Max(S) \in S /\ \A y \in S : y <= Max(S)
<1> DEFINE T == {n - x : x \in S}
<1>1. T \subseteq Nat /\ T # {}
  <2>1. \A x \in S : n - x \in Nat
    OBVIOUS
  <2> QED BY <2>1
<1>2. PICK t \in T : \A u \in T : t <= u
  BY <1>1, LeastExists
<1>3. PICK x \in S : t = n - x
  BY <1>2
<1>4. \A y \in S : x >= y
  <2> SUFFICES ASSUME NEW y \in S PROVE x >= y
    OBVIOUS
  <2>1. t <= n - y
    BY <1>2
  <2> QED BY <1>3, <2>1
<1>5. Max(S) \in S /\ \A y \in S : Max(S) >= y
  BY <1>4 DEF Max
<1> QED BY <1>5

\* The last cutoff is that of a completed run, or there is none.
LEMMA LastCutoffIs ==
  ASSUME rows \in Seq(Rows)
  PROVE  \/ LastCutoff = 0
         \/ \E r \in DOMAIN rows : rows[r].status = "completed" /\ LastCutoff = rows[r].cutoff
<1> DEFINE C == {r \in DOMAIN rows : rows[r].status = "completed"}
<1>1. CASE C = {}
  BY <1>1 DEF LastCutoff
<1>2. CASE C # {}
  <2>1. Len(rows) \in Nat /\ C \subseteq 1 .. Len(rows)
    OBVIOUS
  <2>2. LastCutoff = rows[Max(C)].cutoff
    BY <1>2 DEF LastCutoff
  <2> HIDE DEF C
  <2>3. Max(C) \in C
    BY <1>2, <2>1, MaxIs
  <2> QED BY <2>2, <2>3 DEF C
<1> QED BY <1>1, <1>2

-------------------------------------------------------------------------------
(* What the steps keep.                                                      *)

\* The parts of a typed state.
LEMMA BackgroundFacts ==
  ASSUME BackgroundTypes
  PROVE  /\ Len(rows) \in Nat /\ DOMAIN rows = 1 .. Len(rows) /\ rows \in Seq(Rows)
         /\ \A r \in DOMAIN rows : rows[r] \in Rows
         /\ \A p \in Processes : worker[p] \in Workers /\ start[p] \in Starts
         /\ DOMAIN worker = Processes /\ DOMAIN start = Processes
<1>1. Len(rows) \in Nat /\ DOMAIN rows = 1 .. Len(rows) /\ rows \in Seq(Rows)
      /\ \A r \in DOMAIN rows : rows[r] \in Rows
  BY DEF BackgroundTypes
<1>2. /\ \A p \in Processes : worker[p] \in Workers /\ start[p] \in Starts
      /\ DOMAIN worker = Processes /\ DOMAIN start = Processes
  BY DEF BackgroundTypes
<1> QED BY <1>1, <1>2

\* A step of duplicate processing that freezes nothing and takes no item into account: no
\* row gets another cutoff, a row is completed by a run with nothing left, and what leaves
\* the hands of a run is processed.
LEMMA WorksetsKept ==
  ASSUME BackgroundInv, kind = "workset",
         created' = created, committed' = committed,
         \A i \in Items : done[i] > 0 => done'[i] > 0,
         DOMAIN rows' = DOMAIN rows,
         \A r \in DOMAIN rows :
           /\ rows'[r].cutoff = rows[r].cutoff /\ rows'[r].missed = rows[r].missed
           /\ rows'[r].status = "completed" =>
                \/ rows[r].status = "completed"
                \/ \E p \in Processes : /\ worker[p].pc = "check" /\ worker[p].left = {}
                                        /\ worker[p].run = r,
         \A p \in Processes :
           /\ worker'[p].pc # "load" /\ start'[p].pc # "spawn"
           /\ worker'[p].pc \in {"check", "item"} =>
                /\ worker[p].pc \in {"check", "item"} /\ worker'[p].run = worker[p].run
                /\ worker[p].left \subseteq worker'[p].left \cup {i \in Items : done'[i] > 0}
           /\ start'[p].pc = "insert" => start'[p] = start[p]
  PROVE  WorksetsCover'
<1>t. /\ rows \in Seq(Rows) /\ committed \subseteq Items
      /\ \A p \in Processes : worker[p].pc # "idle" => worker[p].run \in DOMAIN rows
  BY DEF BackgroundInv, BackgroundTypes, ClockAndRows
<1>w. /\ \A r \in DOMAIN rows : /\ OpenIsMissed(rows[r].cutoff, rows[r].missed)
                                /\ rows[r].status = "completed" => Covered(rows[r].cutoff, {}, {})
      /\ \A p \in Processes :
           /\ worker[p].pc \in {"check", "item"} => Covered(rows[worker[p].run].cutoff, worker[p].left, {})
           /\ start[p].pc = "insert" => /\ OpenIsMissed(start[p].cutoff, start[p].missed)
                                        /\ Covered(start[p].cutoff, start[p].work, start[p].missed)
  BY DEF BackgroundInv, WorksetsCover
<1>m. \A i : (\E r \in DOMAIN rows : i \in rows[r].missed) => \E r \in DOMAIN rows' : i \in rows'[r].missed
  OBVIOUS
<1>1. ASSUME NEW r \in DOMAIN rows'
      PROVE  OpenIsMissed(rows[r].cutoff, rows[r].missed)'
  BY <1>w DEF OpenIsMissed
<1>2. ASSUME NEW r \in DOMAIN rows', rows'[r].status = "completed"
      PROVE  Covered(rows[r].cutoff, {}, {})'
  <2>1. Covered(rows[r].cutoff, {}, {})
    <3>1. CASE rows[r].status = "completed"
      BY <1>w, <3>1
    <3>2. CASE \E p \in Processes : worker[p].pc = "check" /\ worker[p].left = {} /\ worker[p].run = r
      <4>1. PICK p \in Processes : worker[p].pc = "check" /\ worker[p].left = {} /\ worker[p].run = r
        BY <3>2
      <4>2. Covered(rows[worker[p].run].cutoff, worker[p].left, {})
        BY <1>w, <4>1
      <4> QED BY <4>1, <4>2
    <3> QED BY <1>2, <3>1, <3>2
  <2>2. rows'[r].cutoff = rows[r].cutoff
    OBVIOUS
  <2>3. \A i \in committed' : created'[i] <= rows[r].cutoff =>
            done'[i] > 0 \/ i \in {} \/ i \in {} \/ \E s \in DOMAIN rows' : i \in rows'[s].missed
    BY <1>m, <1>t, <2>1 DEF Covered
  <2> QED BY <2>2, <2>3 DEF Covered
<1>3. ASSUME NEW p \in Processes, worker'[p].pc \in {"check", "item"}
      PROVE  Covered(rows[worker[p].run].cutoff, worker[p].left, {})'
  <2>1. Covered(rows[worker[p].run].cutoff, worker[p].left, {}) /\ worker[p].run \in DOMAIN rows
    BY <1>3, <1>t, <1>w
  <2>2. worker'[p].run = worker[p].run /\ rows'[worker'[p].run].cutoff = rows[worker[p].run].cutoff
    BY <1>3, <2>1
  <2>3. worker[p].left \subseteq worker'[p].left \cup {i \in Items : done'[i] > 0}
    BY <1>3
  <2>4. \A i \in committed' : created'[i] <= rows[worker[p].run].cutoff =>
            done'[i] > 0 \/ i \in worker'[p].left \/ i \in {} \/ \E s \in DOMAIN rows' : i \in rows'[s].missed
    BY <1>m, <1>t, <2>1, <2>3 DEF Covered
  <2> QED BY <2>2, <2>4 DEF Covered
<1>4. ASSUME NEW p \in Processes, start'[p].pc = "insert"
      PROVE  /\ OpenIsMissed(start[p].cutoff, start[p].missed)'
             /\ Covered(start[p].cutoff, start[p].work, start[p].missed)'
  <2>1. start'[p] = start[p] /\ OpenIsMissed(start[p].cutoff, start[p].missed)
        /\ Covered(start[p].cutoff, start[p].work, start[p].missed)
    BY <1>4, <1>w
  <2>2. \A i \in committed' : created'[i] <= start[p].cutoff =>
            done'[i] > 0 \/ i \in start[p].work \/ i \in start[p].missed
            \/ \E s \in DOMAIN rows' : i \in rows'[s].missed
    BY <1>m, <1>t, <2>1 DEF Covered
  <2> QED BY <2>1, <2>2 DEF Covered, OpenIsMissed
<1>5. \A p \in Processes : worker'[p].pc # "load" /\ start'[p].pc # "spawn"
  OBVIOUS
<1> QED BY <1>1, <1>2, <1>3, <1>4, <1>5 DEF WorksetsCover

\* A row that is written keeps its cutoff and the items it missed.
LEMMA RowEdit ==
  ASSUME BackgroundTypes, NEW r \in DOMAIN rows, NEW row \in Rows,
         row.cutoff = rows[r].cutoff, row.missed = rows[r].missed,
         rows' = [rows EXCEPT ![r] = row]
  PROVE  /\ rows' \in Seq(Rows) /\ Len(rows') = Len(rows) /\ DOMAIN rows' = DOMAIN rows /\ rows'[r] = row
         /\ \A s \in DOMAIN rows : /\ s # r => rows'[s] = rows[s]
                                   /\ rows'[s].cutoff = rows[s].cutoff /\ rows'[s].missed = rows[s].missed
<1>t. Len(rows) \in Nat /\ DOMAIN rows = 1 .. Len(rows) /\ rows \in Seq(Rows)
  BY BackgroundFacts
<1>1. rows' \in Seq(Rows) /\ Len(rows') = Len(rows) /\ DOMAIN rows' = DOMAIN rows
  BY <1>t
<1>2. rows'[r] = row /\ \A s \in DOMAIN rows : s # r => rows'[s] = rows[s]
  BY <1>t
<1> QED BY <1>1, <1>2

\* The end of a run.
LEMMA EndRunIs ==
  ASSUME BackgroundInv, NEW p \in Processes, NEW status \in Final,
         worker[p].pc # "idle", EndRun(p, status)
  PROVE  /\ rows' \in Seq(Rows) /\ DOMAIN rows' = DOMAIN rows /\ worker[p].run \in DOMAIN rows
         /\ \A s \in DOMAIN rows :
              /\ rows'[s].cutoff = rows[s].cutoff /\ rows'[s].missed = rows[s].missed
              /\ s # worker[p].run => rows'[s] = rows[s]
         /\ rows'[worker[p].run].status = status
         /\ worker' \in [Processes -> Workers]
         /\ worker'[p] = [worker[p] EXCEPT !.pc = "report"]
         /\ \A q \in Processes : q # p => worker'[q] = worker[q]
         /\ UNCHANGED <<kind, items, start, stopper, faults>>
<1>t. /\ BackgroundTypes /\ worker \in [Processes -> Workers] /\ worker[p] \in Workers
      /\ worker[p].run \in DOMAIN rows /\ \A s \in DOMAIN rows : rows[s] \in Rows
  BY BackgroundFacts DEF BackgroundInv, BackgroundTypes, ClockAndRows
<1> DEFINE r == worker[p].run
           row == [rows[r] EXCEPT !.status = status]
           w == [worker[p] EXCEPT !.pc = "report"]
<1>1. row \in Rows /\ row.cutoff = rows[r].cutoff /\ row.missed = rows[r].missed /\ row.status = status
  <2>1. rows[r] \in Rows /\ status \in Statuses
    BY <1>t DEF Statuses
  <2> HIDE DEF r
  <2> QED BY <2>1 DEF Rows
<1>2. rows' = [rows EXCEPT ![r] = row]
  BY <1>t DEF EndRun
<1>3. w \in Workers
  BY <1>t DEF Workers
<1>4. worker' = [worker EXCEPT ![p] = w]
  BY <1>t DEF EndRun
<1>5. UNCHANGED <<kind, items, start, stopper, faults>>
  BY DEF EndRun
<1>6. /\ worker' \in [Processes -> Workers] /\ worker'[p] = w
      /\ \A q \in Processes : q # p => worker'[q] = worker[q]
  <2> HIDE DEF w
  <2> QED BY <1>t, <1>3, <1>4
<1> HIDE DEF row, w
<1>7. /\ rows' \in Seq(Rows) /\ DOMAIN rows' = DOMAIN rows /\ rows'[r] = row
      /\ \A s \in DOMAIN rows : /\ s # r => rows'[s] = rows[s]
                                /\ rows'[s].cutoff = rows[s].cutoff /\ rows'[s].missed = rows[s].missed
  <2>1. r \in DOMAIN rows
    BY <1>t
  <2> HIDE DEF r
  <2> QED BY <1>t, <1>1, <1>2, <2>1, RowEdit
<1> QED BY <1>t, <1>1, <1>5, <1>6, <1>7 DEF w

\* A stop request writes the flag, and the status of duplicate processing.
LEMMA WriteStopIs ==
  ASSUME BackgroundInv, WriteStop
  PROVE  /\ rows' \in Seq(Rows) /\ DOMAIN rows' = DOMAIN rows /\ stopper' = NoStop
         /\ \A s \in DOMAIN rows :
              /\ rows'[s].cutoff = rows[s].cutoff /\ rows'[s].missed = rows[s].missed
              /\ rows'[s].status = rows[s].status
                   \/ (kind = "workset" /\ rows'[s].status = "stop_requested")
         /\ UNCHANGED <<kind, items, worker, start, faults>>
<1>t. /\ BackgroundTypes /\ stopper.run \in DOMAIN rows /\ \A s \in DOMAIN rows : rows[s] \in Rows
      /\ stopper' = NoStop /\ UNCHANGED <<kind, items, worker, start, faults>>
  BY BackgroundFacts DEF BackgroundInv, ClockAndRows, WriteStop
<1> DEFINE r == stopper.run
           status == StopStatus(r)
           row == [rows[r] EXCEPT !.stop = TRUE, !.status = status]
<1>1. status = rows[r].status \/ (kind = "workset" /\ status = "stop_requested")
  BY DEF StopStatus
<1>2. rows' = [rows EXCEPT ![r] = row]
  BY <1>t DEF WriteStop
<1>3. rows[r] \in Rows /\ status \in Statuses
  BY <1>1, <1>t DEF Rows, Statuses
<1>r. r \in DOMAIN rows
  BY <1>t
<1> HIDE DEF r, status
<1>4. row \in Rows /\ row.cutoff = rows[r].cutoff /\ row.missed = rows[r].missed /\ row.status = status
  BY <1>3 DEF Rows
<1> HIDE DEF row
<1>5. /\ rows' \in Seq(Rows) /\ DOMAIN rows' = DOMAIN rows /\ rows'[r] = row
      /\ \A s \in DOMAIN rows : /\ s # r => rows'[s] = rows[s]
                                /\ rows'[s].cutoff = rows[s].cutoff /\ rows'[s].missed = rows[s].missed
  BY <1>t, <1>r, <1>2, <1>4, RowEdit
<1>6. \A s \in DOMAIN rows : rows'[s].status = rows[s].status
                             \/ (kind = "workset" /\ rows'[s].status = "stop_requested")
  <2> SUFFICES ASSUME NEW s \in DOMAIN rows
               PROVE  rows'[s].status = rows[s].status \/ (kind = "workset" /\ rows'[s].status = "stop_requested")
    OBVIOUS
  <2>1. CASE s = r
    <3>1. rows'[s].status = status
      BY <1>4, <1>5, <2>1
    <3>2. rows[s].status = rows[r].status
      BY <2>1
    <3> QED BY <1>1, <3>1, <3>2
  <2>2. CASE s # r
    <3>1. rows'[s] = rows[s]
      BY <1>5, <2>2
    <3> QED BY <3>1
  <2> QED BY <2>1, <2>2
<1> QED BY <1>t, <1>5, <1>6

\* A restart ends the rows that were active.
LEMMA RestartIs ==
  ASSUME BackgroundInv, Restart
  PROVE  /\ rows' \in Seq(Rows) /\ DOMAIN rows' = DOMAIN rows /\ stopper' = NoStop
         /\ \A s \in DOMAIN rows :
              /\ rows'[s].cutoff = rows[s].cutoff /\ rows'[s].missed = rows[s].missed
              /\ rows'[s].status = IF Active(s) THEN "failed" ELSE rows[s].status
         /\ worker' \in [Processes -> Workers] /\ start' \in [Processes -> Starts]
         /\ \A p \in Processes : /\ worker'[p] = worker[p] \/ worker'[p] = Idle
                                 /\ start'[p] = start[p] \/ start'[p] = NoStart
         /\ worker'["backend"] = Idle /\ start'["backend"] = NoStart
         /\ worker'["script"] = worker["script"] /\ start'["script"] = start["script"]
         /\ UNCHANGED <<kind, items>>
<1>t. /\ BackgroundTypes /\ Len(rows) \in Nat /\ DOMAIN rows = 1 .. Len(rows)
      /\ \A s \in DOMAIN rows : rows[s] \in Rows
      /\ worker \in [Processes -> Workers] /\ start \in [Processes -> Starts]
  BY BackgroundFacts DEF BackgroundInv, BackgroundTypes
<1>1. rows' = [r \in DOMAIN rows |->
         IF Active(r) THEN [rows[r] EXCEPT !.status = "failed"] ELSE rows[r]]
  BY DEF Restart
<1>2. ASSUME NEW s \in DOMAIN rows
      PROVE  /\ rows'[s] \in Rows
             /\ rows'[s].cutoff = rows[s].cutoff /\ rows'[s].missed = rows[s].missed
             /\ rows'[s].status = IF Active(s) THEN "failed" ELSE rows[s].status
  <2>1. rows[s] \in Rows
    BY <1>t
  <2>2. CASE Active(s)
    <3>1. rows'[s] = [rows[s] EXCEPT !.status = "failed"]
      BY <1>1, <2>2
    <3> QED BY <2>1, <2>2, <3>1 DEF Rows, Statuses, Final
  <2>3. CASE ~Active(s)
    BY <1>1, <2>1, <2>3
  <2> QED BY <2>2, <2>3
<1>3. rows' \in Seq(Rows) /\ DOMAIN rows' = DOMAIN rows
  <2>1. rows' \in [1 .. Len(rows) -> Rows]
    BY <1>1, <1>2, <1>t
  <2> QED BY <1>t, <2>1
<1>4. Idle \in Workers /\ NoStart \in Starts /\ "backend" \in Processes /\ "script" \in Processes
  BY DEF Idle, NoStart, Workers, Starts, Processes
<1>5. /\ worker' = [worker EXCEPT !["backend"] = Idle] /\ start' = [start EXCEPT !["backend"] = NoStart]
      /\ stopper' = NoStop /\ UNCHANGED <<kind, items>>
  BY DEF Restart
<1>6. /\ worker' \in [Processes -> Workers] /\ start' \in [Processes -> Starts]
      /\ \A p \in Processes : /\ worker'[p] = worker[p] \/ worker'[p] = Idle
                              /\ start'[p] = start[p] \/ start'[p] = NoStart
      /\ worker'["backend"] = Idle /\ start'["backend"] = NoStart
      /\ worker'["script"] = worker["script"] /\ start'["script"] = start["script"]
  BY <1>t, <1>4, <1>5
<1> QED BY <1>2, <1>3, <1>5, <1>6

-------------------------------------------------------------------------------
(* Every step keeps the invariant.                                           *)

\* A step of a thread that leaves the rows alone: it goes on with its run and drops only
\* what it has processed, or it is over.
LEMMA WorkerStep ==
  ASSUME BackgroundInv, NEW p \in Processes, NEW w \in Workers,
         worker' = [worker EXCEPT ![p] = w],
         UNCHANGED <<kind, rows, created, committed, now, start, stopper>>,
         done' \in [Items -> Nat], \A i \in Items : done[i] > 0 => done'[i] > 0,
         w.pc # "idle" => w.run = worker[p].run /\ worker[p].pc # "idle",
         kind = "workset" => /\ w.pc # "load"
                             /\ w.pc \in {"check", "item"} =>
                                  /\ worker[p].pc \in {"check", "item"}
                                  /\ worker[p].left \subseteq w.left \cup {i \in Items : done'[i] > 0},
         kind = "sweep" /\ w.pc \in {"load", "check", "item"} => worker[p].pc \in {"load", "check", "item"}
  PROVE  BackgroundInv'
<1>t. BackgroundTypes /\ ClockAndRows /\ DOMAIN worker = Processes
  BY BackgroundFacts DEF BackgroundInv
<1>w. /\ worker' \in [Processes -> Workers] /\ worker'[p] = w
      /\ \A q \in Processes : q # p => worker'[q] = worker[q]
  BY <1>t DEF BackgroundTypes
<1>1. BackgroundTypes'
  BY <1>t, <1>w DEF BackgroundTypes
<1>2. ClockAndRows'
  <2>1. \A q \in Processes : worker'[q].pc # "idle" => worker'[q].run \in DOMAIN rows
    BY <1>t, <1>w DEF ClockAndRows
  <2> QED BY <1>t, <2>1 DEF ClockAndRows, NoStop
<1>3. WorksetsCover'
  <2>1. CASE kind # "workset"
    BY <2>1 DEF WorksetsCover
  <2>2. CASE kind = "workset"
    <3>1. \A q \in Processes :
            /\ worker'[q].pc # "load" /\ start'[q].pc # "spawn"
            /\ worker'[q].pc \in {"check", "item"} =>
                 /\ worker[q].pc \in {"check", "item"} /\ worker'[q].run = worker[q].run
                 /\ worker[q].left \subseteq worker'[q].left \cup {i \in Items : done'[i] > 0}
            /\ start'[q].pc = "insert" => start'[q] = start[q]
      BY <1>w, <2>2 DEF BackgroundInv, WorksetsCover
    <3> QED BY <2>2, <3>1, WorksetsKept
  <2> QED BY <2>1, <2>2
<1>4. SweepsOwnRow'
  <2> SUFFICES ASSUME kind = "sweep" PROVE SweepsOwnRow'
    BY DEF SweepsOwnRow
  <2>1. SweepsOwnRow
    BY DEF BackgroundInv
  <2>2. "script" \in Processes /\ "backend" \in Processes
    BY DEF Processes
  <2>3. worker'["script"].pc = "idle"
    BY <1>w, <2>1, <2>2 DEF SweepsOwnRow
  <2>4. worker'["backend"].pc \in {"load", "check", "item"} => Active(worker'["backend"].run)
    BY <1>w, <2>1, <2>2 DEF SweepsOwnRow
  <2>5. worker'["backend"].pc # "idle" => /\ worker["backend"].pc # "idle"
                                          /\ worker'["backend"].run = worker["backend"].run
    BY <1>w, <2>2
  <2> QED BY <2>1, <2>3, <2>4, <2>5 DEF SweepsOwnRow, Active
<1> QED BY <1>1, <1>2, <1>3, <1>4 DEF BackgroundInv

\* The threads' steps that leave the rows alone.
LEMMA WorkKeeps ==
  ASSUME BackgroundInv, NEW p \in Processes,
         \/ BeginStage(p) \/ NextStage(p) \/ BeginItem(p) \/ EndThread(p) \/ Die(p)
         \/ \E i \in Items : ItemDone(p, i) \/ ItemFailed(p, i)
  PROVE  BackgroundInv'
<1>t. /\ BackgroundTypes /\ worker[p] \in Workers /\ DOMAIN worker = Processes
      /\ done \in [Items -> Nat] /\ committed \subseteq Items /\ kind \in {"sweep", "workset"}
      /\ \A r \in DOMAIN rows : rows[r] \in Rows
      /\ worker[p].pc # "idle" => worker[p].run \in DOMAIN rows
  BY BackgroundFacts DEF BackgroundInv, BackgroundTypes, ClockAndRows
<1>l. kind = "workset" => worker[p].pc # "load"
  BY DEF BackgroundInv, WorksetsCover
<1>i. Idle \in Workers /\ Idle.pc = "idle"
  BY DEF Idle, Workers
<1>1. CASE BeginStage(p)
  <2> DEFINE left == {i \in committed : done[i] = worker[p].stage - 1}
             stop == IF worker[p].stage = 1 THEN rows[worker[p].run].stop ELSE worker[p].stop
             w == [worker[p] EXCEPT !.pc = "check", !.left = left, !.stop = stop]
  <2>1. worker' = [worker EXCEPT ![p] = w]
    BY <1>1, <1>t DEF BeginStage
  <2>2. left \subseteq Items /\ stop \in BOOLEAN
    <3>1. worker[p].run \in DOMAIN rows
      BY <1>1, <1>t DEF BeginStage
    <3>2. rows[worker[p].run].stop \in BOOLEAN
      BY <1>t, <3>1 DEF Rows
    <3> QED BY <1>t, <3>2 DEF Workers
  <2>u. /\ UNCHANGED <<kind, rows, created, committed, now, done, start, stopper>>
        /\ worker[p].pc = "load"
    BY <1>1 DEF BeginStage, items
  <2> HIDE DEF left, stop
  <2>3. w \in Workers /\ w.pc = "check" /\ w.run = worker[p].run
    BY <1>t, <2>2 DEF Workers
  <2> HIDE DEF w
  <2> QED BY <1>t, <1>l, <2>1, <2>3, <2>u, WorkerStep
<1>2. CASE NextStage(p)
  <2> DEFINE n == worker[p].stage + 1
             w == [worker[p] EXCEPT !.pc = "load", !.stage = n]
  <2>1. worker' = [worker EXCEPT ![p] = w]
    BY <1>2, <1>t DEF NextStage
  <2>u. /\ UNCHANGED <<kind, rows, created, committed, now, done, start, stopper>>
        /\ worker[p].pc = "check" /\ kind = "sweep"
    BY <1>2 DEF NextStage, items
  <2>n. n \in Nat \ {0}
    <3>1. worker[p].stage \in Nat
      BY <1>t DEF Workers
    <3> QED BY <3>1
  <2> HIDE DEF n
  <2>2. w \in Workers /\ w.pc = "load" /\ w.run = worker[p].run
    BY <1>t, <2>n DEF Workers
  <2> HIDE DEF w
  <2> QED BY <1>t, <2>1, <2>2, <2>u, WorkerStep
<1>3. CASE BeginItem(p)
  <2> DEFINE w == [worker[p] EXCEPT !.pc = "item"]
  <2>1. worker' = [worker EXCEPT ![p] = w]
    BY <1>3, <1>t DEF BeginItem
  <2>u. /\ UNCHANGED <<kind, rows, created, committed, now, done, start, stopper>>
        /\ worker[p].pc = "check"
    BY <1>3 DEF BeginItem, items
  <2>2. w \in Workers /\ w.pc = "item" /\ w.run = worker[p].run /\ w.left = worker[p].left
    BY <1>t DEF Workers
  <2> HIDE DEF w
  <2> QED BY <1>t, <2>1, <2>2, <2>u, WorkerStep
<1>4. CASE EndThread(p) \/ Die(p)
  <2>1. /\ worker' = [worker EXCEPT ![p] = Idle]
        /\ UNCHANGED <<kind, rows, created, committed, now, done, start, stopper>>
    BY <1>4 DEF EndThread, Die, items
  <2> HIDE DEF Idle
  <2> QED BY <1>t, <1>i, <2>1, WorkerStep
<1>5. CASE \E i \in Items : ItemDone(p, i)
  <2>1. PICK i \in Items : ItemDone(p, i)
    BY <1>5
  <2> DEFINE passed == IF worker[p].stage > done[i] THEN worker[p].stage ELSE done[i]
             w == [worker[p] EXCEPT !.pc = "check", !.left = worker[p].left \ {i}]
  <2>2. worker' = [worker EXCEPT ![p] = w] /\ done' = [done EXCEPT ![i] = passed]
    BY <1>t, <2>1 DEF ItemDone
  <2>u. /\ UNCHANGED <<kind, rows, created, committed, now, start, stopper>>
        /\ worker[p].pc = "item"
    BY <2>1 DEF ItemDone
  <2>3. passed \in Nat /\ passed > 0
    <3>1. worker[p].stage \in Nat \ {0} /\ done[i] \in Nat
      BY <1>t DEF Workers
    <3> QED BY <3>1
  <2>4. /\ w \in Workers /\ w.pc = "check" /\ w.run = worker[p].run
        /\ w.left = worker[p].left \ {i} /\ worker[p].left \subseteq Items
    BY <1>t DEF Workers
  <2> HIDE DEF passed, w
  <2>5. /\ done' \in [Items -> Nat] /\ \A j \in Items : done[j] > 0 => done'[j] > 0
        /\ done'[i] > 0
    BY <1>t, <2>2, <2>3
  <2>6. worker[p].left \subseteq w.left \cup {j \in Items : done'[j] > 0}
    BY <2>4, <2>5
  <2> QED BY <1>t, <2>2, <2>4, <2>5, <2>6, <2>u, WorkerStep
<1>6. CASE \E i \in Items : ItemFailed(p, i)
  <2>1. PICK i \in Items : ItemFailed(p, i)
    BY <1>6
  <2>2. PICK passed \in {done[i], Stages}, stop \in {worker[p].stop, rows[worker[p].run].stop} :
          /\ done' = [done EXCEPT ![i] = passed]
          /\ worker' = [worker EXCEPT ![p].pc = "check", ![p].left = @ \ {i}, ![p].stop = stop]
    BY <2>1 DEF ItemFailed
  <2>u. /\ UNCHANGED <<kind, rows, created, committed, now, start, stopper>>
        /\ worker[p].pc = "item" /\ kind = "sweep"
    BY <2>1 DEF ItemFailed
  <2> DEFINE w == [worker[p] EXCEPT !.pc = "check", !.left = worker[p].left \ {i}, !.stop = stop]
  <2>3. worker' = [worker EXCEPT ![p] = w]
    BY <1>t, <2>2
  <2>4. stop \in BOOLEAN
    <3>1. rows[worker[p].run].stop \in BOOLEAN
      BY <1>t, <2>u DEF Rows
    <3> QED BY <1>t, <3>1 DEF Workers
  <2>5. w \in Workers /\ w.pc = "check" /\ w.run = worker[p].run
    BY <1>t, <2>4 DEF Workers
  <2> HIDE DEF w
  <2>6. done' \in [Items -> Nat] /\ \A j \in Items : done[j] > 0 => done'[j] > 0
    BY <1>t, <2>2, StagesAssumption
  <2> QED BY <1>t, <2>3, <2>5, <2>6, <2>u, WorkerStep
<1> QED BY <1>1, <1>2, <1>3, <1>4, <1>5, <1>6

\* The end of a run, by the thread that works on it.
LEMMA EndRunKeeps ==
  ASSUME BackgroundInv, NEW p \in Processes, StopRun(p) \/ CompleteRun(p) \/ FailRun(p)
  PROVE  BackgroundInv'
<1>1. PICK status \in Final : /\ EndRun(p, status)
                              /\ status = "completed" => worker[p].pc = "check" /\ worker[p].left = {}
  BY DEF StopRun, CompleteRun, FailRun, Final
<1>2. worker[p].pc # "idle" /\ (kind = "sweep" => worker[p].pc \in {"load", "check", "item"})
  BY DEF StopRun, CompleteRun, FailRun
<1>u. /\ rows' \in Seq(Rows) /\ DOMAIN rows' = DOMAIN rows /\ worker[p].run \in DOMAIN rows
      /\ \A s \in DOMAIN rows :
           /\ rows'[s].cutoff = rows[s].cutoff /\ rows'[s].missed = rows[s].missed
           /\ s # worker[p].run => rows'[s] = rows[s]
      /\ rows'[worker[p].run].status = status
      /\ worker' \in [Processes -> Workers]
      /\ worker'[p] = [worker[p] EXCEPT !.pc = "report"]
      /\ \A q \in Processes : q # p => worker'[q] = worker[q]
      /\ UNCHANGED <<kind, items, start, stopper, faults>>
  BY <1>1, <1>2, EndRunIs
<1>t. BackgroundTypes /\ ClockAndRows /\ worker[p] \in Workers
  BY BackgroundFacts DEF BackgroundInv
<1>w. worker'[p].pc = "report" /\ worker'[p].run = worker[p].run
  BY <1>t, <1>u DEF Workers
<1>3. BackgroundTypes'
  BY <1>t, <1>u DEF BackgroundTypes, items
<1>4. ClockAndRows'
  <2>1. \A q \in Processes : worker'[q].pc # "idle" => worker'[q].run \in DOMAIN rows'
    BY <1>t, <1>u, <1>w DEF ClockAndRows
  <2>2. \A r \in DOMAIN rows' : rows'[r].cutoff <= now'
    BY <1>t, <1>u DEF ClockAndRows, items
  <2>3. /\ UNCHANGED <<created, committed, now, start, stopper>> /\ DOMAIN rows' = DOMAIN rows
    BY <1>u DEF items
  <2>4. /\ (\A i \in Items : created[i] <= now)'
        /\ (\A i \in committed : created[i] > 0)'
        /\ (stopper # NoStop => stopper.run \in DOMAIN rows)'
        /\ \A q \in Processes : start'[q].pc = "insert" => start'[q].cutoff <= now'
    BY <1>t, <2>3 DEF ClockAndRows, NoStop
  <2> QED BY <2>1, <2>2, <2>4 DEF ClockAndRows
<1>5. WorksetsCover'
  <2>1. CASE kind # "workset"
    BY <1>u, <2>1 DEF WorksetsCover
  <2>2. CASE kind = "workset"
    <3>1. \A r \in DOMAIN rows :
            rows'[r].status = "completed" =>
              \/ rows[r].status = "completed"
              \/ \E q \in Processes : worker[q].pc = "check" /\ worker[q].left = {} /\ worker[q].run = r
      BY <1>1, <1>u
    <3>2. \A q \in Processes :
            /\ worker'[q].pc # "load" /\ start'[q].pc # "spawn"
            /\ worker'[q].pc \in {"check", "item"} =>
                 /\ worker[q].pc \in {"check", "item"} /\ worker'[q].run = worker[q].run
                 /\ worker[q].left \subseteq worker'[q].left \cup {i \in Items : done'[i] > 0}
            /\ start'[q].pc = "insert" => start'[q] = start[q]
      BY <1>u, <1>w, <2>2 DEF BackgroundInv, WorksetsCover
    <3>3. created' = created /\ committed' = committed /\ done' = done
      BY <1>u DEF items
    <3> QED BY <1>u, <2>2, <3>1, <3>2, <3>3, WorksetsKept
  <2> QED BY <2>1, <2>2
<1>6. SweepsOwnRow'
  <2> SUFFICES ASSUME kind = "sweep" PROVE SweepsOwnRow'
    BY <1>u DEF SweepsOwnRow
  <2>1. SweepsOwnRow
    BY DEF BackgroundInv
  <2>2. "script" \in Processes /\ "backend" \in Processes /\ Processes = {"backend", "script"}
    BY DEF Processes
  <2>3. p = "backend"
    BY <1>2, <2>1, <2>2 DEF SweepsOwnRow
  <2>4. worker'["script"].pc = "idle" /\ worker'["backend"].pc = "report"
        /\ worker'["backend"].run = worker["backend"].run
    BY <1>u, <1>w, <2>1, <2>2, <2>3 DEF SweepsOwnRow
  <2>5. start["backend"].pc = "spawn" => /\ start["backend"].run \in DOMAIN rows
                                         /\ Active(start["backend"].run)
                                         /\ start["backend"].run # worker["backend"].run
    BY <1>2, <2>1, <2>3 DEF SweepsOwnRow
  <2>6. start["backend"].pc = "spawn" => rows'[start["backend"].run] = rows[start["backend"].run]
    BY <1>u, <2>3, <2>5
  <2>7. start' = start /\ DOMAIN rows' = DOMAIN rows
    BY <1>u
  <2> QED BY <2>1, <2>4, <2>5, <2>6, <2>7 DEF SweepsOwnRow, Active
<1> QED BY <1>3, <1>4, <1>5, <1>6 DEF BackgroundInv

\* A stop request reads the row it will write.
LEMMA ReadForStopKeeps ==
  ASSUME BackgroundInv, ReadForStop
  PROVE  BackgroundInv'
<1>1. PICK r \in DOMAIN rows : stopper' = [run |-> r, was |-> rows[r].status]
  BY DEF ReadForStop
<1>2. UNCHANGED <<kind, rows, created, committed, done, now, worker, start>>
  BY DEF ReadForStop, items
<1>3. r \in Nat /\ rows[r].status \in Statuses
  <2>1. Len(rows) \in Nat /\ DOMAIN rows = 1 .. Len(rows) /\ rows[r] \in Rows
    BY BackgroundFacts DEF BackgroundInv
  <2> QED BY <2>1 DEF Rows
<1>4. BackgroundTypes'
  BY <1>1, <1>2, <1>3 DEF BackgroundInv, BackgroundTypes
<1>5. ClockAndRows'
  <2>1. stopper'.run \in DOMAIN rows
    BY <1>1
  <2>2. ClockAndRows
    BY DEF BackgroundInv
  <2> QED BY <1>2, <2>1, <2>2 DEF ClockAndRows, NoStop
<1>6. WorksetsCover'
  BY <1>2 DEF BackgroundInv, WorksetsCover, Covered, OpenIsMissed
<1>7. SweepsOwnRow'
  BY <1>2 DEF BackgroundInv, SweepsOwnRow, Active
<1> QED BY <1>4, <1>5, <1>6, <1>7 DEF BackgroundInv

\* It writes it.
LEMMA WriteStopKeeps ==
  ASSUME BackgroundInv, WriteStop
  PROVE  BackgroundInv'
<1>u. /\ rows' \in Seq(Rows) /\ DOMAIN rows' = DOMAIN rows /\ stopper' = NoStop
      /\ \A s \in DOMAIN rows :
           /\ rows'[s].cutoff = rows[s].cutoff /\ rows'[s].missed = rows[s].missed
           /\ rows'[s].status = rows[s].status
                \/ (kind = "workset" /\ rows'[s].status = "stop_requested")
      /\ UNCHANGED <<kind, created, committed, done, now, worker, start>>
  BY WriteStopIs DEF items
<1>t. BackgroundTypes /\ ClockAndRows
  BY DEF BackgroundInv
<1>1. BackgroundTypes'
  <2>1. NoStop \in [run : Nat, was : Statuses]
    BY DEF NoStop, Statuses
  <2> QED BY <1>t, <1>u, <2>1 DEF BackgroundTypes
<1>2. ClockAndRows'
  BY <1>t, <1>u DEF ClockAndRows
<1>3. WorksetsCover'
  <2>1. CASE kind # "workset"
    BY <1>u, <2>1 DEF WorksetsCover
  <2>2. CASE kind = "workset"
    <3>1. \A q \in Processes : worker[q].pc # "load" /\ start[q].pc # "spawn"
      BY <2>2 DEF BackgroundInv, WorksetsCover
    <3> QED BY <1>u, <2>2, <3>1, WorksetsKept
  <2> QED BY <2>1, <2>2
<1>4. SweepsOwnRow'
  <2> SUFFICES ASSUME kind = "sweep" PROVE SweepsOwnRow'
    BY <1>u DEF SweepsOwnRow
  <2>1. SweepsOwnRow /\ "backend" \in Processes
    BY DEF BackgroundInv, Processes
  <2>2. \A s \in DOMAIN rows : rows'[s].status = rows[s].status
    BY <1>u
  <2>3. worker["backend"].pc \in {"load", "check", "item"} => worker["backend"].run \in DOMAIN rows
    BY <1>t, <2>1 DEF ClockAndRows
  <2> QED BY <1>u, <2>1, <2>2, <2>3 DEF SweepsOwnRow, Active
<1> QED BY <1>1, <1>2, <1>3, <1>4 DEF BackgroundInv

\* The backend ends and starts again.
LEMMA RestartKeeps ==
  ASSUME BackgroundInv, Restart
  PROVE  BackgroundInv'
<1>u. /\ rows' \in Seq(Rows) /\ DOMAIN rows' = DOMAIN rows /\ stopper' = NoStop
      /\ \A s \in DOMAIN rows :
           /\ rows'[s].cutoff = rows[s].cutoff /\ rows'[s].missed = rows[s].missed
           /\ rows'[s].status = IF Active(s) THEN "failed" ELSE rows[s].status
      /\ worker' \in [Processes -> Workers] /\ start' \in [Processes -> Starts]
      /\ \A p \in Processes : /\ worker'[p] = worker[p] \/ worker'[p] = Idle
                              /\ start'[p] = start[p] \/ start'[p] = NoStart
      /\ worker'["backend"] = Idle /\ start'["backend"] = NoStart
      /\ worker'["script"] = worker["script"] /\ start'["script"] = start["script"]
      /\ UNCHANGED <<kind, created, committed, done, now>>
  BY RestartIs DEF items
<1>t. BackgroundTypes /\ ClockAndRows
  BY DEF BackgroundInv
<1>i. Idle.pc = "idle" /\ NoStart.pc = "idle"
  BY DEF Idle, NoStart
<1>1. BackgroundTypes'
  <2>1. NoStop \in [run : Nat, was : Statuses]
    BY DEF NoStop, Statuses
  <2> QED BY <1>t, <1>u, <2>1 DEF BackgroundTypes
<1>2. ClockAndRows'
  BY <1>i, <1>t, <1>u DEF ClockAndRows
<1>3. WorksetsCover'
  <2>1. CASE kind # "workset"
    BY <1>u, <2>1 DEF WorksetsCover
  <2>2. CASE kind = "workset"
    <3>1. \A q \in Processes :
            /\ worker'[q].pc # "load" /\ start'[q].pc # "spawn"
            /\ worker'[q].pc \in {"check", "item"} =>
                 /\ worker[q].pc \in {"check", "item"} /\ worker'[q].run = worker[q].run
                 /\ worker[q].left \subseteq worker'[q].left \cup {i \in Items : done'[i] > 0}
            /\ start'[q].pc = "insert" => start'[q] = start[q]
      BY <1>i, <1>u, <2>2 DEF BackgroundInv, WorksetsCover
    <3>2. \A s \in DOMAIN rows : rows'[s].status = "completed" => rows[s].status = "completed"
      BY <1>u
    <3> QED BY <1>u, <2>2, <3>1, <3>2, WorksetsKept
  <2> QED BY <2>1, <2>2
<1>4. SweepsOwnRow'
  <2>1. SweepsOwnRow /\ Processes = {"backend", "script"}
    BY DEF BackgroundInv, Processes
  <2> QED BY <1>i, <1>u, <2>1 DEF SweepsOwnRow
<1> QED BY <1>1, <1>2, <1>3, <1>4 DEF BackgroundInv

\* A row that is inserted is the last one.
LEMMA RowAppended ==
  ASSUME rows \in Seq(Rows), NEW row \in Rows, rows' = Append(rows, row)
  PROVE  /\ rows' \in Seq(Rows) /\ Len(rows) \in Nat /\ Len(rows) + 1 \notin DOMAIN rows
         /\ DOMAIN rows' = DOMAIN rows \cup {Len(rows) + 1} /\ rows'[Len(rows) + 1] = row
         /\ \A s \in DOMAIN rows : rows'[s] = rows[s]
<1>1. rows' \in Seq(Rows) /\ Len(rows') = Len(rows) + 1 /\ Len(rows) \in Nat
  OBVIOUS
<1>2. DOMAIN rows' = 1 .. Len(rows) + 1 /\ DOMAIN rows = 1 .. Len(rows)
  BY <1>1
<1>3. rows'[Len(rows) + 1] = row /\ \A s \in DOMAIN rows : rows'[s] = rows[s]
  BY <1>1
<1> QED BY <1>1, <1>2, <1>3

\* An insert begins: after every cutoff.
LEMMA BeginInsertKeeps ==
  ASSUME BackgroundInv, NEW i \in Items, BeginInsert(i)
  PROVE  BackgroundInv'
<1>t. BackgroundTypes /\ ClockAndRows /\ now \in Nat /\ created \in [Items -> Nat] /\ committed \subseteq Items
  BY DEF BackgroundInv, BackgroundTypes
<1>u. /\ now' = now + 1 /\ created' = [created EXCEPT ![i] = now + 1] /\ created[i] = 0
      /\ UNCHANGED <<kind, rows, committed, done, worker, start, stopper>>
  BY DEF BeginInsert
<1>c. /\ i \notin committed /\ created'[i] = now + 1
      /\ \A j \in Items : j # i => created'[j] = created[j]
  BY <1>t, <1>u DEF ClockAndRows
<1>r. /\ \A r \in DOMAIN rows : rows[r].cutoff \in Nat /\ rows[r].cutoff <= now
      /\ \A p \in Processes : start[p].cutoff \in Nat
  BY <1>t, BackgroundFacts DEF ClockAndRows, Rows, Starts
<1>1. BackgroundTypes'
  BY <1>t, <1>u DEF BackgroundTypes
<1>2. ClockAndRows'
  <2>1. \A j \in Items : created'[j] <= now'
    BY <1>c, <1>t, <1>u DEF ClockAndRows
  <2>2. \A j \in committed : created'[j] > 0
    BY <1>c, <1>t DEF ClockAndRows
  <2>3. \A r \in DOMAIN rows : rows[r].cutoff <= now + 1
    BY <1>r, <1>t
  <2>4. \A p \in Processes : start[p].pc = "insert" => start[p].cutoff <= now + 1
    BY <1>r, <1>t DEF ClockAndRows
  <2> QED BY <1>t, <1>u, <2>1, <2>2, <2>3, <2>4 DEF ClockAndRows, NoStop
<1>3. WorksetsCover'
  <2>1. ASSUME NEW cutoff \in Nat, NEW missed, cutoff <= now, OpenIsMissed(cutoff, missed)
        PROVE  \A j \in Items \ committed : 0 < created'[j] /\ created'[j] <= cutoff => j \in missed
    BY <1>c, <1>t, <2>1 DEF OpenIsMissed
  <2>2. \A cutoff, left, missed : Covered(cutoff, left, missed) =>
          \A j \in committed : created'[j] <= cutoff =>
            done[j] > 0 \/ j \in left \/ j \in missed \/ \E r \in DOMAIN rows : j \in rows[r].missed
    BY <1>c, <1>t DEF Covered
  <2>3. \A p \in Processes : start[p].pc = "insert" => start[p].cutoff <= now
    BY <1>t DEF ClockAndRows
  <2>4. WorksetsCover
    BY DEF BackgroundInv
  <2> SUFFICES ASSUME kind = "workset" PROVE WorksetsCover'
    BY <1>u DEF WorksetsCover
  <2>5. \A r \in DOMAIN rows' : /\ OpenIsMissed(rows[r].cutoff, rows[r].missed)'
                                /\ rows'[r].status = "completed" => Covered(rows[r].cutoff, {}, {})'
    BY <1>r, <1>u, <2>1, <2>2, <2>4 DEF WorksetsCover, OpenIsMissed, Covered
  <2>6. \A p \in Processes :
          /\ worker'[p].pc # "load"
          /\ worker'[p].pc \in {"check", "item"} => Covered(rows[worker[p].run].cutoff, worker[p].left, {})'
          /\ start'[p].pc # "spawn"
    BY <1>u, <2>2, <2>4 DEF WorksetsCover, Covered
  <2>7. \A p \in Processes :
          start'[p].pc = "insert" => /\ OpenIsMissed(start[p].cutoff, start[p].missed)'
                                     /\ Covered(start[p].cutoff, start[p].work, start[p].missed)'
    BY <1>r, <1>u, <2>1, <2>2, <2>3, <2>4 DEF WorksetsCover, Covered, OpenIsMissed
  <2> QED BY <2>5, <2>6, <2>7 DEF WorksetsCover
<1>4. SweepsOwnRow'
  BY <1>u DEF BackgroundInv, SweepsOwnRow, Active
<1> QED BY <1>1, <1>2, <1>3, <1>4 DEF BackgroundInv

\* An insert is committed: the runs whose cutoff is after its begin have missed the item.
LEMMA CommitInsertKeeps ==
  ASSUME BackgroundInv, NEW i \in Items, CommitInsert(i)
  PROVE  BackgroundInv'
<1>t. BackgroundTypes /\ ClockAndRows /\ created \in [Items -> Nat] /\ committed \subseteq Items
  BY DEF BackgroundInv, BackgroundTypes
<1>u. /\ committed' = committed \cup {i} /\ created[i] > 0 /\ i \notin committed
      /\ UNCHANGED <<kind, rows, created, done, now, worker, start, stopper>>
  BY DEF CommitInsert
<1>1. BackgroundTypes'
  BY <1>t, <1>u DEF BackgroundTypes
<1>2. ClockAndRows'
  BY <1>t, <1>u DEF ClockAndRows, NoStop
<1>3. WorksetsCover'
  <2> SUFFICES ASSUME kind = "workset" PROVE WorksetsCover'
    BY <1>u DEF WorksetsCover
  <2>4. WorksetsCover
    BY DEF BackgroundInv
  <2>1. \A cutoff, missed : OpenIsMissed(cutoff, missed) =>
          /\ \A j \in Items \ committed' : 0 < created[j] /\ created[j] <= cutoff => j \in missed
          /\ created[i] <= cutoff => i \in missed
    BY <1>u DEF OpenIsMissed
  <2>2. \A cutoff, left, missed :
          /\ Covered(cutoff, left, missed)
          /\ created[i] <= cutoff => i \in missed \/ \E r \in DOMAIN rows : i \in rows[r].missed
          => \A j \in committed' : created[j] <= cutoff =>
               done[j] > 0 \/ j \in left \/ j \in missed \/ \E r \in DOMAIN rows : j \in rows[r].missed
    BY <1>u DEF Covered
  <2>3. \A r \in DOMAIN rows : created[i] <= rows[r].cutoff => \E s \in DOMAIN rows : i \in rows[s].missed
    BY <2>1, <2>4 DEF WorksetsCover
  <2>5. \A r \in DOMAIN rows' : /\ OpenIsMissed(rows[r].cutoff, rows[r].missed)'
                                /\ rows'[r].status = "completed" => Covered(rows[r].cutoff, {}, {})'
    <3> SUFFICES ASSUME NEW r \in DOMAIN rows
                 PROVE  /\ OpenIsMissed(rows[r].cutoff, rows[r].missed)'
                        /\ rows'[r].status = "completed" => Covered(rows[r].cutoff, {}, {})'
      BY <1>u
    <3>1. OpenIsMissed(rows[r].cutoff, rows[r].missed)
          /\ (rows[r].status = "completed" => Covered(rows[r].cutoff, {}, {}))
      BY <2>4 DEF WorksetsCover
    <3>2. OpenIsMissed(rows[r].cutoff, rows[r].missed)'
      BY <1>u, <2>1, <3>1 DEF OpenIsMissed
    <3>3. ASSUME rows[r].status = "completed"
          PROVE  \A j \in committed' : created[j] <= rows[r].cutoff =>
                   done[j] > 0 \/ j \in {} \/ j \in {} \/ \E s \in DOMAIN rows : j \in rows[s].missed
      BY <2>2, <2>3, <3>1, <3>3
    <3> QED BY <1>u, <3>2, <3>3 DEF Covered
  <2>6. \A p \in Processes :
          /\ worker'[p].pc # "load"
          /\ worker'[p].pc \in {"check", "item"} => Covered(rows[worker[p].run].cutoff, worker[p].left, {})'
          /\ start'[p].pc # "spawn"
    <3> SUFFICES ASSUME NEW p \in Processes
                 PROVE  /\ worker'[p].pc # "load"
                        /\ worker'[p].pc \in {"check", "item"} => Covered(rows[worker[p].run].cutoff, worker[p].left, {})'
                        /\ start'[p].pc # "spawn"
      OBVIOUS
    <3>1. /\ worker[p].pc # "load" /\ start[p].pc # "spawn"
          /\ worker[p].pc \in {"check", "item"} => /\ Covered(rows[worker[p].run].cutoff, worker[p].left, {})
                                                   /\ worker[p].run \in DOMAIN rows
      BY <1>t, <2>4 DEF WorksetsCover, ClockAndRows
    <3>2. ASSUME worker[p].pc \in {"check", "item"}
          PROVE  \A j \in committed' : created[j] <= rows[worker[p].run].cutoff =>
                   done[j] > 0 \/ j \in worker[p].left \/ j \in {} \/ \E s \in DOMAIN rows : j \in rows[s].missed
      BY <2>2, <2>3, <3>1, <3>2
    <3> QED BY <1>u, <3>1, <3>2 DEF Covered
  <2>7. \A p \in Processes :
          start'[p].pc = "insert" => /\ OpenIsMissed(start[p].cutoff, start[p].missed)'
                                     /\ Covered(start[p].cutoff, start[p].work, start[p].missed)'
    BY <1>u, <2>1, <2>2, <2>4 DEF WorksetsCover, Covered, OpenIsMissed
  <2> QED BY <2>5, <2>6, <2>7 DEF WorksetsCover
<1>4. SweepsOwnRow'
  BY <1>u DEF BackgroundInv, SweepsOwnRow, Active
<1> QED BY <1>1, <1>2, <1>3, <1>4 DEF BackgroundInv

\* A sweep inserts its row: it is active and no thread works on it yet.
LEMMA InsertSweepKeeps ==
  ASSUME BackgroundInv, InsertSweep
  PROVE  BackgroundInv'
<1>t. BackgroundTypes /\ ClockAndRows /\ SweepsOwnRow /\ rows \in Seq(Rows) /\ start \in [Processes -> Starts]
      /\ DOMAIN start = Processes /\ Processes = {"backend", "script"}
  BY BackgroundFacts DEF BackgroundInv, BackgroundTypes, Processes
<1> DEFINE row == NewRow(0, {})
           n == Len(rows) + 1
           s == [NoStart EXCEPT !.pc = "spawn", !.run = n]
<1>u. /\ rows' = Append(rows, row) /\ start' = [start EXCEPT !["backend"] = s] /\ kind = "sweep"
      /\ start["backend"].pc = "idle"
      /\ UNCHANGED <<kind, created, committed, done, now, worker, stopper, faults>>
  BY DEF InsertSweep, items
<1>1. row \in Rows /\ row.status = "running" /\ row.cutoff = 0
  BY DEF NewRow, Rows, Statuses
<1> HIDE DEF row
<1>2. /\ rows' \in Seq(Rows) /\ Len(rows) \in Nat /\ n \notin DOMAIN rows
      /\ DOMAIN rows' = DOMAIN rows \cup {n} /\ rows'[n] = row
      /\ \A r \in DOMAIN rows : rows'[r] = rows[r]
  BY <1>1, <1>t, <1>u, RowAppended
<1>n. n \in Nat
  BY <1>2
<1> HIDE DEF n
<1>3. s \in Starts /\ s.pc = "spawn" /\ s.run = n
  BY <1>n DEF NoStart, Starts
<1> HIDE DEF s
<1>4. /\ start' \in [Processes -> Starts] /\ start'["backend"] = s
      /\ start'["script"] = start["script"]
  BY <1>3, <1>t, <1>u
<1>5. BackgroundTypes'
  BY <1>2, <1>4, <1>t, <1>u DEF BackgroundTypes
<1>6. ClockAndRows'
  <2>1. \A r \in DOMAIN rows' : rows'[r].cutoff <= now
    BY <1>1, <1>2, <1>t DEF ClockAndRows, BackgroundTypes
  <2>2. \A p \in Processes : /\ worker[p].pc # "idle" => worker[p].run \in DOMAIN rows'
                             /\ start'[p].pc = "insert" => start'[p].cutoff <= now
    BY <1>2, <1>3, <1>4, <1>t DEF ClockAndRows
  <2> QED BY <1>2, <1>t, <1>u, <2>1, <2>2 DEF ClockAndRows, NoStop
<1>7. WorksetsCover'
  BY <1>u DEF WorksetsCover
<1>8. SweepsOwnRow'
  <2>1. worker["backend"].pc # "idle" => worker["backend"].run \in DOMAIN rows /\ worker["backend"].run # n
    BY <1>2, <1>t DEF ClockAndRows
  <2>2. worker["backend"].pc \in {"load", "check", "item"} =>
          rows'[worker["backend"].run].status = rows[worker["backend"].run].status
    BY <1>2, <2>1
  <2> QED BY <1>1, <1>2, <1>3, <1>4, <1>t, <1>u, <2>1, <2>2 DEF SweepsOwnRow, Active
<1> QED BY <1>5, <1>6, <1>7, <1>8 DEF BackgroundInv

\* Its thread is started, unless the last one is alive.
LEMMA SpawnKeeps ==
  ASSUME BackgroundInv, Spawn
  PROVE  BackgroundInv'
<1>t. /\ BackgroundTypes /\ ClockAndRows /\ SweepsOwnRow /\ worker \in [Processes -> Workers]
      /\ start \in [Processes -> Starts]
      /\ DOMAIN start = Processes /\ DOMAIN worker = Processes /\ Processes = {"backend", "script"}
  BY BackgroundFacts DEF BackgroundInv, BackgroundTypes, Processes
<1>k. kind = "sweep"
  BY <1>t DEF BackgroundInv, WorksetsCover, BackgroundTypes, Spawn
<1>r. /\ start["backend"].run \in DOMAIN rows /\ Active(start["backend"].run) /\ start["backend"].run \in Nat
  BY <1>k, <1>t DEF SweepsOwnRow, Spawn, Starts
<1>s. /\ start' = [start EXCEPT !["backend"] = NoStart]
      /\ UNCHANGED <<kind, rows, created, committed, done, now, stopper, faults>>
  BY DEF Spawn, items
<1>1. NoStart \in Starts /\ NoStart.pc = "idle"
  BY DEF NoStart, Starts
<1>2. start' \in [Processes -> Starts] /\ start'["backend"] = NoStart /\ start'["script"] = start["script"]
  BY <1>1, <1>s, <1>t
<1>3. /\ worker' \in [Processes -> Workers] /\ worker'["script"] = worker["script"]
      /\ \/ worker' = worker
         \/ worker'["backend"].pc = "load" /\ worker'["backend"].run = start["backend"].run
  <2>1. CASE worker["backend"].pc # "idle"
    BY <1>t, <2>1 DEF Spawn
  <2>2. CASE worker["backend"].pc = "idle"
    <3> DEFINE k == start["backend"].run
               w == [Idle EXCEPT !.pc = "load", !.run = k]
    <3>1. worker' = [worker EXCEPT !["backend"] = w]
      BY <2>2 DEF Spawn
    <3>k. k \in Nat
      BY <1>r
    <3> HIDE DEF k
    <3>2. w \in Workers /\ w.pc = "load" /\ w.run = k
      <4>1. Idle \in Workers
        BY DEF Idle, Workers
      <4> HIDE DEF Idle
      <4> QED BY <3>k, <4>1 DEF Workers
    <3> HIDE DEF w
    <3> USE DEF k
    <3> QED BY <1>t, <3>1, <3>2
  <2> QED BY <2>1, <2>2
<1>4. BackgroundTypes'
  BY <1>2, <1>3, <1>s, <1>t DEF BackgroundTypes
<1>5. ClockAndRows'
  <2>1. \A p \in Processes : /\ worker'[p].pc # "idle" => worker'[p].run \in DOMAIN rows
                             /\ start'[p].pc = "insert" => start'[p].cutoff <= now
    BY <1>1, <1>2, <1>3, <1>r, <1>t DEF ClockAndRows
  <2> QED BY <1>s, <1>t, <2>1 DEF ClockAndRows, NoStop
<1>6. WorksetsCover'
  BY <1>k, <1>s DEF WorksetsCover
<1>7. SweepsOwnRow'
  BY <1>1, <1>2, <1>3, <1>r, <1>s, <1>t DEF SweepsOwnRow, Active
<1> QED BY <1>4, <1>5, <1>6, <1>7 DEF BackgroundInv

\* A workset is frozen: what it leaves out is covered by the last completed run.
LEMMA FreezeKeeps ==
  ASSUME BackgroundInv, NEW p \in Processes, Freeze(p)
  PROVE  BackgroundInv'
<1>t. /\ BackgroundTypes /\ ClockAndRows /\ WorksetsCover /\ start \in [Processes -> Starts]
      /\ DOMAIN start = Processes /\ now \in Nat /\ created \in [Items -> Nat] /\ committed \subseteq Items
      /\ rows \in Seq(Rows)
      /\ \A r \in DOMAIN rows : rows[r].cutoff \in Nat /\ \A q \in Processes : start[q].cutoff \in Nat
  BY BackgroundFacts DEF BackgroundInv, BackgroundTypes, Rows, Starts
<1> DEFINE cut == now + 1
           work == Eligible(cut)
           missed == {i \in Items \ committed : created[i] > 0}
           s == [pc |-> "insert", run |-> 0, cutoff |-> cut, work |-> work, missed |-> missed]
<1>u. /\ start' = [start EXCEPT ![p] = s] /\ now' = cut /\ kind = "workset"
      /\ UNCHANGED <<kind, rows, created, committed, done, worker, stopper, faults>>
  BY DEF Freeze
<1>c. cut \in Nat /\ \A x \in Nat : x <= now => x <= cut
  BY <1>t
<1>e. work = {i \in committed : LastCutoff < created[i] /\ created[i] <= cut}
  BY DEF Eligible
<1>m. missed \subseteq Items /\ OpenIsMissed(cut, missed) /\ work \subseteq Items
  BY <1>e, <1>t DEF OpenIsMissed
<1>1. Covered(cut, work, missed)
  <2> SUFFICES ASSUME NEW i \in committed, created[i] <= cut
               PROVE  done[i] > 0 \/ i \in work \/ i \in missed \/ \E r \in DOMAIN rows : i \in rows[r].missed
    BY DEF Covered
  <2>1. created[i] > 0 /\ created[i] \in Nat
    BY <1>t DEF ClockAndRows
  <2>2. CASE LastCutoff = 0
    <3>1. i \in work
      BY <1>e, <2>1, <2>2
    <3> QED BY <3>1
  <2>3. CASE \E r \in DOMAIN rows : rows[r].status = "completed" /\ LastCutoff = rows[r].cutoff
    <3>1. PICK r \in DOMAIN rows : rows[r].status = "completed" /\ LastCutoff = rows[r].cutoff
      BY <2>3
    <3>2. Covered(rows[r].cutoff, {}, {})
      BY <1>t, <1>u, <3>1 DEF WorksetsCover
    <3>3. CASE created[i] <= rows[r].cutoff
      BY <3>2, <3>3 DEF Covered
    <3>4. CASE ~(created[i] <= rows[r].cutoff)
      <4>1. LastCutoff < created[i]
        BY <1>t, <2>1, <3>1, <3>4
      <4>2. i \in work
        BY <1>e, <4>1
      <4> QED BY <4>2
    <3> QED BY <3>3, <3>4
  <2> QED BY <1>t, <2>2, <2>3, LastCutoffIs
<1> HIDE DEF cut, work, missed
<1>2. s \in Starts /\ s.pc = "insert" /\ s.cutoff = cut /\ s.work = work /\ s.missed = missed
  BY <1>c, <1>m DEF Starts
<1> HIDE DEF s
<1>3. start' \in [Processes -> Starts] /\ start'[p] = s /\ \A q \in Processes : q # p => start'[q] = start[q]
  BY <1>2, <1>t, <1>u
<1>4. BackgroundTypes'
  BY <1>3, <1>c, <1>t, <1>u DEF BackgroundTypes
<1>5. ClockAndRows'
  <2>1. \A i \in Items : created[i] <= cut
    BY <1>c, <1>t DEF ClockAndRows
  <2>2. \A r \in DOMAIN rows : rows[r].cutoff <= cut
    BY <1>c, <1>t DEF ClockAndRows
  <2>3. \A q \in Processes : start'[q].pc = "insert" => start'[q].cutoff <= cut
    <3> SUFFICES ASSUME NEW q \in Processes, start'[q].pc = "insert" PROVE start'[q].cutoff <= cut
      OBVIOUS
    <3>1. CASE q = p
      BY <1>2, <1>3, <1>c, <3>1
    <3>2. CASE q # p
      <4>1. start'[q] = start[q] /\ start[q].cutoff <= now /\ start[q].cutoff \in Nat
        <5>1. start'[q] = start[q]
          BY <1>3, <3>2
        <5>2. start[q] \in Starts
          BY <1>t
        <5> QED BY <1>t, <5>1, <5>2 DEF ClockAndRows, Starts
      <4> QED BY <1>c, <4>1
    <3> QED BY <3>1, <3>2
  <2> QED BY <1>t, <1>u, <2>1, <2>2, <2>3 DEF ClockAndRows, NoStop
<1>6. WorksetsCover'
  <2>1. \A r \in DOMAIN rows' : /\ OpenIsMissed(rows[r].cutoff, rows[r].missed)'
                                /\ rows'[r].status = "completed" => Covered(rows[r].cutoff, {}, {})'
    BY <1>t, <1>u DEF WorksetsCover, Covered, OpenIsMissed
  <2>2. \A q \in Processes :
          /\ worker'[q].pc # "load"
          /\ worker'[q].pc \in {"check", "item"} => Covered(rows[worker[q].run].cutoff, worker[q].left, {})'
    BY <1>t, <1>u DEF WorksetsCover, Covered
  <2>3. ASSUME NEW q \in Processes
        PROVE  /\ start'[q].pc # "spawn"
               /\ start'[q].pc = "insert" => /\ OpenIsMissed(start[q].cutoff, start[q].missed)'
                                             /\ Covered(start[q].cutoff, start[q].work, start[q].missed)'
    <3>1. CASE q = p
      BY <1>1, <1>2, <1>3, <1>m, <1>u, <3>1 DEF Covered, OpenIsMissed
    <3>2. CASE q # p
      BY <1>3, <1>t, <1>u, <3>2 DEF WorksetsCover, Covered, OpenIsMissed
    <3> QED BY <3>1, <3>2
  <2> QED BY <2>1, <2>2, <2>3 DEF WorksetsCover
<1>7. SweepsOwnRow'
  BY <1>u DEF SweepsOwnRow
<1> QED BY <1>4, <1>5, <1>6, <1>7 DEF BackgroundInv

\* Its row is inserted and its thread, or the script, begins.
LEMMA InsertFrozenKeeps ==
  ASSUME BackgroundInv, NEW p \in Processes, InsertFrozen(p)
  PROVE  BackgroundInv'
<1>t. /\ BackgroundTypes /\ ClockAndRows /\ WorksetsCover /\ start \in [Processes -> Starts]
      /\ worker \in [Processes -> Workers] /\ start[p] \in Starts
      /\ rows \in Seq(Rows) /\ DOMAIN start = Processes /\ DOMAIN worker = Processes
      /\ kind \in {"sweep", "workset"} /\ committed \subseteq Items
  BY BackgroundFacts DEF BackgroundInv, BackgroundTypes
<1>k. kind = "workset" /\ start[p].pc = "insert"
  BY <1>t DEF BackgroundInv, SweepsOwnRow, InsertFrozen
<1>c. /\ OpenIsMissed(start[p].cutoff, start[p].missed) /\ start[p].cutoff <= now
      /\ Covered(start[p].cutoff, start[p].work, start[p].missed)
  BY <1>k, <1>t DEF ClockAndRows, WorksetsCover
<1> DEFINE row == NewRow(start[p].cutoff, start[p].missed)
           n == Len(rows) + 1
           work == start[p].work
           w == [Idle EXCEPT !.pc = "check", !.run = n, !.left = work]
<1>u. /\ rows' = Append(rows, row) /\ worker' = [worker EXCEPT ![p] = w]
      /\ start' = [start EXCEPT ![p] = NoStart]
      /\ UNCHANGED <<kind, created, committed, done, now, stopper, faults>>
  BY DEF InsertFrozen, items
<1>1. /\ row \in Rows /\ row.status = "running"
      /\ row.cutoff = start[p].cutoff /\ row.missed = start[p].missed
  <2>1. start[p].cutoff \in Nat /\ start[p].missed \subseteq Items
    BY <1>t DEF Starts
  <2> QED BY <2>1 DEF NewRow, Rows, Statuses
<1>w. work \subseteq Items
  BY <1>t DEF Starts
<1> HIDE DEF row
<1>2. /\ rows' \in Seq(Rows) /\ Len(rows) \in Nat /\ n \notin DOMAIN rows
      /\ DOMAIN rows' = DOMAIN rows \cup {n} /\ rows'[n] = row
      /\ \A r \in DOMAIN rows : rows'[r] = rows[r]
  BY <1>1, <1>t, <1>u, RowAppended
<1>n. n \in Nat
  BY <1>2
<1> HIDE DEF n, work
<1>3. w \in Workers /\ w.pc = "check" /\ w.run = n /\ w.left = work
  <2>1. Idle \in Workers
    BY DEF Idle, Workers
  <2> HIDE DEF Idle
  <2> QED BY <1>n, <1>w, <2>1 DEF Workers
<1> HIDE DEF w
<1>i. NoStart \in Starts /\ NoStart.pc = "idle"
  BY DEF NoStart, Starts
<1>4. /\ worker' \in [Processes -> Workers] /\ worker'[p] = w
      /\ start' \in [Processes -> Starts] /\ start'[p] = NoStart
      /\ \A q \in Processes : q # p => worker'[q] = worker[q] /\ start'[q] = start[q]
  <2> HIDE DEF NoStart
  <2> QED BY <1>3, <1>i, <1>t, <1>u
<1>5. BackgroundTypes'
  BY <1>2, <1>4, <1>t, <1>u DEF BackgroundTypes
<1>6. ClockAndRows'
  <2>1. \A r \in DOMAIN rows' : rows'[r].cutoff <= now
    BY <1>1, <1>2, <1>c, <1>t DEF ClockAndRows
  <2>2. \A q \in Processes : /\ worker'[q].pc # "idle" => worker'[q].run \in DOMAIN rows'
                             /\ start'[q].pc = "insert" => start'[q].cutoff <= now
    BY <1>2, <1>3, <1>4, <1>i, <1>t DEF ClockAndRows
  <2> QED BY <1>2, <1>t, <1>u, <2>1, <2>2 DEF ClockAndRows, NoStop
<1>7. WorksetsCover'
  <2>m. \A i : (\E r \in DOMAIN rows : i \in rows[r].missed) => \E r \in DOMAIN rows' : i \in rows'[r].missed
    BY <1>2
  <2>n. \A i \in start[p].missed : \E r \in DOMAIN rows' : i \in rows'[r].missed
    BY <1>1, <1>2
  <2>v. \A cutoff, left, missed : Covered(cutoff, left, missed) => Covered(cutoff, left, missed)'
    BY <1>u, <2>m DEF Covered
  <2>1. ASSUME NEW r \in DOMAIN rows'
        PROVE  /\ OpenIsMissed(rows[r].cutoff, rows[r].missed)'
               /\ rows'[r].status = "completed" => Covered(rows[r].cutoff, {}, {})'
    <3>1. CASE r = n
      BY <1>1, <1>2, <1>c, <1>u, <3>1 DEF OpenIsMissed
    <3>2. CASE r \in DOMAIN rows
      <4>1. /\ rows'[r] = rows[r] /\ OpenIsMissed(rows[r].cutoff, rows[r].missed)
            /\ rows[r].status = "completed" => Covered(rows[r].cutoff, {}, {})
        BY <1>2, <1>k, <1>t, <3>2 DEF WorksetsCover
      <4> QED BY <1>u, <2>m, <4>1 DEF OpenIsMissed, Covered
    <3> QED BY <1>2, <3>1, <3>2
  <2>2. ASSUME NEW q \in Processes
        PROVE  /\ worker'[q].pc # "load"
               /\ worker'[q].pc \in {"check", "item"} => Covered(rows[worker[q].run].cutoff, worker[q].left, {})'
    <3>1. CASE q = p
      <4>1. worker'[q].run = n /\ worker'[q].left = work /\ worker'[q].pc = "check"
            /\ rows'[n].cutoff = start[p].cutoff
        BY <1>1, <1>2, <1>3, <1>4, <3>1
      <4>2. \A i \in committed : created[i] <= start[p].cutoff =>
              done[i] > 0 \/ i \in work \/ i \in {} \/ \E r \in DOMAIN rows' : i \in rows'[r].missed
        BY <1>c, <2>m, <2>n DEF Covered, work
      <4> QED BY <1>u, <4>1, <4>2 DEF Covered
    <3>2. CASE q # p
      <4>1. /\ worker'[q] = worker[q] /\ worker[q].pc # "load"
            /\ worker[q].pc \in {"check", "item"} => /\ Covered(rows[worker[q].run].cutoff, worker[q].left, {})
                                                     /\ rows'[worker[q].run] = rows[worker[q].run]
        BY <1>2, <1>4, <1>k, <1>t, <3>2 DEF WorksetsCover, ClockAndRows
      <4>2. worker[q].pc \in {"check", "item"} =>
              \A i \in committed : created[i] <= rows[worker[q].run].cutoff =>
                done[i] > 0 \/ i \in worker[q].left \/ i \in {} \/ \E r \in DOMAIN rows' : i \in rows'[r].missed
        BY <2>m, <4>1 DEF Covered
      <4> QED BY <1>u, <4>1, <4>2 DEF Covered
    <3> QED BY <3>1, <3>2
  <2>3. ASSUME NEW q \in Processes
        PROVE  /\ start'[q].pc # "spawn"
               /\ start'[q].pc = "insert" => /\ OpenIsMissed(start[q].cutoff, start[q].missed)'
                                             /\ Covered(start[q].cutoff, start[q].work, start[q].missed)'
    <3>1. CASE q = p
      BY <1>4, <1>i, <3>1
    <3>2. CASE q # p
      <4>1. /\ start'[q] = start[q] /\ start[q].pc # "spawn"
            /\ start[q].pc = "insert" => /\ OpenIsMissed(start[q].cutoff, start[q].missed)
                                         /\ Covered(start[q].cutoff, start[q].work, start[q].missed)
        BY <1>4, <1>k, <1>t, <3>2 DEF WorksetsCover
      <4>2. start[q].pc = "insert" =>
              \A i \in committed : created[i] <= start[q].cutoff =>
                done[i] > 0 \/ i \in start[q].work \/ i \in start[q].missed
                \/ \E r \in DOMAIN rows' : i \in rows'[r].missed
        BY <2>m, <4>1 DEF Covered
      <4> QED BY <1>u, <4>1, <4>2 DEF OpenIsMissed, Covered
    <3> QED BY <3>1, <3>2
  <2> QED BY <2>1, <2>2, <2>3 DEF WorksetsCover
<1>8. SweepsOwnRow'
  BY <1>k, <1>u DEF SweepsOwnRow
<1> QED BY <1>5, <1>6, <1>7, <1>8 DEF BackgroundInv

-------------------------------------------------------------------------------
(* The theorems.                                                             *)

LEMMA InitKeeps == Init => BackgroundInv
<1> SUFFICES ASSUME Init PROVE BackgroundInv
  OBVIOUS
<1>1. /\ rows = <<>> /\ DOMAIN rows = {} /\ committed = {} /\ now = 0 /\ stopper = NoStop
      /\ \A i \in Items : created[i] = 0
      /\ \A p \in Processes : worker[p].pc = "idle" /\ start[p].pc = "idle"
      /\ "script" \in Processes /\ "backend" \in Processes
  BY DEF Init, Idle, NoStart, Processes
<1>2. BackgroundTypes
  <2>1. Idle \in Workers /\ NoStart \in Starts /\ NoStop \in [run : Nat, was : Statuses]
    BY DEF Idle, NoStart, NoStop, Workers, Starts, Statuses
  <2>2. created \in [Items -> Nat] /\ done \in [Items -> Nat] /\ kind \in {"sweep", "workset"}
    BY KindsAssumption DEF Init
  <2>3. worker \in [Processes -> Workers] /\ start \in [Processes -> Starts]
    <3> HIDE DEF Idle, NoStart
    <3> QED BY <2>1 DEF Init
  <2> QED BY <1>1, <2>1, <2>2, <2>3 DEF BackgroundTypes
<1>3. ClockAndRows
  BY <1>1 DEF ClockAndRows
<1>4. WorksetsCover
  BY <1>1 DEF WorksetsCover
<1>5. SweepsOwnRow
  BY <1>1 DEF SweepsOwnRow
<1> QED BY <1>2, <1>3, <1>4, <1>5 DEF BackgroundInv

LEMMA StutterKeeps == BackgroundInv /\ UNCHANGED vars => BackgroundInv'
<1> SUFFICES ASSUME BackgroundInv, UNCHANGED vars PROVE BackgroundInv'
  OBVIOUS
<1>u. UNCHANGED <<kind, rows, created, committed, done, now, worker, start, stopper, faults>>
  BY DEF vars
<1>1. BackgroundTypes'
  BY <1>u DEF BackgroundInv, BackgroundTypes
<1>2. ClockAndRows'
  BY <1>u DEF BackgroundInv, ClockAndRows, NoStop
<1>3. WorksetsCover'
  BY <1>u DEF BackgroundInv, WorksetsCover, Covered, OpenIsMissed
<1>4. SweepsOwnRow'
  BY <1>u DEF BackgroundInv, SweepsOwnRow, Active
<1> QED BY <1>1, <1>2, <1>3, <1>4 DEF BackgroundInv

\* The invariant of the background services: every cutoff, whether its run is completed, at
\* work or being started, covers only items that are processed, still in the hands of that
\* run or missed; and a sweep's thread works on a row that has not ended.
THEOREM BackgroundInvariant == Spec => []BackgroundInv
<1>1. BackgroundInv /\ [Next]_vars => BackgroundInv'
  <2> SUFFICES ASSUME BackgroundInv, [Next]_vars PROVE BackgroundInv'
    OBVIOUS
  <2>1. CASE \E i \in Items : BeginInsert(i) \/ CommitInsert(i)
    BY <2>1, BeginInsertKeeps, CommitInsertKeeps
  <2>2. CASE InsertSweep
    BY <2>2, InsertSweepKeeps
  <2>3. CASE Spawn
    BY <2>3, SpawnKeeps
  <2>4. CASE ReadForStop
    BY <2>4, ReadForStopKeeps
  <2>5. CASE WriteStop
    BY <2>5, WriteStopKeeps
  <2>6. CASE Restart
    BY <2>6, RestartKeeps
  <2>7. CASE \E p \in Processes : Freeze(p) \/ InsertFrozen(p)
    BY <2>7, FreezeKeeps, InsertFrozenKeeps
  <2>8. CASE \E p \in Processes : Work(p) \/ Die(p)
    BY <2>8, WorkKeeps, EndRunKeeps DEF Work
  <2>9. CASE UNCHANGED vars
    BY <2>9, StutterKeeps
  <2> QED BY <2>1, <2>2, <2>3, <2>4, <2>5, <2>6, <2>7, <2>8, <2>9 DEF Next
<1> QED BY <1>1, InitKeeps, PTL DEF Spec

\* What the cutoff of the last completed duplicate processing run calls processed was
\* processed, whatever stops, failures, restarts, dead threads and scripts there were; the
\* assets whose insert was open when a workset was frozen are the exception.
THEOREM ProcessedOrPendingCorrect == Spec => []ProcessedOrPending
<1>1. BackgroundInv => ProcessedOrPending
  <2> SUFFICES ASSUME BackgroundInv, kind = "workset", NEW i \in committed
               PROVE  \/ done[i] > 0
                      \/ created[i] > LastCutoff
                      \/ \E r \in DOMAIN rows : i \in rows[r].missed
    BY DEF ProcessedOrPending
  <2>1. created[i] > 0 /\ created[i] \in Nat /\ rows \in Seq(Rows)
    BY DEF BackgroundInv, BackgroundTypes, ClockAndRows
  <2>2. CASE LastCutoff = 0
    BY <2>1, <2>2
  <2>3. CASE \E r \in DOMAIN rows : rows[r].status = "completed" /\ LastCutoff = rows[r].cutoff
    <3>1. PICK r \in DOMAIN rows : rows[r].status = "completed" /\ LastCutoff = rows[r].cutoff
      BY <2>3
    <3>2. Covered(rows[r].cutoff, {}, {}) /\ rows[r].cutoff \in Nat
      BY <3>1, BackgroundFacts DEF BackgroundInv, WorksetsCover, Rows
    <3>3. CASE created[i] <= rows[r].cutoff
      BY <3>2, <3>3 DEF Covered
    <3>4. CASE ~(created[i] <= rows[r].cutoff)
      <4>1. created[i] > LastCutoff
        BY <2>1, <3>1, <3>2, <3>4
      <4> QED BY <4>1
    <3> QED BY <3>3, <3>4
  <2> QED BY <2>1, <2>2, <2>3, LastCutoffIs
<1> QED BY <1>1, BackgroundInvariant, PTL

\* The end of a sweep is final: neither a late stop request nor a restart nor the next run,
\* whose thread may be started while the last one is writing its report, touches the row.
THEOREM SweepEndIsFinalCorrect == Spec => SweepEndIsFinal
<1>1. BackgroundInv /\ [Next]_vars =>
        [kind = "sweep" => \A r \in DOMAIN rows :
           rows[r].status \in Final => rows'[r].status = rows[r].status]_vars
  <2> SUFFICES ASSUME BackgroundInv, Next, kind = "sweep",
                      NEW r \in DOMAIN rows, rows[r].status \in Final
               PROVE  rows'[r].status = rows[r].status
    OBVIOUS
  <2>1. ASSUME rows' = rows PROVE rows'[r].status = rows[r].status
    BY <2>1
  <2>2. CASE InsertSweep
    <3> DEFINE row == NewRow(0, {})
    <3>1. rows' = Append(rows, row) /\ row \in Rows /\ rows \in Seq(Rows)
      BY <2>2 DEF InsertSweep, BackgroundInv, BackgroundTypes, NewRow, Rows, Statuses
    <3> HIDE DEF row
    <3>2. rows'[r] = rows[r]
      BY <3>1, RowAppended
    <3> QED BY <3>2
  <2>3. CASE WriteStop
    BY <2>3, WriteStopIs
  <2>4. CASE Restart
    BY <2>4, RestartIs DEF Active, Final
  <2>5. ASSUME NEW p \in Processes, StopRun(p) \/ CompleteRun(p) \/ FailRun(p)
        PROVE  rows'[r].status = rows[r].status
    <3>1. PICK status \in Final : EndRun(p, status)
      BY <2>5 DEF StopRun, CompleteRun, FailRun, Final
    <3>2. worker[p].pc \in {"load", "check", "item"}
      BY <2>5 DEF StopRun, CompleteRun, FailRun
    <3>3. p = "backend" /\ Active(worker[p].run)
      BY <3>2 DEF BackgroundInv, SweepsOwnRow, Processes
    <3>4. r # worker[p].run
      BY <3>3 DEF Active, Final
    <3>5. rows'[r] = rows[r]
      BY <3>1, <3>2, <3>4, EndRunIs
    <3> QED BY <3>5
  <2>6. \A p \in Processes : ~InsertFrozen(p)
    BY DEF BackgroundInv, SweepsOwnRow, InsertFrozen
  <2>7. CASE \E i \in Items : BeginInsert(i) \/ CommitInsert(i)
    BY <2>1, <2>7 DEF BeginInsert, CommitInsert
  <2>8. CASE Spawn \/ ReadForStop \/ \E p \in Processes : Freeze(p) \/ Die(p)
    BY <2>1, <2>8 DEF Spawn, ReadForStop, Freeze, Die
  <2>9. ASSUME NEW p \in Processes, Work(p) PROVE rows'[r].status = rows[r].status
    BY <2>1, <2>5, <2>9 DEF Work, BeginStage, NextStage, BeginItem, EndThread, ItemDone, ItemFailed
  <2> QED BY <2>2, <2>3, <2>4, <2>6, <2>7, <2>8, <2>9 DEF Next
<1> QED BY <1>1, BackgroundInvariant, PTL DEF Spec, SweepEndIsFinal

===============================================================================
