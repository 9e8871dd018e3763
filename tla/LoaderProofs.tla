------------------------------ MODULE LoaderProofs ------------------------------
(***************************************************************************)
(* Proofs about the two jobs of the loader worker, each for every value of *)
(* its constants.                                                          *)
(*                                                                         *)
(* Loads (ModelLoader): the types (and with them that no preset request is *)
(* answered twice), the one job of the worker, the spinner, and the order  *)
(* in which loads replace each other.  Three families of facts carry them: *)
(*                                                                         *)
(*   Homes   a preset request is in one place of the pipeline at a time,   *)
(*           and unanswered while it is in one;                            *)
(*   Order   generations are handed out, queued and dispatched in one      *)
(*           order, and what the main thread dispatched is what it knows;  *)
(*   Work    the worker side holds one job when it is busy, else none.     *)
(*                                                                         *)
(* WithoutGui is a recursive function: what it keeps is shown by induction *)
(* over the queue, from the well-founded order of the naturals.            *)
(*                                                                         *)
(* Slices (AdaptiveRebuild, the instance R at the end of the module):      *)
(* NoOlderSlice is not inductive: a slice is cut, waits in a slot and in a *)
(* ring, and is installed long after.  What carries it there is that a     *)
(* load publishes full_wavenet_model before anything can run it, so as     *)
(* long as nothing was restored no generation in circulation is newer than *)
(* the model a slice is cut from.  The theorems about R say of which       *)
(* constants they speak: those of RebuildAssumption, which TLC evaluates   *)
(* on the runs of MCAdaptiveRebuild.                                       *)
(***************************************************************************)
EXTENDS ModelLoader, RunningModel, WellFoundedInduction, TLAPS

-----------------------------------------------------------------------------
(* Induction over the naturals.                                            *)

(* A set of naturals that is not empty has a least member.                 *)
LEMMA Least ==
  ASSUME NEW T, T \subseteq Nat, T # {}
  PROVE  \E x \in T : \A y \in T : x <= y
<1>1. PICK x \in T : \A y \in T : ~(<<y, x>> \in OpToRel(<, Nat))
  BY NatLessThanWellFounded, WFMin
<1>2. \A y \in T : (y < x => <<y, x>> \in OpToRel(<, Nat))
  BY Zenon DEF OpToRel
<1>3. \A y \in T : ~(y < x)
  BY <1>1, <1>2, Zenon
<1> HIDE <1>1
<1>4. \A y \in T : x <= y
  BY <1>3
<1> QED
  BY <1>4

(* A set with 0 and, with every natural, the next one, has them all.       *)
LEMMA Induct ==
  ASSUME NEW S, 0 \in S, \A n \in Nat : n \in S => n + 1 \in S
  PROVE  Nat \subseteq S
<1> SUFFICES ASSUME Nat \ S # {} PROVE FALSE
  OBVIOUS
<1>1. PICK x \in Nat \ S : \A y \in Nat \ S : x <= y
  <2>1. Nat \ S \subseteq Nat
    OBVIOUS
  <2> QED
    BY <2>1, Least
<1>2. x - 1 \in Nat /\ (x - 1) + 1 = x
  BY <1>1
<1>3. x - 1 \in S
  BY <1>1, <1>2
<1> QED
  BY <1>1, <1>2, <1>3

-----------------------------------------------------------------------------
(* WithoutGui.                                                             *)

(* What retain() has kept after the first n jobs.                          *)
KeptFrom(jobs, n, before) ==
  IF n = 0 THEN << >>
  ELSE IF jobs[n].origin # "gui" THEN Append(before, jobs[n])
  ELSE before

Keeps(jobs, k, f) == f = [n \in 0 .. k |-> KeptFrom(jobs, n, f[n - 1])]

(* Such a function exists, however long the queue is.                      *)
LEMMA KeepsExists ==
  ASSUME NEW jobs, NEW k \in Nat
  PROVE  \E f : Keeps(jobs, k, f)
<1> DEFINE S == {n \in Nat : \E f : Keeps(jobs, n, f)}
<1>1. 0 \in S
  <2> DEFINE f == [n \in 0 .. 0 |-> << >>]
  <2>1. f = [n \in 0 .. 0 |-> KeptFrom(jobs, n, f[n - 1])]
    BY DEF KeptFrom
  <2> QED
    BY <2>1 DEF Keeps
<1>2. ASSUME NEW n \in Nat, n \in S PROVE n + 1 \in S
  <2>1. PICK f : Keeps(jobs, n, f)
    BY <1>2
  <2> DEFINE g == [m \in 0 .. n + 1 |-> IF m <= n THEN f[m] ELSE KeptFrom(jobs, m, f[n])]
             h == [m \in 0 .. n + 1 |-> KeptFrom(jobs, m, g[m - 1])]
  <2>2. ASSUME NEW m \in 0 .. n + 1 PROVE g[m] = KeptFrom(jobs, m, g[m - 1])
    <3>1. CASE m = 0
      <4>1. g[m] = f[0]
        BY <3>1
      <4>2. f[0] = KeptFrom(jobs, 0, f[0 - 1])
        BY <2>1 DEF Keeps
      <4> QED
        BY <3>1, <4>1, <4>2 DEF KeptFrom
    <3>2. CASE m # 0 /\ m <= n
      <4>1. g[m] = f[m] /\ g[m - 1] = f[m - 1]
        BY <3>2
      <4>2. f[m] = KeptFrom(jobs, m, f[m - 1])
        BY <2>1, <3>2 DEF Keeps
      <4> QED
        BY <4>1, <4>2
    <3>3. CASE m = n + 1
      <4>1. g[m] = KeptFrom(jobs, m, f[n])
        BY <3>3
      <4>2. g[m - 1] = f[n]
        BY <3>3
      <4> QED
        BY <4>1, <4>2
    <3> QED
      BY <3>1, <3>2, <3>3
  <2>3. g = h
    BY <2>2
  <2> HIDE DEF g
  <2>4. Keeps(jobs, n + 1, g)
    BY <2>3 DEF Keeps
  <2> QED
    BY <2>4
<1>3. Nat \subseteq S
  <2> HIDE DEF S
  <2> QED
    BY <1>1, <1>2, Induct
<1> QED
  BY <1>3

(* WithoutGui is the last value of such a function.                        *)
LEMMA WithoutGuiIsKept ==
  ASSUME NEW jobs \in Seq(Job)
  PROVE  \E f : Keeps(jobs, Len(jobs), f) /\ WithoutGui(jobs) = f[Len(jobs)]
<1> DEFINE f == CHOOSE f : Keeps(jobs, Len(jobs), f)
<1>1. Keeps(jobs, Len(jobs), f)
  BY KeepsExists
<1>2. WithoutGui(jobs) = f[Len(jobs)]
  BY DEF WithoutGui, Keeps, KeptFrom
<1> HIDE DEF f
<1> QED
  BY <1>1, <1>2

(* s takes members of jobs that are no picks of the GUI, in their order.   *)
Embeds(s, jobs, k) ==
  /\ s \in Seq(Job) /\ Len(s) <= k
  /\ \E at \in [1 .. Len(s) -> 1 .. k] :
       /\ \A n \in 1 .. Len(s) : s[n] = jobs[at[n]] /\ s[n].origin # "gui"
       /\ \A n, m \in 1 .. Len(s) : n < m => at[n] < at[m]

(* The next job is kept or it is not.                                      *)
LEMMA EmbedsStep ==
  ASSUME NEW jobs \in Seq(Job), NEW k \in 1 .. Len(jobs), NEW s, Embeds(s, jobs, k - 1)
  PROVE  Embeds(KeptFrom(jobs, k, s), jobs, k)
<1>1. PICK at \in [1 .. Len(s) -> 1 .. k - 1] :
        /\ \A n \in 1 .. Len(s) : s[n] = jobs[at[n]] /\ s[n].origin # "gui"
        /\ \A n, m \in 1 .. Len(s) : n < m => at[n] < at[m]
  BY DEF Embeds
<1>a. s \in Seq(Job) /\ Len(s) \in Nat /\ Len(s) <= k - 1
  BY DEF Embeds
<1>b. k \in Nat /\ k >= 1 /\ k <= Len(jobs) /\ jobs[k] \in Job
  OBVIOUS
<1>2. CASE jobs[k].origin = "gui"
  <2>1. KeptFrom(jobs, k, s) = s
    BY <1>2 DEF KeptFrom
  <2>2. at \in [1 .. Len(s) -> 1 .. k] /\ s \in Seq(Job) /\ Len(s) <= k
    BY <1>1, <1>a, <1>b
  <2>3. Embeds(s, jobs, k)
    BY <1>1, <2>2 DEF Embeds
  <2> QED
    BY <2>1, <2>3
<1>3. CASE jobs[k].origin # "gui"
  <2> DEFINE r == Append(s, jobs[k])
             to == [n \in 1 .. Len(s) + 1 |-> IF n <= Len(s) THEN at[n] ELSE k]
  <2>1. KeptFrom(jobs, k, s) = r
    BY <1>3 DEF KeptFrom
  <2>2. /\ r \in Seq(Job) /\ Len(r) = Len(s) + 1
        /\ \A n \in 1 .. Len(s) : r[n] = s[n]
        /\ r[Len(s) + 1] = jobs[k]
    BY <1>a, <1>b
  <2> HIDE DEF r
  <2>3. to \in [1 .. Len(r) -> 1 .. k]
    BY <1>1, <1>a, <1>b, <2>2
  <2>4. \A n \in 1 .. Len(r) : r[n] = jobs[to[n]] /\ r[n].origin # "gui"
    <3> SUFFICES ASSUME NEW n \in 1 .. Len(r)
                 PROVE  r[n] = jobs[to[n]] /\ r[n].origin # "gui"
      OBVIOUS
    <3>1. CASE n <= Len(s)
      <4>1. to[n] = at[n] /\ r[n] = s[n] /\ n \in 1 .. Len(s)
        BY <1>a, <2>2, <3>1
      <4> HIDE DEF to
      <4> QED
        BY <1>1, <4>1
    <3>2. CASE n = Len(s) + 1
      <4>1. to[n] = k /\ r[n] = jobs[k]
        BY <1>a, <2>2, <3>2
      <4> HIDE DEF to
      <4> QED
        BY <1>3, <4>1
    <3> QED
      BY <1>a, <2>2, <3>1, <3>2
  <2>5. \A n, m \in 1 .. Len(r) : n < m => to[n] < to[m]
    <3> SUFFICES ASSUME NEW n \in 1 .. Len(r), NEW m \in 1 .. Len(r), n < m
                 PROVE  to[n] < to[m]
      OBVIOUS
    <3>1. to[n] = at[n] /\ at[n] \in 1 .. k - 1
      <4>1. n \in 1 .. Len(s)
        BY <1>a, <2>2
      <4> QED
        BY <1>1, <4>1
    <3>2. CASE m <= Len(s)
      <4>1. to[m] = at[m] /\ m \in 1 .. Len(s) /\ n \in 1 .. Len(s)
        BY <1>a, <2>2, <3>2
      <4> HIDE DEF to
      <4> QED
        BY <1>1, <3>1, <4>1
    <3>3. CASE m = Len(s) + 1
      <4>1. to[m] = k
        BY <1>a, <2>2, <3>3
      <4> HIDE DEF to
      <4> QED
        BY <3>1, <4>1
    <3>4. m \in Nat /\ m <= Len(s) + 1
      BY <1>a, <2>2
    <3> QED
      BY <1>a, <3>2, <3>3, <3>4
  <2> HIDE DEF to
  <2>6. Len(r) <= k
    BY <1>a, <1>b, <2>2
  <2>7. Embeds(r, jobs, k)
    BY <2>2, <2>3, <2>4, <2>5, <2>6 DEF Embeds
  <2> QED
    BY <2>1, <2>7
<1> QED
  BY <1>2, <1>3

(* retain() keeps jobs of the queue, none of the GUI's, in their order.    *)
LEMMA WithoutGuiEmbeds ==
  ASSUME NEW jobs \in Seq(Job)
  PROVE  Embeds(WithoutGui(jobs), jobs, Len(jobs))
<1>1. PICK f : Keeps(jobs, Len(jobs), f) /\ WithoutGui(jobs) = f[Len(jobs)]
  BY WithoutGuiIsKept
<1>2. \A n \in 0 .. Len(jobs) : f[n] = KeptFrom(jobs, n, f[n - 1])
  <2> DEFINE g == [n \in 0 .. Len(jobs) |-> KeptFrom(jobs, n, f[n - 1])]
  <2>1. f = g
    BY <1>1 DEF Keeps
  <2>2. \A n \in 0 .. Len(jobs) : g[n] = KeptFrom(jobs, n, f[n - 1])
    OBVIOUS
  <2> HIDE DEF g
  <2> QED
    BY <2>1, <2>2, Zenon
<1> DEFINE S == {n \in Nat : n <= Len(jobs) => Embeds(f[n], jobs, n)}
<1>3. 0 \in S
  <2>1. f[0] = << >>
    BY <1>2 DEF KeptFrom
  <2>2. Embeds(<< >>, jobs, 0)
    <3> DEFINE e == << >>
               at == [n \in 1 .. Len(e) |-> 0]
    <3>1. e \in Seq(Job) /\ Len(e) = 0
      OBVIOUS
    <3> HIDE DEF e
    <3>2. \A n \in 1 .. Len(e) : FALSE
      BY <3>1
    <3>3. at \in [1 .. Len(e) -> 1 .. 0]
      BY <3>2
    <3> HIDE DEF at
    <3>4. Embeds(e, jobs, 0)
      <4>1. \E to \in [1 .. Len(e) -> 1 .. 0] :
              /\ \A n \in 1 .. Len(e) : e[n] = jobs[to[n]] /\ e[n].origin # "gui"
              /\ \A n, m \in 1 .. Len(e) : n < m => to[n] < to[m]
        BY <3>2, <3>3, Zenon
      <4>2. e \in Seq(Job) /\ Len(e) <= 0
        BY <3>1
      <4> QED
        BY <4>1, <4>2, Zenon DEF Embeds
    <3> QED
      BY <3>4 DEF e
  <2> QED
    BY <2>1, <2>2
<1>4. \A n \in Nat : n \in S => n + 1 \in S
  <2> SUFFICES ASSUME NEW n \in Nat, n \in S, n + 1 <= Len(jobs)
               PROVE  Embeds(f[n + 1], jobs, n + 1)
    OBVIOUS
  <2>1. Embeds(f[n], jobs, n)
    OBVIOUS
  <2>2. f[n + 1] = KeptFrom(jobs, n + 1, f[n])
    BY <1>2
  <2>3. n + 1 \in 1 .. Len(jobs) /\ (n + 1) - 1 = n
    OBVIOUS
  <2>4. \A k \in 1 .. Len(jobs) : Embeds(f[n], jobs, k - 1)
                                    => Embeds(KeptFrom(jobs, k, f[n]), jobs, k)
    BY EmbedsStep
  <2>5. Embeds(f[n], jobs, (n + 1) - 1)
    BY <2>1, <2>3
  <2>6. Embeds(KeptFrom(jobs, n + 1, f[n]), jobs, n + 1)
    BY <2>3, <2>4, <2>5, Zenon
  <2> QED
    BY <2>2, <2>6, Zenon
<1>5. Nat \subseteq S
  <2> HIDE DEF S
  <2> QED
    BY <1>3, <1>4, Induct
<1> QED
  BY <1>1, <1>5

-----------------------------------------------------------------------------
(* The invariant.                                                          *)

(* A preset request is underway: its place, where in it, and its id.       *)
At(p, n, i) ==
  \/ p = "ingress" /\ n \in 1 .. Len(ingress) /\ ingress[n].origin = "preset" /\ ingress[n].id = i
  \/ p = "pending" /\ n \in 1 .. Len(pending) /\ pending[n].origin = "preset" /\ pending[n].id = i
  \/ p = "channel" /\ n \in 1 .. Len(channel) /\ channel[n].origin = "preset" /\ channel[n].id = i
  \/ p = "working" /\ n = 1 /\ working # None /\ working.origin = "preset" /\ working.id = i
  \/ p = "slot" /\ n = 1 /\ slot # None /\ slot.origin = "preset" /\ slot.id = i

(* It is underway once, and not answered yet.                              *)
Once == \A p, q, n, m, i : At(p, n, i) /\ At(q, m, i) => p = q /\ n = m
Open ==
  /\ \A p, n, i : At(p, n, i) => i \in 1 .. issued /\ answers[i] = 0
  /\ \A i \in Id : i > issued => answers[i] = 0

(* The picker is the GUI's; it gives out only numbers that were issued.    *)
Picks ==
  /\ dialog # None => dialog.origin = "gui"
  /\ picker <= issued

(* What the allocator may still hand out: a request that is not accepted   *)
(* yet costs two generations at most, an accepted one one more.            *)
PickerCost == IF picker = 0 THEN 0 ELSE 2
DialogCost == IF dialog = None THEN 0 ELSE 2
Claims == generation + PickerCost + DialogCost + 2 * Len(ingress) + Len(pending)
Budget ==
  /\ issued + changes + panics <= MaxOps
  /\ Claims <= 2 * issued + changes

(* The jobs the worker has or has finished.                                *)
WorkerSide(j) ==
  \/ \E n \in 1 .. Len(channel) : j = channel[n]
  \/ j = working /\ working # None
  \/ j = slot /\ slot # None

(* Generations are allocated in the order in which jobs are accepted, and  *)
(* jobs are dispatched in that order too.                                  *)
Allocated ==
  /\ model <= generation /\ loaded <= generation /\ newest_gui <= generation
  /\ \A j : WorkerSide(j) => j.generation <= generation

Waiting(n) ==
  /\ pending[n].generation <= generation
  /\ pending[n].generation > dispatched /\ pending[n].generation > loaded
  /\ pending[n].origin = "gui" => pending[n].generation = newest_gui
  /\ \A j : WorkerSide(j) => j.generation < pending[n].generation
  /\ \A m \in 1 .. Len(pending) : n < m => pending[n].generation < pending[m].generation

Line == Allocated /\ \A n \in 1 .. Len(pending) : Waiting(n)

(* What the main thread knows of the job it dispatched last.               *)
Known ==
  dispatched # 0 =>
    /\ busy /\ dispatched > loaded /\ dispatched <= generation
    /\ dispatched_gui => dispatched = newest_gui
    /\ \A j : WorkerSide(j) /\ j.generation = dispatched => (j.origin = "gui" <=> dispatched_gui)

(* Before there is a worker a load is accepted and run within one tick.    *)
NoWorker ==
  ~loader =>
    /\ ~busy /\ channel = << >> /\ working = None
    /\ Len(pending) <= 1
    /\ tick \notin {"poll", "dispatch"} => pending = << >>

Quiet == panics = 0 => ~reporting

Homes == Once /\ Open
Order == Line /\ Known /\ NoWorker
Work == Quiet /\ OneJobAtATime /\ SpinnerCoversLoads
LInv == TypeOK /\ Homes /\ Picks /\ Budget /\ Order /\ Work

-----------------------------------------------------------------------------
(* What an action leaves alone, it leaves in order.                        *)

(* The requests stay where they are.                                       *)
LEMMA HomesFrame ==
  ASSUME Homes, issued \in Nat, issued' \in Nat, issued <= issued',
         UNCHANGED <<ingress, pending, channel, working, slot, answers>>
  PROVE  Homes'
<1>1. \A p, n, i : At(p, n, i)' <=> At(p, n, i)
  BY DEF At
<1>2. Once'
  BY <1>1 DEF Homes, Once
<1>3. Open'
  BY <1>1 DEF Homes, Open, Id
<1> QED
  BY <1>2, <1>3 DEF Homes

(* The loads and the worker rest.                                          *)
LEMMA WorkFrame ==
  ASSUME Work, UNCHANGED <<loadVars, workerVars>>
  PROVE  Work'
BY DEF Work, Quiet, OneJobAtATime, Outstanding, SpinnerCoversLoads, loadVars, workerVars

(* The numbers of a state.                                                 *)
LEMMA Numbers ==
  ASSUME TypeOK
  PROVE  /\ issued \in Nat /\ changes \in Nat /\ panics \in Nat /\ picker \in Nat
         /\ dispatched \in Nat /\ generation \in Nat /\ model \in Nat /\ loaded \in Nat
         /\ newest_gui \in Nat
         /\ MaxOps \in Nat /\ MaxChanges \in Nat /\ MaxPanics \in Nat
         /\ MaxPending \in Nat /\ MaxPending > 0
         /\ Len(ingress) \in Nat /\ Len(pending) \in Nat /\ Len(channel) \in Nat
<1>1. /\ issued \in Nat /\ changes \in Nat /\ panics \in Nat /\ picker \in Nat
      /\ dispatched \in Nat /\ generation \in Nat /\ model \in Nat /\ loaded \in Nat
      /\ newest_gui \in Nat
  BY LoaderAssumption DEF TypeOK, Generation
<1>2. /\ MaxOps \in Nat /\ MaxChanges \in Nat /\ MaxPanics \in Nat
      /\ MaxPending \in Nat /\ MaxPending > 0
  BY LoaderAssumption
<1>3. Len(ingress) \in Nat /\ Len(pending) \in Nat /\ Len(channel) \in Nat
  BY DEF TypeOK
<1> QED
  BY <1>1, <1>2, <1>3

(* The generations the invariant compares are numbers.                     *)
LEMMA PendingTypes ==
  ASSUME TypeOK, NEW n \in 1 .. Len(pending)
  PROVE  pending[n] \in Job /\ pending[n].generation \in Nat
<1>1. pending[n] \in Job
  BY DEF TypeOK
<1> QED
  BY <1>1, LoaderAssumption DEF Job, Generation

LEMMA WorkerSideTypes ==
  ASSUME TypeOK, NEW j, WorkerSide(j)
  PROVE  j.generation \in Generation /\ j.generation \in Nat
<1>1. CASE \E n \in 1 .. Len(channel) : j = channel[n]
  <2>1. j \in Job
    BY <1>1 DEF TypeOK
  <2> QED
    BY <2>1, LoaderAssumption DEF Job, Generation
<1>2. CASE j = working /\ working # None
  <2>1. j \in Job
    BY <1>2 DEF TypeOK
  <2> QED
    BY <2>1, LoaderAssumption DEF Job, Generation
<1>3. CASE j = slot /\ slot # None
  <2>1. j \in PreparedModelResult
    BY <1>3 DEF TypeOK
  <2> QED
    BY <2>1, LoaderAssumption DEF PreparedModelResult, Generation
<1> QED
  BY <1>1, <1>2, <1>3 DEF WorkerSide

(* The allocator and the adopted identity may move on.                     *)
LEMMA OrderFrame ==
  ASSUME TypeOK, Line, Known, generation' \in Nat, generation <= generation',
         model' <= generation',
         UNCHANGED <<pending, busy, dispatched, dispatched_gui, channel, working, slot, loaded,
                     newest_gui>>
  PROVE  Line' /\ Known'
<1>1. \A j : WorkerSide(j)' <=> WorkerSide(j)
  BY DEF WorkerSide
<1>2. /\ generation \in Nat /\ loaded \in Nat /\ newest_gui \in Nat /\ dispatched \in Nat
  BY Numbers
<1>3. Allocated'
  <2>1. \A j : WorkerSide(j) => j.generation \in Nat /\ j.generation <= generation
    BY WorkerSideTypes DEF Line, Allocated
  <2> QED
    BY <1>1, <1>2, <2>1 DEF Line, Allocated
<1>4. ASSUME NEW n \in 1 .. Len(pending) PROVE Waiting(n)'
  <2>1. Waiting(n) /\ pending[n].generation \in Nat
    BY PendingTypes DEF Line
  <2>2. pending[n].generation <= generation'
    BY <1>2, <2>1 DEF Waiting
  <2> QED
    BY <1>1, <2>1, <2>2 DEF Waiting
<1>5. Known'
  BY <1>1, <1>2 DEF Known
<1> QED
  BY <1>3, <1>4, <1>5 DEF Line

(* Nothing of the order moves.                                             *)
LEMMA OrderKept ==
  ASSUME TypeOK, Line, Known,
         UNCHANGED <<pending, busy, dispatched, dispatched_gui, channel, working, slot, loaded,
                     newest_gui, generation, model>>
  PROVE  Line' /\ Known'
BY OrderFrame, Numbers DEF Line, Allocated

LEMMA CostTypes ==
  /\ PickerCost \in Nat /\ DialogCost \in Nat
  /\ PickerCost' \in Nat /\ DialogCost' \in Nat
BY DEF PickerCost, DialogCost

(* What claims no more than before stays within the budget.                *)
LEMMA BudgetFrame ==
  ASSUME TypeOK, Budget, UNCHANGED <<issued, changes, panics>>,
         Claims' \in Int, Claims' <= Claims
  PROVE  Budget'
<1>1. issued \in Nat /\ changes \in Nat /\ Claims \in Int
  <2>1. generation \in Nat /\ Len(ingress) \in Nat /\ Len(pending) \in Nat
    BY Numbers
  <2>2. Claims \in Int
    BY <2>1, CostTypes DEF Claims
  <2> QED
    BY <2>2, Numbers
<1>2. issued + changes + panics <= MaxOps /\ Claims <= 2 * issued + changes
  BY DEF Budget
<1>3. Claims' <= 2 * issued' + changes'
  BY <1>1, <1>2
<1> QED
  BY <1>2, <1>3 DEF Budget

(* Within the budget the allocator stays within Generation.                *)
LEMMA GenerationFits ==
  ASSUME Budget', issued' \in Nat, changes' \in Nat, panics' \in Nat, generation' \in Nat,
         Len(ingress') \in Nat, Len(pending') \in Nat
  PROVE  generation' \in Generation
<1>1. PICK i \in Nat, c \in Nat, p \in Nat :
        i = issued' /\ c = changes' /\ p = panics'
  OBVIOUS
<1>2. PICK g \in Nat, m \in Nat, n \in Nat :
        g = generation' /\ m = Len(ingress') /\ n = Len(pending')
  OBVIOUS
<1>3. PICK k \in Nat, d \in Nat : k = PickerCost' /\ d = DialogCost'
  BY CostTypes
<1>4. i + c + p <= MaxOps /\ g + k + d + 2 * m + n <= 2 * i + c
  BY <1>1, <1>2, <1>3 DEF Budget, Claims
<1>5. g <= 2 * MaxOps
  BY <1>4, LoaderAssumption
<1> QED
  BY <1>2, <1>5, LoaderAssumption DEF Generation

-----------------------------------------------------------------------------
(* Requests.                                                               *)

LEMMA InitHolds == Init => LInv
<1> SUFFICES ASSUME Init PROVE LInv
  OBVIOUS
<1> USE LoaderAssumption DEF Init
<1>1. TypeOK
  <2>1. answers \in [Id -> 0 .. 1]
    OBVIOUS
  <2>2. {dispatched, generation, model, loaded, newest_gui} \subseteq Generation
    BY DEF Generation
  <2>3. /\ ingress \in Seq(Request) /\ Len(ingress) <= MaxPending
        /\ pending \in Seq(Job) /\ Len(pending) <= MaxPending
        /\ channel \in Seq(Job)
    OBVIOUS
  <2>4. /\ issued \in 0 .. MaxOps /\ picker \in 0 .. MaxOps
        /\ changes \in 0 .. MaxChanges /\ panics \in 0 .. MaxPanics
    OBVIOUS
  <2> HIDE DEF Init
  <2>5. /\ {ui_dialog_open, busy, dispatched_gui, ui_loading, callback, loader, reporting}
             \subseteq BOOLEAN
        /\ dialog \in Request \cup {None} /\ working \in Job \cup {None}
        /\ slot \in PreparedModelResult \cup {None}
        /\ tick \in {"idle", "dialog", "accept", "poll", "dispatch"}
    BY DEF Init
  <2> QED
    BY <2>1, <2>2, <2>3, <2>4, <2>5 DEF TypeOK
<1>2. Homes
  BY DEF Homes, Once, Open, At
<1>3. Picks /\ Budget
  BY DEF Picks, Budget, Claims, PickerCost, DialogCost
<1>4. Order
  BY DEF Order, Line, Allocated, Waiting, Known, NoWorker, WorkerSide
<1>5. Work
  BY DEF Work, Quiet, OneJobAtATime, Outstanding, SpinnerCoversLoads
<1> QED
  BY <1>1, <1>2, <1>3, <1>4, <1>5 DEF LInv

LEMMA OpenDialogHolds ==
  ASSUME LInv, OpenDialog
  PROVE  LInv'
<1> USE LoaderAssumption DEF OpenDialog
<1>0. TypeOK /\ issued + changes + panics < MaxOps
  BY DEF LInv, MayGoOn
<1>1. TypeOK'
  <2>1. issued \in Nat /\ changes \in Nat /\ panics \in Nat /\ MaxOps \in Nat
    BY <1>0, Numbers
  <2>2. issued' \in Id /\ picker' \in Id
    BY <1>0, <2>1 DEF Id
  <2> QED
    BY <1>0, <2>2 DEF TypeOK, Id, loadVars, workerVars, identityVars
<1>2. Homes'
  BY HomesFrame DEF LInv, TypeOK, loadVars, workerVars, identityVars
<1>3. Picks' /\ Budget'
  <2>1. Picks'
    BY Numbers DEF LInv, Picks
  <2>2. Budget'
    <3>1. /\ issued \in Nat /\ changes \in Nat /\ panics \in Nat /\ MaxOps \in Nat
          /\ generation \in Nat /\ Len(ingress) \in Nat /\ Len(pending) \in Nat
      BY Numbers DEF LInv
    <3>2. /\ issued' = issued + 1 /\ changes' = changes /\ panics' = panics
          /\ issued + changes + panics < MaxOps
      BY DEF MayGoOn, workerVars, identityVars
    <3>3. issued' + changes' + panics' <= MaxOps
      BY <3>1, <3>2
    <3>4. /\ generation' = generation /\ Len(ingress') = Len(ingress)
          /\ Len(pending') = Len(pending)
      BY DEF loadVars, identityVars
    <3>5. PickerCost = 0 /\ PickerCost' = 2 /\ DialogCost' = DialogCost /\ DialogCost \in Nat
      BY <3>1 DEF PickerCost, DialogCost
    <3>6. Claims' = Claims + 2 /\ Claims \in Int
      BY <3>1, <3>4, <3>5 DEF Claims
    <3>7. Claims <= 2 * issued + changes
      BY DEF LInv, Budget
    <3>8. Claims' <= 2 * issued' + changes'
      BY <3>1, <3>2, <3>6, <3>7
    <3> QED
      BY <3>3, <3>8 DEF Budget
  <2> QED
    BY <2>1, <2>2
<1>4. Order'
  <2>1. Line' /\ Known'
    BY OrderKept DEF LInv, Order, loadVars, workerVars, identityVars
  <2>2. NoWorker'
    BY DEF LInv, Order, NoWorker, loadVars, workerVars
  <2> QED
    BY <2>1, <2>2 DEF Order
<1>5. Work'
  BY WorkFrame DEF LInv
<1> QED
  BY <1>1, <1>2, <1>3, <1>4, <1>5 DEF LInv

LEMMA CompleteDialogHolds ==
  ASSUME LInv, CompleteDialog
  PROVE  LInv'
<1> USE LoaderAssumption DEF CompleteDialog
<1>1. TypeOK'
  <2>1. dialog' \in Request
    BY DEF LInv, TypeOK, Request, Origin, Id
  <2> QED
    BY <2>1 DEF LInv, TypeOK, loadVars, workerVars, identityVars
<1>2. Homes'
  BY HomesFrame DEF LInv, TypeOK, loadVars, workerVars, identityVars
<1>3. Picks' /\ Budget'
  <2>1. dialog'.origin = "gui"
    OBVIOUS
  <2>2. Picks'
    BY <2>1, Numbers DEF LInv, Picks
  <2>3. Budget'
    <3>1. generation \in Nat /\ Len(ingress) \in Nat /\ Len(pending) \in Nat
      BY Numbers DEF LInv
    <3>2. /\ generation' = generation /\ Len(ingress') = Len(ingress)
          /\ Len(pending') = Len(pending)
      BY DEF loadVars, identityVars
    <3>3. /\ PickerCost = 2 /\ PickerCost' = 0 /\ DialogCost \in Nat /\ DialogCost' \in Nat
          /\ DialogCost' <= DialogCost + 2
      BY DEF PickerCost, DialogCost
    <3>4. Claims' \in Int /\ Claims' <= Claims
      BY <3>1, <3>2, <3>3 DEF Claims
    <3>5. TypeOK /\ Budget
      BY DEF LInv
    <3> QED
      BY <3>4, <3>5, BudgetFrame DEF workerVars, identityVars
  <2> QED
    BY <2>2, <2>3
<1>4. Order'
  <2>1. Line' /\ Known'
    BY OrderKept DEF LInv, Order, loadVars, workerVars, identityVars
  <2>2. NoWorker'
    BY DEF LInv, Order, NoWorker, loadVars, workerVars
  <2> QED
    BY <2>1, <2>2 DEF Order
<1>5. Work'
  BY WorkFrame DEF LInv
<1> QED
  BY <1>1, <1>2, <1>3, <1>4, <1>5 DEF LInv

LEMMA LoadFromLocationHolds ==
  ASSUME LInv, LoadFromLocation
  PROVE  LInv'
<1> USE LoaderAssumption DEF LoadFromLocation
<1> DEFINE r == [id |-> issued + 1, origin |-> "preset", real |-> TRUE]
<1>1. ingress \in Seq(Request) /\ issued + 1 \in Id /\ issued \in Nat
  BY DEF LInv, TypeOK, MayGoOn, Id
<1>2. r \in Request /\ r.origin = "preset" /\ r.id = issued + 1
  BY <1>1 DEF Request, Origin
<1>3. ingress' = Append(ingress, r)
  OBVIOUS
<1> HIDE DEF r
<1>4. /\ ingress' \in Seq(Request) /\ Len(ingress') = Len(ingress) + 1
      /\ \A n \in 1 .. Len(ingress) : ingress'[n] = ingress[n]
      /\ ingress'[Len(ingress) + 1] = r
  BY <1>1, <1>2, <1>3
<1>5. TypeOK'
  BY <1>1, <1>4 DEF LInv, TypeOK, MayGoOn, Id, loadVars, workerVars, identityVars
<1>6. Homes'
  <2>1. \A p, n, i : At(p, n, i)' =>
          \/ p = "ingress" /\ n = Len(ingress) + 1 /\ i = issued + 1
          \/ At(p, n, i)
    BY <1>1, <1>2, <1>4 DEF At, loadVars, workerVars
  <2>2. \A p, n, i : At(p, n, i) => i \in 1 .. issued /\ answers[i] = 0
    BY DEF LInv, Homes, Open
  <2>3. Once'
    BY <1>1, <2>1, <2>2 DEF LInv, Homes, Once
  <2>4. Open'
    <3>1. \A i \in Id : i > issued => answers[i] = 0
      BY DEF LInv, Homes, Open
    <3>2. answers[issued + 1] = 0 /\ answers' = answers /\ issued' = issued + 1
      BY <1>1, <3>1 DEF identityVars
    <3> QED
      BY <1>1, <2>1, <2>2, <3>1, <3>2 DEF Open, Id
  <2> QED
    BY <2>3, <2>4 DEF Homes
<1>7. Picks' /\ Budget'
  <2>1. Picks'
    <3>1. issued \in Nat /\ picker \in Nat
      BY Numbers DEF LInv
    <3>2. /\ issued' = issued + 1 /\ UNCHANGED <<picker, dialog>>
          /\ picker <= issued
          /\ dialog # None => dialog.origin = "gui"
      BY DEF LInv, Picks
    <3>3. picker' <= issued'
      BY <3>1, <3>2
    <3>4. dialog' # None => dialog'.origin = "gui"
      BY <3>2
    <3> QED
      BY <3>3, <3>4 DEF Picks
  <2>2. Budget'
    <3>1. /\ issued \in Nat /\ changes \in Nat /\ panics \in Nat /\ MaxOps \in Nat
          /\ generation \in Nat /\ Len(ingress) \in Nat /\ Len(pending) \in Nat
      BY Numbers DEF LInv
    <3>2. /\ issued' = issued + 1 /\ changes' = changes /\ panics' = panics
          /\ issued + changes + panics < MaxOps
      BY DEF MayGoOn, workerVars, identityVars
    <3>3. issued' + changes' + panics' <= MaxOps
      BY <3>1, <3>2
    <3>4. /\ generation' = generation /\ Len(ingress') = Len(ingress) + 1
          /\ Len(pending') = Len(pending)
      BY <1>4 DEF loadVars, identityVars
    <3>5. PickerCost' = PickerCost /\ DialogCost' = DialogCost
      BY DEF PickerCost, DialogCost
    <3>6. Claims' = Claims + 2 /\ Claims \in Int
      BY <3>1, <3>4, <3>5, CostTypes DEF Claims
    <3>7. Claims <= 2 * issued + changes
      BY DEF LInv, Budget
    <3>8. Claims' <= 2 * issued' + changes'
      BY <3>1, <3>2, <3>6, <3>7
    <3> QED
      BY <3>3, <3>8 DEF Budget
  <2> QED
    BY <2>1, <2>2
<1>8. Order'
  <2>1. Line' /\ Known'
    BY OrderKept DEF LInv, Order, loadVars, workerVars, identityVars
  <2>2. NoWorker'
    BY DEF LInv, Order, NoWorker, loadVars, workerVars
  <2> QED
    BY <2>1, <2>2 DEF Order
<1>9. Work'
  BY WorkFrame DEF LInv
<1> QED
  BY <1>5, <1>6, <1>7, <1>8, <1>9 DEF LInv

LEMMA ChangeModelHolds ==
  ASSUME LInv, ChangeModel
  PROVE  LInv'
<1> USE LoaderAssumption DEF ChangeModel
<1>1. /\ issued \in Nat /\ changes \in Nat /\ panics \in Nat /\ MaxOps \in Nat
      /\ generation \in Nat /\ Len(ingress) \in Nat /\ Len(pending) \in Nat
      /\ generation' = generation + 1
  BY Numbers DEF LInv
<1>2. Budget'
  <2>1. /\ issued' = issued /\ changes' = changes + 1 /\ panics' = panics
        /\ issued + changes + panics < MaxOps
    BY DEF MayGoOn, guiVars, workerVars
  <2>2. issued' + changes' + panics' <= MaxOps
    BY <1>1, <2>1
  <2>3. Len(ingress') = Len(ingress) /\ Len(pending') = Len(pending)
    BY DEF guiVars, loadVars
  <2>4. PickerCost' = PickerCost /\ DialogCost' = DialogCost
    BY DEF PickerCost, DialogCost, guiVars
  <2>5. Claims' = Claims + 1 /\ Claims \in Int
    BY <1>1, <2>3, <2>4, CostTypes DEF Claims
  <2>6. Claims <= 2 * issued + changes
    BY DEF LInv, Budget
  <2>7. Claims' <= 2 * issued' + changes'
    BY <1>1, <2>1, <2>5, <2>6
  <2> QED
    BY <2>2, <2>7 DEF Budget
<1>3. Picks'
  BY DEF LInv, Picks, guiVars
<1>4. TypeOK'
  <2>1. generation' \in Generation
    BY <1>1, <1>2, GenerationFits DEF guiVars, loadVars, workerVars
  <2> QED
    BY <2>1 DEF LInv, TypeOK, guiVars, loadVars, workerVars
<1>5. Homes'
  BY <1>1, HomesFrame DEF LInv, guiVars, loadVars, workerVars
<1>6. Order'
  <2>1. UNCHANGED <<loadVars, channel, working, slot, loaded, newest_gui, tick, loader>>
    BY DEF workerVars
  <2>2. Line' /\ Known'
    BY <1>1, <2>1, OrderFrame DEF LInv, Order, loadVars
  <2>3. NoWorker'
    BY <2>1 DEF LInv, Order, NoWorker, loadVars
  <2> QED
    BY <2>2, <2>3 DEF Order
<1>7. Work'
  BY WorkFrame DEF LInv
<1> QED
  BY <1>2, <1>3, <1>4, <1>5, <1>6, <1>7 DEF LInv

LEMMA StartTickHolds ==
  ASSUME LInv, StartTick
  PROVE  LInv'
<1> USE DEF StartTick
<1>1. UNCHANGED <<issued, ui_dialog_open, picker, dialog, ingress, pending, busy, dispatched,
                  dispatched_gui, ui_loading, channel, working, slot, reporting, panics,
                  generation, model, loaded, answers, newest_gui, changes>>
  BY DEF guiVars, loadVars, workerVars, identityVars
<1>2. TypeOK'
  BY <1>1 DEF LInv, TypeOK
<1>3. Homes'
  BY <1>1, HomesFrame, Numbers DEF LInv
<1>4. Picks' /\ Budget'
  BY <1>1 DEF LInv, Picks, Budget, Claims, PickerCost, DialogCost
<1>5. Order'
  <2>1. Line' /\ Known'
    BY <1>1, OrderKept DEF LInv, Order
  <2>2. NoWorker'
    BY <1>1 DEF LInv, Order, NoWorker
  <2> QED
    BY <2>1, <2>2 DEF Order
<1>6. Work'
  BY WorkFrame DEF LInv
<1> QED
  BY <1>2, <1>3, <1>4, <1>5, <1>6 DEF LInv

LEMMA TakeDialogHolds ==
  ASSUME LInv, TakeDialog
  PROVE  LInv'
<1> USE DEF TakeDialog
<1>1. UNCHANGED <<issued, picker, pending, busy, dispatched, dispatched_gui, ui_loading,
                  channel, working, slot, reporting, panics, generation, model, loaded, answers,
                  newest_gui, changes, callback, loader>>
  BY DEF loadVars, workerVars, identityVars
<1>2. /\ ingress \in Seq(Request) /\ Len(ingress) \in Nat /\ generation \in Nat
      /\ Len(pending) \in Nat /\ Len(ingress) <= MaxPending /\ MaxPending \in Nat
      /\ dialog \in Request \cup {None} /\ ui_dialog_open \in BOOLEAN
  BY Numbers DEF LInv, TypeOK
<1>3. CASE dialog = None \/ Len(ingress) >= MaxPending
  <2>1. ingress' = ingress /\ dialog' = None /\ ui_dialog_open' \in BOOLEAN
    <3>1. CASE dialog = None
      BY <1>2, <3>1
    <3>2. CASE dialog # None
      <4>1. ~(Len(ingress) < MaxPending)
        BY <1>2, <1>3, <3>2
      <4> QED
        BY <3>2, <4>1
    <3> QED
      BY <3>1, <3>2
  <2>2. TypeOK'
    BY <1>1, <2>1 DEF LInv, TypeOK
  <2>3. Homes'
    BY <1>1, <2>1, HomesFrame, Numbers DEF LInv
  <2>4. Picks'
    BY <1>1, <2>1 DEF LInv, Picks
  <2>5. Budget'
    <3>1. PickerCost' = PickerCost /\ DialogCost' = 0 /\ Len(ingress') = Len(ingress)
      BY <1>1, <2>1 DEF PickerCost, DialogCost
    <3>2. Claims' \in Int /\ Claims' <= Claims
      BY <1>1, <1>2, <3>1, CostTypes DEF Claims
    <3> QED
      BY <1>1, <3>2, BudgetFrame DEF LInv
  <2>6. Order'
    <3>1. Line' /\ Known'
      BY <1>1, OrderKept DEF LInv, Order
    <3>2. NoWorker'
      BY <1>1 DEF LInv, Order, NoWorker
    <3> QED
      BY <3>1, <3>2 DEF Order
  <2>7. Work'
    BY WorkFrame DEF LInv
  <2> QED
    BY <2>2, <2>3, <2>4, <2>5, <2>6, <2>7 DEF LInv
<1>4. CASE dialog # None /\ Len(ingress) < MaxPending
  <2>1. /\ ingress' = Append(ingress, dialog) /\ dialog \in Request /\ dialog' = None
        /\ ui_dialog_open' = FALSE
    BY <1>2, <1>4
  <2>2. /\ ingress' \in Seq(Request) /\ Len(ingress') = Len(ingress) + 1
        /\ \A n \in 1 .. Len(ingress) : ingress'[n] = ingress[n]
        /\ ingress'[Len(ingress) + 1] = dialog
    BY <1>2, <2>1
  <2>3. dialog.origin # "preset"
    BY <1>4 DEF LInv, Picks
  <2>4. TypeOK'
    <3>1. Len(ingress') <= MaxPending
      BY <1>2, <1>4, <2>2
    <3>2. dialog' \in Request \cup {None} /\ tick' = "accept" /\ ui_dialog_open' \in BOOLEAN
      BY <2>1
    <3> QED
      BY <1>1, <2>2, <3>1, <3>2 DEF LInv, TypeOK
  <2>5. Homes'
    <3>1. \A p, n, i : At(p, n, i)' => At(p, n, i)
      BY <1>1, <1>2, <2>2, <2>3 DEF At
    <3>2. Once'
      BY <3>1 DEF LInv, Homes, Once
    <3>3. Open'
      BY <1>1, <3>1 DEF LInv, Homes, Open
    <3> QED
      BY <3>2, <3>3 DEF Homes
  <2>6. Picks'
    BY <1>1, <2>1 DEF LInv, Picks
  <2>7. Budget'
    <3>1. PickerCost' = PickerCost /\ DialogCost' = 0 /\ DialogCost = 2
      BY <1>1, <1>4, <2>1 DEF PickerCost, DialogCost
    <3>2. Claims' \in Int /\ Claims' <= Claims
      BY <1>1, <1>2, <2>2, <3>1, CostTypes DEF Claims
    <3> QED
      BY <1>1, <3>2, BudgetFrame DEF LInv
  <2>8. Order'
    <3>1. Line' /\ Known'
      BY <1>1, OrderKept DEF LInv, Order
    <3>2. NoWorker'
      BY <1>1 DEF LInv, Order, NoWorker
    <3> QED
      BY <3>1, <3>2 DEF Order
  <2>9. Work'
    BY WorkFrame DEF LInv
  <2> QED
    BY <2>4, <2>5, <2>6, <2>7, <2>8, <2>9 DEF LInv
<1> QED
  BY <1>2, <1>3, <1>4

-----------------------------------------------------------------------------
(* The worker thread.                                                      *)

(* What the worker side holds was there before, or is a panic's result.    *)
LEMMA WorkerFrame ==
  ASSUME TypeOK, Line, Known,
         UNCHANGED <<pending, busy, dispatched, dispatched_gui, loaded, newest_gui, generation,
                     model>>,
         \A j : WorkerSide(j)' =>
           \/ j.generation = 0
           \/ \E k : WorkerSide(k) /\ k.generation = j.generation /\ k.origin = j.origin
  PROVE  Line' /\ Known'
<1>1. generation \in Nat /\ dispatched \in Nat
  BY Numbers
<1>2. Allocated'
  BY <1>1 DEF Line, Allocated
<1>3. ASSUME NEW n \in 1 .. Len(pending) PROVE Waiting(n)'
  <2>1. Waiting(n) /\ pending[n].generation \in Nat
    BY PendingTypes DEF Line
  <2>2. 0 < pending[n].generation
    BY <1>1, <2>1 DEF Waiting
  <2> QED
    BY <2>1, <2>2 DEF Waiting
<1>4. Known'
  BY <1>1 DEF Known
<1> QED
  BY <1>2, <1>3, <1>4 DEF Line

LEMMA ReceiveHolds ==
  ASSUME LInv, Receive
  PROVE  LInv'
<1> USE DEF Receive
<1>1. UNCHANGED <<issued, ui_dialog_open, picker, dialog, ingress, pending, busy, dispatched,
                  dispatched_gui, ui_loading, slot, reporting, panics, generation, model,
                  loaded, answers, newest_gui, changes, tick, callback, loader>>
  BY DEF guiVars, loadVars, identityVars
<1>2. channel \in Seq(Job) /\ channel # << >> /\ None \notin Job
  BY LoaderAssumption DEF LInv, TypeOK
<1>3. /\ channel' \in Seq(Job) /\ Len(channel') = Len(channel) - 1 /\ Len(channel) >= 1
      /\ \A n \in 1 .. Len(channel') : channel'[n] = channel[n + 1]
      /\ working' = channel[1] /\ working' \in Job /\ working' # None
  BY <1>2
<1>4. TypeOK'
  BY <1>1, <1>3 DEF LInv, TypeOK
<1>5. Homes'
  <2>1. \A p, n, i : At(p, n, i)' =>
          \/ p = "channel" /\ n \in Nat /\ n >= 1 /\ At("channel", n + 1, i)
          \/ p = "working" /\ n = 1 /\ At("channel", 1, i)
          \/ p \notin {"channel", "working"} /\ At(p, n, i)
    BY <1>1, <1>2, <1>3 DEF At
  <2>2. Once'
    BY <2>1 DEF LInv, Homes, Once
  <2>3. Open'
    BY <1>1, <2>1 DEF LInv, Homes, Open
  <2> QED
    BY <2>2, <2>3 DEF Homes
<1>6. Picks' /\ Budget'
  BY <1>1 DEF LInv, Picks, Budget, Claims, PickerCost, DialogCost
<1>7. Order'
  <2>1. \A j : WorkerSide(j)' => WorkerSide(j)
    BY <1>1, <1>2, <1>3 DEF WorkerSide
  <2>2. Line' /\ Known'
    BY <1>1, <2>1, WorkerFrame DEF LInv, Order
  <2>3. NoWorker'
    BY <1>1 DEF LInv, Order, NoWorker
  <2> QED
    BY <2>2, <2>3 DEF Order
<1>8. Work'
  BY <1>1, <1>2, <1>3
     DEF LInv, Work, Quiet, OneJobAtATime, Outstanding, SpinnerCoversLoads
<1> QED
  BY <1>4, <1>5, <1>6, <1>7, <1>8 DEF LInv

LEMMA PublishResultHolds ==
  ASSUME LInv, PublishResult
  PROVE  LInv'
<1> USE DEF PublishResult
<1>1. UNCHANGED <<issued, ui_dialog_open, picker, dialog, ingress, pending, busy, dispatched,
                  dispatched_gui, ui_loading, channel, reporting, panics, generation, model,
                  loaded, answers, newest_gui, changes, tick, loader>>
  BY DEF guiVars, loadVars, identityVars
<1>2. working \in Job /\ working # None /\ None \notin PreparedModelResult
  BY LoaderAssumption DEF LInv, TypeOK
<1>3. /\ slot' \in PreparedModelResult /\ slot' # None /\ slot'.id = working.id
      /\ slot'.origin = working.origin /\ slot'.generation = working.generation
      /\ working' = None
  BY <1>2 DEF Job, PreparedModelResult
<1>4. TypeOK'
  BY <1>1, <1>3 DEF LInv, TypeOK
<1>5. Homes'
  <2>1. \A p, n, i : At(p, n, i)' =>
          \/ p = "slot" /\ n = 1 /\ At("working", 1, i)
          \/ p \notin {"slot", "working"} /\ At(p, n, i)
    BY <1>1, <1>2, <1>3 DEF At
  <2>2. Once'
    BY <2>1 DEF LInv, Homes, Once
  <2>3. Open'
    BY <1>1, <2>1 DEF LInv, Homes, Open
  <2> QED
    BY <2>2, <2>3 DEF Homes
<1>6. Picks' /\ Budget'
  BY <1>1 DEF LInv, Picks, Budget, Claims, PickerCost, DialogCost
<1>7. Order'
  <2>1. WorkerSide(working)
    BY <1>2 DEF WorkerSide
  <2>2. \A j : WorkerSide(j)' => WorkerSide(j) \/ j = slot'
    BY <1>1, <1>3 DEF WorkerSide
  <2>3. Line' /\ Known'
    BY <1>1, <1>3, <2>1, <2>2, WorkerFrame DEF LInv, Order
  <2>4. NoWorker'
    BY <1>1, <1>2 DEF LInv, Order, NoWorker
  <2> QED
    BY <2>3, <2>4 DEF Order
<1>8. Work'
  <2>1. Len(channel) \in Nat
    BY Numbers DEF LInv
  <2> QED
    BY <1>1, <1>2, <1>3, <2>1
       DEF LInv, Work, Quiet, OneJobAtATime, Outstanding, SpinnerCoversLoads
<1> QED
  BY <1>4, <1>5, <1>6, <1>7, <1>8 DEF LInv

LEMMA PanicInPollHolds ==
  ASSUME LInv, PanicInPoll
  PROVE  LInv'
<1> USE DEF PanicInPoll
<1>1. UNCHANGED <<issued, ui_dialog_open, picker, dialog, ingress, pending, busy, dispatched,
                  dispatched_gui, ui_loading, channel, working, generation, model,
                  loaded, answers, newest_gui, changes, tick, callback, loader>>
  BY DEF guiVars, loadVars, identityVars
<1>2. /\ slot' \in PreparedModelResult /\ slot'.origin = "gui" /\ slot'.generation = 0
  BY LoaderAssumption DEF PreparedModelResult, Origin, Generation
<1>3. /\ issued \in Nat /\ changes \in Nat /\ panics \in Nat /\ MaxOps \in Nat
      /\ issued + changes + panics < MaxOps /\ panics < MaxPanics /\ MaxPanics \in Nat
  BY Numbers DEF LInv, MayGoOn
<1>4. panics' = panics + 1 /\ panics' \in 0 .. MaxPanics /\ panics' # 0
  BY <1>3
<1>5. TypeOK'
  BY <1>1, <1>2, <1>4 DEF LInv, TypeOK
<1>6. Homes'
  <2>1. \A p, n, i : At(p, n, i)' => At(p, n, i)
    BY <1>1, <1>2 DEF At
  <2>2. Once'
    BY <2>1 DEF LInv, Homes, Once
  <2>3. Open'
    BY <1>1, <2>1 DEF LInv, Homes, Open
  <2> QED
    BY <2>2, <2>3 DEF Homes
<1>7. Picks' /\ Budget'
  <2>1. Picks'
    BY <1>1 DEF LInv, Picks
  <2>2. Claims' = Claims
    BY <1>1 DEF Claims, PickerCost, DialogCost
  <2>3. issued' + changes' + panics' <= MaxOps
    BY <1>1, <1>3, <1>4
  <2> QED
    BY <1>1, <2>1, <2>2, <2>3 DEF LInv, Budget
<1>8. Order'
  <2>1. \A j : WorkerSide(j)' => WorkerSide(j) \/ j.generation = 0
    BY <1>1, <1>2 DEF WorkerSide
  <2>2. Line' /\ Known'
    BY <1>1, <2>1, WorkerFrame DEF LInv, Order
  <2>3. NoWorker'
    BY <1>1 DEF LInv, Order, NoWorker
  <2> QED
    BY <2>2, <2>3 DEF Order
<1>9. Work'
  BY <1>4 DEF Work, Quiet, OneJobAtATime, SpinnerCoversLoads
<1> QED
  BY <1>5, <1>6, <1>7, <1>8, <1>9 DEF LInv

LEMMA ReportPanicHolds ==
  ASSUME LInv, ReportPanic
  PROVE  LInv'
<1> USE DEF ReportPanic
<1>1. UNCHANGED <<issued, ui_dialog_open, picker, dialog, ingress, pending, busy, dispatched,
                  dispatched_gui, channel, working, slot, panics, generation, model,
                  loaded, answers, newest_gui, changes, tick, loader>>
  BY DEF guiVars, identityVars
<1>2. panics' # 0
  BY <1>1 DEF LInv, Work, Quiet
<1>3. TypeOK'
  BY <1>1 DEF LInv, TypeOK
<1>4. Homes'
  BY <1>1, HomesFrame, Numbers DEF LInv
<1>5. Picks' /\ Budget'
  BY <1>1 DEF LInv, Picks, Budget, Claims, PickerCost, DialogCost
<1>6. Order'
  <2>1. Line' /\ Known'
    BY <1>1, OrderKept DEF LInv, Order
  <2>2. NoWorker'
    BY <1>1 DEF LInv, Order, NoWorker
  <2> QED
    BY <2>1, <2>2 DEF Order
<1>7. Work'
  BY <1>2 DEF Work, Quiet, OneJobAtATime, SpinnerCoversLoads
<1> QED
  BY <1>3, <1>4, <1>5, <1>6, <1>7 DEF LInv

-----------------------------------------------------------------------------
(* housekeeping(): poll and dispatch.                                      *)

(* An answer goes to a preset request that is underway, hence to one that  *)
(* has none yet.                                                           *)
LEMMA AnswerTypes ==
  ASSUME TypeOK, Homes, NEW r, r.origin = "preset" => \E p, n : At(p, n, r.id)
  PROVE  /\ AnswerTo(r) \in [Id -> 0 .. 1]
         /\ \A i \in Id : ~(r.origin = "preset" /\ i = r.id) => AnswerTo(r)[i] = answers[i]
<1>1. answers \in [Id -> 0 .. 1] /\ issued \in 0 .. MaxOps /\ MaxOps \in Nat
  BY LoaderAssumption DEF TypeOK
<1>2. CASE r.origin = "preset"
  <2>1. r.id \in 1 .. issued /\ answers[r.id] = 0
    BY <1>2 DEF Homes, Open
  <2>2. r.id \in Id
    BY <1>1, <2>1 DEF Id
  <2>3. AnswerTo(r) = [answers EXCEPT ![r.id] = 1]
    BY <1>2, <2>1 DEF AnswerTo
  <2> QED
    BY <1>1, <1>2, <2>2, <2>3
<1>3. CASE r.origin # "preset"
  BY <1>1, <1>3 DEF AnswerTo
<1> QED
  BY <1>2, <1>3

(* The main thread empties the slot; the rest of the worker side stays.    *)
LEMMA PollHolds ==
  ASSUME LInv, Poll
  PROVE  LInv'
<1> USE DEF Poll
<1>1. UNCHANGED <<issued, ui_dialog_open, picker, dialog, ingress, pending, channel, working,
                  reporting, panics, generation, newest_gui, changes, callback, loader>>
  BY DEF guiVars
<1>2. Picks' /\ Budget'
  BY <1>1 DEF LInv, Picks, Budget, Claims, PickerCost, DialogCost
<1>3. CASE slot = None
  <2>1. UNCHANGED <<slot, busy, dispatched, dispatched_gui, ui_loading, model, loaded, answers>>
    BY <1>3
  <2>2. TypeOK'
    BY <1>1, <2>1 DEF LInv, TypeOK
  <2>3. Homes'
    BY <1>1, <2>1, HomesFrame, Numbers DEF LInv
  <2>4. Order'
    <3>1. Line' /\ Known'
      BY <1>1, <2>1, OrderKept DEF LInv, Order
    <3>2. NoWorker'
      BY <1>1, <2>1 DEF LInv, Order, NoWorker
    <3> QED
      BY <3>1, <3>2 DEF Order
  <2>5. Work'
    BY <1>1, <2>1, WorkFrame DEF LInv, loadVars, workerVars
  <2> QED
    BY <1>2, <2>2, <2>3, <2>4, <2>5 DEF LInv
<1>4. CASE slot # None
  <2>1. slot' = None /\ busy' = FALSE /\ dispatched' = 0 /\ dispatched_gui' = FALSE
    BY <1>4
  <2>2. WorkerSide(slot) /\ slot \in PreparedModelResult /\ slot.generation \in Generation
    BY <1>4, WorkerSideTypes DEF LInv, TypeOK, WorkerSide
  <2>3. /\ \/ UNCHANGED <<ui_loading, model, loaded, answers>>
           \/ /\ ui_loading' = (pending # << >>)
              /\ answers' = AnswerTo(slot)
              /\ model' \in {model, slot.generation}
              /\ loaded' \in {loaded, slot.generation}
    BY <1>4 DEF Commit, StillLoading
  <2>4. /\ AnswerTo(slot) \in [Id -> 0 .. 1]
        /\ \A i \in Id : ~(slot.origin = "preset" /\ i = slot.id)
                           => AnswerTo(slot)[i] = answers[i]
    <3>1. slot.origin = "preset" => At("slot", 1, slot.id)
      BY <1>4 DEF At
    <3> QED
      BY <3>1, AnswerTypes DEF LInv
  <2>5. TypeOK'
    <3>1. answers' \in [Id -> 0 .. 1] /\ ui_loading' \in BOOLEAN
      BY <2>3, <2>4 DEF LInv, TypeOK
    <3>2. {dispatched', model', loaded'} \subseteq Generation
      <4>1. 0 \in Generation
        BY LoaderAssumption DEF Generation
      <4>2. model \in Generation /\ loaded \in Generation
        BY DEF LInv, TypeOK
      <4> QED
        BY <2>1, <2>2, <2>3, <4>1, <4>2
    <3> QED
      BY <1>1, <2>1, <3>1, <3>2 DEF LInv, TypeOK
  <2>6. Homes'
    <3>1. \A p, n, i : At(p, n, i)' => p # "slot" /\ At(p, n, i)
      BY <1>1, <2>1 DEF At
    <3>2. Once'
      BY <3>1 DEF LInv, Homes, Once
    <3>3. \A i \in Id : (slot.origin = "preset" /\ i = slot.id) \/ answers'[i] = answers[i]
      BY <2>3, <2>4
    <3>4. slot.origin = "preset" => At("slot", 1, slot.id)
      BY <1>4 DEF At
    <3>5. \A p, n, i : At(p, n, i) /\ p # "slot" => ~(slot.origin = "preset" /\ i = slot.id)
      BY <3>4 DEF LInv, Homes, Once
    <3>6. issued \in Nat /\ MaxOps \in Nat /\ issued <= MaxOps
      BY Numbers DEF LInv, TypeOK
    <3>7. \A p, n, i : At(p, n, i) => i \in 1 .. issued /\ i \in Id /\ answers[i] = 0
      BY <3>6 DEF LInv, Homes, Open, Id
    <3>8. \A i \in Id : i > issued => answers'[i] = 0
      <4> SUFFICES ASSUME NEW i \in Id, i > issued PROVE answers'[i] = 0
        OBVIOUS
      <4>1. ~(slot.origin = "preset" /\ i = slot.id)
        BY <3>4, <3>6, <3>7
      <4> QED
        BY <3>3, <4>1 DEF LInv, Homes, Open
    <3>9. \A p, n, i : At(p, n, i)' => i \in 1 .. issued /\ answers'[i] = 0
      BY <3>1, <3>3, <3>5, <3>7
    <3> QED
      BY <1>1, <3>2, <3>8, <3>9 DEF Homes, Open
  <2>7. Order'
    <3>1. /\ generation \in Nat /\ dispatched \in Nat /\ loaded \in Nat /\ model \in Nat
          /\ slot.generation \in Nat /\ slot.generation <= generation
      BY <2>2, Numbers, WorkerSideTypes DEF LInv, Order, Line, Allocated
    <3>2. \A j : WorkerSide(j)' => WorkerSide(j)
      BY <1>1, <2>1 DEF WorkerSide
    <3>3. Allocated'
      BY <1>1, <2>3, <3>1, <3>2 DEF LInv, Order, Line, Allocated
    <3>4. ASSUME NEW n \in 1 .. Len(pending) PROVE Waiting(n)'
      <4>1. Waiting(n) /\ pending[n].generation \in Nat
        BY PendingTypes DEF LInv, Order, Line
      <4>2. pending[n].generation > slot.generation /\ pending[n].generation > 0
        BY <2>2, <3>1, <4>1 DEF Waiting
      <4>3. pending[n].generation > loaded'
        BY <2>3, <4>1, <4>2 DEF Waiting
      <4> QED
        BY <1>1, <2>1, <3>2, <4>1, <4>2, <4>3 DEF Waiting
    <3>5. Known'
      BY <2>1 DEF Known
    <3>6. NoWorker'
      BY <1>1, <2>1 DEF LInv, Order, NoWorker
    <3> QED
      BY <1>1, <3>3, <3>4, <3>5, <3>6 DEF Order, Line
  <2>8. Work'
    <3>1. Quiet'
      BY <1>1 DEF LInv, Work, Quiet
    <3>2. OneJobAtATime'
      <4>1. Len(channel) \in Nat
        BY Numbers DEF LInv
      <4> QED
        BY <1>1, <1>4, <2>1, <4>1 DEF LInv, Work, OneJobAtATime, Outstanding
    <3>3. SpinnerCoversLoads'
      BY <1>1, <2>1, <2>3 DEF LInv, Work, SpinnerCoversLoads
    <3> QED
      BY <3>1, <3>2, <3>3 DEF Work
  <2> QED
    BY <1>2, <2>5, <2>6, <2>7, <2>8 DEF LInv
<1> QED
  BY <1>3, <1>4

(* The queue moves up when its first load leaves it.                       *)
LEMMA QueueMovesUp ==
  ASSUME TypeOK, pending # << >>, pending' = Tail(pending)
  PROVE  /\ pending' \in Seq(Job) /\ Len(pending') = Len(pending) - 1 /\ Len(pending) >= 1
         /\ \A n \in 1 .. Len(pending') : pending'[n] = pending[n + 1]
         /\ Head(pending) = pending[1] /\ pending[1] \in Job
BY DEF TypeOK

(* The oldest load goes to a worker that has none.                         *)
LEMMA DispatchToWorkerHolds ==
  ASSUME LInv, Dispatch, MayDispatch, pending' = Tail(pending), DispatchToWorker
  PROVE  LInv'
<1> DEFINE job == pending[1]
<1>1. UNCHANGED <<issued, ui_dialog_open, picker, dialog, ingress, ui_loading, working, slot,
                  reporting, panics, generation, model, loaded, answers, newest_gui, changes,
                  callback>>
  BY DEF Dispatch, DispatchToWorker, guiVars
<1>2. /\ pending' \in Seq(Job) /\ Len(pending') = Len(pending) - 1 /\ Len(pending) >= 1
      /\ \A n \in 1 .. Len(pending') : pending'[n] = pending[n + 1]
      /\ Head(pending) = job /\ job \in Job
  BY QueueMovesUp DEF LInv, MayDispatch
<1>3. /\ channel' = Append(channel, job) /\ busy' = TRUE /\ dispatched' = job.generation
      /\ dispatched_gui' = (job.origin = "gui") /\ loader' = TRUE
      /\ ~busy /\ pending # << >> /\ tick' = "idle"
  BY <1>2 DEF Dispatch, DispatchToWorker, MayDispatch
<1>4. channel \in Seq(Job) /\ Len(channel) \in Nat /\ Len(pending) \in Nat
  BY Numbers DEF LInv, TypeOK
<1> HIDE DEF job
<1>5. /\ channel' \in Seq(Job) /\ Len(channel') = Len(channel) + 1
      /\ \A n \in 1 .. Len(channel) : channel'[n] = channel[n]
      /\ channel'[Len(channel) + 1] = job
  BY <1>2, <1>3, <1>4
<1>6. TypeOK'
  <2>1. job.generation \in Generation
    BY <1>2 DEF Job
  <2>2. Len(pending') <= MaxPending
    BY <1>2, <1>4, Numbers DEF LInv, TypeOK
  <2> QED
    BY <1>1, <1>2, <1>3, <1>5, <2>1, <2>2 DEF LInv, TypeOK
<1>7. Homes'
  <2>1. \A p, n, i : At(p, n, i)' =>
          \/ p = "channel" /\ n = Len(channel) + 1 /\ At("pending", 1, i)
          \/ p = "pending" /\ n \in Nat /\ n >= 1 /\ At("pending", n + 1, i)
          \/ p # "pending" /\ At(p, n, i) /\ (p = "channel" => n \in 1 .. Len(channel))
    BY <1>1, <1>2, <1>4, <1>5 DEF At, job
  <2>2. Once'
    BY <1>4, <2>1 DEF LInv, Homes, Once
  <2>3. Open'
    BY <1>1, <2>1 DEF LInv, Homes, Open
  <2> QED
    BY <2>2, <2>3 DEF Homes
<1>8. Picks' /\ Budget'
  <2>1. Picks'
    BY <1>1 DEF LInv, Picks
  <2>2. generation \in Nat /\ Len(ingress) \in Nat
    BY Numbers DEF LInv
  <2>3. PickerCost' = PickerCost /\ DialogCost' = DialogCost
    BY <1>1 DEF PickerCost, DialogCost
  <2>4. Claims' \in Int /\ Claims' <= Claims
    BY <1>1, <1>2, <1>4, <2>2, <2>3, CostTypes DEF Claims
  <2> QED
    BY <1>1, <2>1, <2>4, BudgetFrame DEF LInv
<1>9. Order'
  <2>1. Waiting(1) /\ job.generation \in Nat
    BY <1>2, <1>4, PendingTypes DEF LInv, Order, Line, job
  <2>2. \A j : WorkerSide(j)' => WorkerSide(j) \/ j = job
    BY <1>1, <1>4, <1>5 DEF WorkerSide
  <2>3. generation \in Nat /\ loaded \in Nat
    BY Numbers DEF LInv
  <2>4. job.generation <= generation /\ job.generation > loaded
    BY <2>1 DEF Waiting, job
  <2>5. Allocated'
    BY <1>1, <2>2, <2>4 DEF LInv, Order, Line, Allocated
  <2>6. ASSUME NEW n \in 1 .. Len(pending') PROVE Waiting(n)'
    <3>1. /\ n + 1 \in 1 .. Len(pending) /\ pending'[n] = pending[n + 1] /\ 1 < n + 1
          /\ \A m \in 1 .. Len(pending') :
               m + 1 \in 1 .. Len(pending) /\ pending'[m] = pending[m + 1]
                 /\ (n < m => n + 1 < m + 1)
      BY <1>2, <1>4
    <3>2. Waiting(n + 1)
      BY <3>1 DEF LInv, Order, Line
    <3>3. job.generation < pending[n + 1].generation
      BY <2>1, <3>1 DEF Waiting, job
    <3> QED
      BY <1>1, <1>3, <2>2, <3>1, <3>2, <3>3 DEF Waiting
  <2>7. Known'
    <3>1. \A j : WorkerSide(j) => j.generation # job.generation
      <4> SUFFICES ASSUME NEW j, WorkerSide(j) PROVE j.generation # job.generation
        OBVIOUS
      <4>1. j.generation < job.generation /\ j.generation \in Nat
        BY <2>1, WorkerSideTypes DEF Waiting, job, LInv
      <4> QED
        BY <2>1, <4>1
    <3>2. dispatched_gui' => job.generation = newest_gui
      BY <1>3, <2>1 DEF Waiting, job
    <3> QED
      BY <1>1, <1>3, <2>2, <2>4, <3>1, <3>2 DEF Known
  <2>8. NoWorker'
    BY <1>3 DEF NoWorker
  <2> QED
    BY <2>5, <2>6, <2>7, <2>8 DEF Order, Line
<1>10. Work'
  <2>1. Quiet'
    BY <1>1 DEF LInv, Work, Quiet
  <2>2. OneJobAtATime'
    <3> SUFFICES ASSUME panics' = 0 PROVE Outstanding' = 1
      BY <1>3 DEF OneJobAtATime
    <3>1. Outstanding = 0
      BY <1>1, <1>3 DEF LInv, Work, OneJobAtATime
    <3>2. Len(channel) = 0 /\ working = None /\ slot = None
      <4> DEFINE w == IF working = None THEN 0 ELSE 1
                 s == IF slot = None THEN 0 ELSE 1
      <4>1. Len(channel) + w + s = 0
        BY <3>1 DEF Outstanding
      <4>2. w \in Nat /\ s \in Nat /\ (w = 0 => working = None) /\ (s = 0 => slot = None)
        OBVIOUS
      <4> HIDE DEF w, s
      <4>3. Len(channel) = 0 /\ w = 0 /\ s = 0
        BY <1>4, <4>1, <4>2
      <4> QED
        BY <4>2, <4>3
    <3> QED
      BY <1>1, <1>5, <3>2 DEF Outstanding
  <2>3. SpinnerCoversLoads'
    BY <1>1, <1>3 DEF LInv, Work, SpinnerCoversLoads
  <2> QED
    BY <2>1, <2>2, <2>3 DEF Work
<1> QED
  BY <1>6, <1>7, <1>8, <1>9, <1>10 DEF LInv

(* No worker: the only load in the queue runs here.                        *)
LEMMA LoadSynchronouslyHolds ==
  ASSUME LInv, Dispatch, MayDispatch, pending' = Tail(pending), LoadSynchronously
  PROVE  LInv'
<1> DEFINE job == pending[1]
<1>1. UNCHANGED <<issued, ui_dialog_open, picker, dialog, ingress, channel, working, slot, busy,
                  dispatched, dispatched_gui, reporting, panics, newest_gui, changes, callback,
                  loader>>
  BY DEF Dispatch, LoadSynchronously, guiVars
<1>2. /\ Len(pending) = 1 /\ Len(pending') = 0 /\ pending' \in Seq(Job)
      /\ Head(pending) = job /\ ~loader /\ ~busy
  <2>1. Len(pending) <= 1 /\ Len(pending) \in Nat /\ ~loader
    BY Numbers DEF LInv, Order, NoWorker, LoadSynchronously
  <2> QED
    BY <2>1, QueueMovesUp DEF LInv, MayDispatch
<1>3. /\ ui_loading' = FALSE /\ tick' = "idle" /\ answers' = AnswerTo(job)
      /\ generation' \in {generation, generation + 1}
      /\ model' \in {model, generation'} /\ loaded' \in {loaded, generation'}
  BY <1>2 DEF Dispatch, LoadSynchronously, Commit
<1>4. /\ generation \in Nat /\ generation' \in Nat /\ generation <= generation'
      /\ model \in Nat /\ loaded \in Nat /\ generation' <= generation + 1
      /\ Len(ingress) \in Nat
  <2>1. /\ generation \in Nat /\ model \in Nat /\ loaded \in Nat
        /\ Len(ingress) \in Nat
    BY Numbers DEF LInv
  <2> QED
    BY <1>3, <2>1
<1>5. job.origin = "preset" => At("pending", 1, job.id)
  BY <1>2 DEF At
<1> HIDE DEF job
<1>6. /\ AnswerTo(job) \in [Id -> 0 .. 1]
      /\ \A i \in Id : ~(job.origin = "preset" /\ i = job.id) => AnswerTo(job)[i] = answers[i]
  BY <1>5, AnswerTypes DEF LInv
<1>7. Picks' /\ Budget'
  <2>1. Picks'
    BY <1>1 DEF LInv, Picks
  <2>2. PickerCost' = PickerCost /\ DialogCost' = DialogCost
    BY <1>1 DEF PickerCost, DialogCost
  <2>3. Claims' \in Int /\ Claims' <= Claims
    BY <1>1, <1>2, <1>4, <2>2, CostTypes DEF Claims
  <2> QED
    BY <1>1, <2>1, <2>3, BudgetFrame DEF LInv
<1>8. Allocated'
  <2>1. model <= generation /\ loaded <= generation /\ newest_gui <= generation
    BY DEF LInv, Order, Line, Allocated
  <2>2. model' <= generation' /\ loaded' <= generation' /\ newest_gui' <= generation'
    BY <1>1, <1>3, <1>4, <2>1, Numbers DEF LInv
  <2>3. \A j : WorkerSide(j)' => WorkerSide(j)
    BY <1>1 DEF WorkerSide
  <2>4. \A j : WorkerSide(j) => j.generation <= generation /\ j.generation \in Nat
    BY WorkerSideTypes DEF LInv, Order, Line, Allocated
  <2> QED
    BY <1>4, <2>2, <2>3, <2>4 DEF Allocated
<1>9. TypeOK'
  <2>1. generation' \in Generation
    <3>1. /\ issued' \in Nat /\ changes' \in Nat /\ panics' \in Nat /\ Len(ingress') \in Nat
          /\ Len(pending') \in Nat
      BY <1>1, <1>2, Numbers DEF LInv
    <3> QED
      BY <1>4, <1>7, <3>1, GenerationFits
  <2>2. {model', loaded'} \subseteq Generation
    BY <1>3, <2>1 DEF LInv, TypeOK
  <2>3. Len(pending') <= MaxPending
    <3>1. MaxPending \in Nat /\ MaxPending > 0
      BY Numbers DEF LInv
    <3> QED
      BY <1>2, <3>1
  <2> QED
    BY <1>1, <1>2, <1>3, <1>6, <2>1, <2>2, <2>3 DEF LInv, TypeOK
<1>10. Homes'
  <2>1. \A p, n, i : At(p, n, i)' => p # "pending" /\ At(p, n, i)
    BY <1>1, <1>2 DEF At
  <2>2. Once'
    BY <2>1 DEF LInv, Homes, Once
  <2>3. \A i \in Id : (job.origin = "preset" /\ i = job.id) \/ answers'[i] = answers[i]
    BY <1>3, <1>6
  <2>4. \A p, n, i : At(p, n, i) /\ p # "pending" => ~(job.origin = "preset" /\ i = job.id)
    BY <1>5 DEF LInv, Homes, Once
  <2>5. issued \in Nat /\ MaxOps \in Nat /\ issued <= MaxOps
    BY Numbers DEF LInv, TypeOK
  <2>6. \A p, n, i : At(p, n, i) => i \in 1 .. issued /\ i \in Id /\ answers[i] = 0
    BY <2>5 DEF LInv, Homes, Open, Id
  <2>7. \A i \in Id : i > issued => answers'[i] = 0
    <3> SUFFICES ASSUME NEW i \in Id, i > issued PROVE answers'[i] = 0
      OBVIOUS
    <3>1. ~(job.origin = "preset" /\ i = job.id)
      BY <1>5, <2>5, <2>6
    <3> QED
      BY <2>3, <3>1 DEF LInv, Homes, Open
  <2>8. \A p, n, i : At(p, n, i)' => i \in 1 .. issued /\ answers'[i] = 0
    BY <2>1, <2>3, <2>4, <2>6
  <2> QED
    BY <1>1, <2>2, <2>7, <2>8 DEF Homes, Open
<1>11. Order'
  <2>1. dispatched' = 0
    BY <1>1, <1>2 DEF LInv, Order, Known
  <2>2. pending' = << >>
    BY <1>2
  <2>3. Known' /\ NoWorker'
    <3>1. Known'
      BY <2>1 DEF Known
    <3>2. NoWorker'
      <4>1. Len(pending') <= 1
        BY <1>2
      <4>2. channel' = << >> /\ working' = None /\ ~busy'
        BY <1>1, <1>2 DEF LInv, Order, NoWorker
      <4> QED
        BY <2>2, <4>1, <4>2 DEF NoWorker
    <3> QED
      BY <3>1, <3>2
  <2>4. \A n \in 1 .. Len(pending') : Waiting(n)'
    BY <1>2
  <2> QED
    BY <1>8, <2>3, <2>4 DEF Order, Line
<1>12. Work'
  <2>1. pending' = << >>
    BY <1>2
  <2> QED
    BY <1>1, <1>2, <2>1 DEF LInv, Work, Quiet, OneJobAtATime, Outstanding, SpinnerCoversLoads
<1> QED
  BY <1>7, <1>9, <1>10, <1>11, <1>12 DEF LInv

LEMMA DispatchHolds ==
  ASSUME LInv, Dispatch
  PROVE  LInv'
<1>1. CASE ~MayDispatch
  <2>1. UNCHANGED <<issued, ui_dialog_open, picker, dialog, ingress, pending, channel, busy,
                    dispatched, dispatched_gui, ui_loading, working, slot, reporting, panics,
                    generation, model, loaded, answers, newest_gui, changes, callback, loader>>
    BY <1>1 DEF Dispatch, guiVars
  <2>2. TypeOK'
    BY <2>1 DEF LInv, TypeOK, Dispatch
  <2>3. Homes'
    BY <2>1, HomesFrame, Numbers DEF LInv
  <2>4. Picks' /\ Budget'
    BY <2>1 DEF LInv, Picks, Budget, Claims, PickerCost, DialogCost
  <2>5. Order'
    <3>1. Line' /\ Known'
      BY <2>1, OrderKept DEF LInv, Order
    <3>2. NoWorker'
      BY <1>1, <2>1 DEF LInv, Order, NoWorker, MayDispatch
    <3> QED
      BY <3>1, <3>2 DEF Order
  <2>6. Work'
    BY <2>1, WorkFrame DEF LInv, loadVars, workerVars
  <2> QED
    BY <2>2, <2>3, <2>4, <2>5, <2>6 DEF LInv
<1>2. CASE MayDispatch
  <2>1. pending' = Tail(pending) /\ (DispatchToWorker \/ LoadSynchronously)
    BY <1>2 DEF Dispatch
  <2> QED
    BY <1>2, <2>1, DispatchToWorkerHolds, LoadSynchronouslyHolds
<1> QED
  BY <1>1, <1>2

-----------------------------------------------------------------------------
(* housekeeping(): accept.                                                 *)

(* Every member of part is one of jobs; their order is kept.               *)
Picked(part, jobs, to) ==
  /\ to \in [1 .. Len(part) -> 1 .. Len(jobs)]
  /\ \A n \in 1 .. Len(part) : part[n] = jobs[to[n]]
  /\ \A n, m \in 1 .. Len(part) : n < m => to[n] < to[m]

(* A request leaves a part of the queue, and of the GUI's jobs none.       *)
LEMMA KeptIsPicked ==
  ASSUME TypeOK, NEW r
  PROVE  LET kept == SupersededBy(r)
         IN  /\ kept \in Seq(Job) /\ Len(kept) <= Len(pending)
             /\ \E to : Picked(kept, pending, to)
             /\ r.origin = "gui" => \A n \in 1 .. Len(kept) : kept[n].origin # "gui"
<1>1. pending \in Seq(Job) /\ Len(pending) \in Nat
  BY Numbers DEF TypeOK
<1>2. CASE r.origin = "gui"
  <2>1. SupersededBy(r) = WithoutGui(pending)
    BY <1>2 DEF SupersededBy
  <2>2. Embeds(WithoutGui(pending), pending, Len(pending))
    BY <1>1, WithoutGuiEmbeds
  <2> QED
    BY <2>1, <2>2 DEF Embeds, Picked
<1>3. CASE r.origin # "gui"
  <2>1. SupersededBy(r) = pending
    BY <1>3 DEF SupersededBy
  <2> DEFINE to == [n \in 1 .. Len(pending) |-> n]
  <2>2. Picked(pending, pending, to)
    BY DEF Picked
  <2> HIDE DEF to
  <2> QED
    BY <1>1, <1>3, <2>1, <2>2
<1> QED
  BY <1>2, <1>3

(* What is left of the queue when an overfull one has given up its oldest  *)
(* load, and which load that was.                                          *)
Rest(kept) == IF Overfull(kept) THEN Tail(kept) ELSE kept

LEMMA RestIsPicked ==
  ASSUME TypeOK, NEW kept \in Seq(Job), Len(kept) <= Len(pending),
         NEW at, Picked(kept, pending, at)
  PROVE  /\ Rest(kept) \in Seq(Job) /\ Len(Rest(kept)) <= Len(kept)
         /\ Len(Rest(kept)) < MaxPending
         /\ \A n \in 1 .. Len(Rest(kept)) : \E m \in 1 .. Len(kept) : Rest(kept)[n] = kept[m]
         /\ \E to :
              /\ Picked(Rest(kept), pending, to)
              /\ Overfull(kept) =>
                   \E e \in 1 .. Len(pending) :
                     /\ Head(kept) = pending[e]
                     /\ \A n \in 1 .. Len(Rest(kept)) : to[n] # e
<1>1. /\ Len(kept) \in Nat /\ MaxPending \in Nat /\ MaxPending > 0 /\ Len(pending) \in Nat
      /\ Len(pending) <= MaxPending
  BY Numbers DEF TypeOK
<1>2. CASE ~Overfull(kept)
  <2>1. Rest(kept) = kept /\ Len(kept) < MaxPending
    BY <1>1, <1>2 DEF Rest, Overfull
  <2> QED
    BY <1>1, <1>2, <2>1
<1>3. CASE Overfull(kept)
  <2> DEFINE rest == Tail(kept)
             to == [n \in 1 .. Len(rest) |-> at[n + 1]]
  <2>1. Rest(kept) = rest /\ Len(kept) >= 1 /\ kept # << >>
    BY <1>1, <1>3 DEF Rest, Overfull
  <2>2. /\ rest \in Seq(Job) /\ Len(rest) = Len(kept) - 1 /\ Head(kept) = kept[1]
        /\ \A n \in 1 .. Len(rest) : rest[n] = kept[n + 1]
    BY <2>1
  <2> HIDE DEF rest
  <2>3. \A n \in 1 .. Len(rest) : n + 1 \in 1 .. Len(kept) /\ 1 < n + 1 /\ to[n] = at[n + 1]
    BY <1>1, <2>2
  <2>4. /\ at \in [1 .. Len(kept) -> 1 .. Len(pending)]
        /\ \A n \in 1 .. Len(kept) : kept[n] = pending[at[n]]
        /\ \A n, m \in 1 .. Len(kept) : n < m => at[n] < at[m]
    BY DEF Picked
  <2>5. Picked(rest, pending, to)
    <3>1. to \in [1 .. Len(rest) -> 1 .. Len(pending)]
      BY <2>3, <2>4
    <3>2. \A n \in 1 .. Len(rest) : rest[n] = pending[to[n]]
      BY <2>2, <2>3, <2>4
    <3>3. \A n, m \in 1 .. Len(rest) : n < m => to[n] < to[m]
      <4> SUFFICES ASSUME NEW n \in 1 .. Len(rest), NEW m \in 1 .. Len(rest), n < m
                   PROVE  to[n] < to[m]
        OBVIOUS
      <4>1. n + 1 < m + 1
        OBVIOUS
      <4> HIDE DEF to
      <4> QED
        BY <2>3, <2>4, <4>1
    <3> QED
      BY <3>1, <3>2, <3>3 DEF Picked
  <2>6. /\ at[1] \in 1 .. Len(pending) /\ Head(kept) = pending[at[1]]
        /\ \A n \in 1 .. Len(rest) : to[n] # at[1]
    <3>1. 1 \in 1 .. Len(kept)
      BY <1>1, <2>1
    <3>2. at[1] \in 1 .. Len(pending) /\ Head(kept) = pending[at[1]]
      BY <2>2, <2>4, <3>1
    <3>3. ASSUME NEW n \in 1 .. Len(rest) PROVE to[n] # at[1]
      <4>1. to[n] = at[n + 1] /\ at[1] < at[n + 1] /\ at[n + 1] \in 1 .. Len(pending)
        BY <2>3, <2>4, <3>1
      <4> HIDE DEF to
      <4> QED
        BY <3>2, <4>1
    <3> QED
      BY <3>2, <3>3
  <2> HIDE DEF to
  <2>7. Len(rest) < MaxPending /\ Len(rest) <= Len(kept)
    BY <1>1, <2>2
  <2>8. \A n \in 1 .. Len(rest) : \E m \in 1 .. Len(kept) : rest[n] = kept[m]
    BY <2>2, <2>3
  <2> QED
    BY <2>1, <2>2, <2>5, <2>6, <2>7, <2>8
<1> QED
  BY <1>2, <1>3

(* The request leaves the ingress queue.                                   *)
LEMMA IngressMovesUp ==
  ASSUME TypeOK, ingress # << >>, ingress' = Tail(ingress)
  PROVE  /\ ingress' \in Seq(Request) /\ Len(ingress') = Len(ingress) - 1 /\ Len(ingress) >= 1
         /\ \A n \in 1 .. Len(ingress') : ingress'[n] = ingress[n + 1]
         /\ Head(ingress) = ingress[1] /\ ingress[1] \in Request
BY DEF TypeOK

(* A cancelled picker leaves the queue alone.                              *)
LEMMA AcceptSentinelHolds ==
  ASSUME LInv, Accept, ingress # << >>, AcceptSentinel
  PROVE  LInv'
<1>1. UNCHANGED <<issued, picker, dialog, pending, channel, working, slot, busy, dispatched,
                  dispatched_gui, reporting, panics, generation, model, loaded, answers,
                  newest_gui, changes, loader>>
  BY DEF Accept, AcceptSentinel, workerVars
<1>2. /\ ingress' = Tail(ingress) /\ ui_dialog_open' = FALSE
      /\ ui_loading' = (ui_loading /\ (busy \/ pending # << >>))
      /\ tick = "accept" /\ tick' = "poll"
  BY DEF Accept, AcceptSentinel, SpinnerStillNeeded
<1>3. /\ ingress' \in Seq(Request) /\ Len(ingress') = Len(ingress) - 1 /\ Len(ingress) >= 1
      /\ \A n \in 1 .. Len(ingress') : ingress'[n] = ingress[n + 1]
  BY <1>2, IngressMovesUp DEF LInv
<1>4. /\ Len(ingress) \in Nat /\ Len(pending) \in Nat /\ generation \in Nat
      /\ MaxPending \in Nat /\ Len(ingress) <= MaxPending
  BY Numbers DEF LInv, TypeOK
<1>5. TypeOK'
  <2>1. callback' \in BOOLEAN
    BY DEF Accept, LInv, TypeOK
  <2>2. ui_loading' \in BOOLEAN
    BY <1>2
  <2>3. Len(ingress') <= MaxPending
    BY <1>3, <1>4
  <2> QED
    BY <1>1, <1>2, <1>3, <2>1, <2>2, <2>3 DEF LInv, TypeOK
<1>6. Homes'
  <2>1. \A p, n, i : At(p, n, i)' =>
          \/ p = "ingress" /\ n \in Nat /\ At("ingress", n + 1, i)
          \/ p # "ingress" /\ At(p, n, i)
    BY <1>1, <1>3, <1>4 DEF At
  <2>2. Once'
    BY <2>1 DEF LInv, Homes, Once
  <2>3. Open'
    BY <1>1, <2>1 DEF LInv, Homes, Open
  <2> QED
    BY <2>2, <2>3 DEF Homes
<1>7. Picks' /\ Budget'
  <2>1. Picks'
    BY <1>1 DEF LInv, Picks
  <2>2. PickerCost' = PickerCost /\ DialogCost' = DialogCost
    BY <1>1 DEF PickerCost, DialogCost
  <2>3. Claims' \in Int /\ Claims' <= Claims
    BY <1>1, <1>3, <1>4, <2>2, CostTypes DEF Claims
  <2> QED
    BY <1>1, <2>1, <2>3, BudgetFrame DEF LInv
<1>8. Order'
  <2>1. Line' /\ Known'
    BY <1>1, OrderKept DEF LInv, Order
  <2>2. NoWorker'
    BY <1>1, <1>2 DEF LInv, Order, NoWorker
  <2> QED
    BY <2>1, <2>2 DEF Order
<1>9. Work'
  BY <1>1, <1>2 DEF LInv, Work, Quiet, OneJobAtATime, Outstanding, SpinnerCoversLoads
<1> QED
  BY <1>5, <1>6, <1>7, <1>8, <1>9 DEF LInv

(* The request takes the newest generation and the end of what is left.    *)
LEMMA AcceptRealHolds ==
  ASSUME LInv, Accept, ingress # << >>, AcceptReal(Head(ingress))
  PROVE  LInv'
<1> DEFINE r == ingress[1]
           kept == SupersededBy(r)
           rest == Rest(kept)
           job == [id |-> r.id, origin |-> r.origin, generation |-> generation + 1]
<1>1. UNCHANGED <<issued, picker, dialog, channel, working, slot, busy, dispatched_gui,
                  reporting, panics, model, loaded, changes, loader>>
  BY DEF Accept, workerVars
<1>2. /\ ingress' \in Seq(Request) /\ Len(ingress') = Len(ingress) - 1 /\ Len(ingress) >= 1
      /\ \A n \in 1 .. Len(ingress') : ingress'[n] = ingress[n + 1]
      /\ Head(ingress) = r /\ r \in Request
  BY IngressMovesUp DEF LInv, Accept
<1>3. /\ generation' = generation + 1 /\ ui_loading' = TRUE /\ ui_dialog_open' = FALSE
      /\ dispatched' = IF Disowns(r) THEN 0 ELSE dispatched
      /\ pending' = Append(rest, job)
      /\ answers' = IF Overfull(kept) THEN AnswerTo(Head(kept)) ELSE answers
      /\ newest_gui' = IF r.origin = "gui" THEN generation' ELSE newest_gui
      /\ tick = "accept" /\ tick' = "poll"
  BY <1>2 DEF Accept, AcceptReal, Enqueue, Rest
<1>4. /\ Len(ingress) \in Nat /\ Len(pending) \in Nat /\ generation \in Nat
      /\ MaxPending \in Nat /\ Len(ingress) <= MaxPending /\ dispatched \in Nat
      /\ loaded \in Nat /\ newest_gui \in Nat /\ model \in Nat /\ generation' \in Nat
  <2>1. /\ Len(ingress) \in Nat /\ Len(pending) \in Nat /\ generation \in Nat
        /\ MaxPending \in Nat /\ dispatched \in Nat /\ loaded \in Nat /\ newest_gui \in Nat
        /\ model \in Nat
    BY Numbers DEF LInv
  <2>2. Len(ingress) <= MaxPending
    BY DEF LInv, TypeOK
  <2>3. generation' \in Nat
    BY <1>3, <2>1
  <2> QED
    BY <2>1, <2>2, <2>3
<1>5. /\ kept \in Seq(Job) /\ Len(kept) <= Len(pending)
      /\ \E at : Picked(kept, pending, at)
      /\ r.origin = "gui" => \A n \in 1 .. Len(kept) : kept[n].origin # "gui"
  BY KeptIsPicked DEF LInv
<1> HIDE DEF kept
<1>6. /\ rest \in Seq(Job) /\ Len(rest) <= Len(kept) /\ Len(rest) < MaxPending
      /\ \A n \in 1 .. Len(rest) : \E m \in 1 .. Len(kept) : rest[n] = kept[m]
      /\ \E to :
           /\ Picked(rest, pending, to)
           /\ Overfull(kept) =>
                \E e \in 1 .. Len(pending) :
                  Head(kept) = pending[e] /\ \A n \in 1 .. Len(rest) : to[n] # e
  <2>1. PICK at : Picked(kept, pending, at)
    BY <1>5
  <2> QED
    BY <1>5, <2>1, RestIsPicked DEF LInv
<1> HIDE DEF rest
<1>7. PICK to :
        /\ to \in [1 .. Len(rest) -> 1 .. Len(pending)]
        /\ \A n \in 1 .. Len(rest) : rest[n] = pending[to[n]]
        /\ \A n, m \in 1 .. Len(rest) : n < m => to[n] < to[m]
        /\ Overfull(kept) =>
             \E e \in 1 .. Len(pending) :
               Head(kept) = pending[e] /\ \A n \in 1 .. Len(rest) : to[n] # e
  BY <1>6 DEF Picked
<1>8. Len(rest) \in Nat /\ Len(rest) <= Len(pending)
  BY <1>4, <1>5, <1>6
<1>9. Budget'
  <2>1. PickerCost' = PickerCost /\ DialogCost' = DialogCost
    BY <1>1 DEF PickerCost, DialogCost
  <2>2. Len(pending') = Len(rest) + 1
    BY <1>3, <1>6
  <2>3. Claims' \in Int /\ Claims' <= Claims
    BY <1>2, <1>3, <1>4, <1>8, <2>1, <2>2, CostTypes DEF Claims
  <2> QED
    BY <1>1, <2>3, BudgetFrame DEF LInv
<1>10. generation' \in Generation
  <2>1. /\ issued' \in Nat /\ changes' \in Nat /\ panics' \in Nat /\ Len(ingress') \in Nat
        /\ Len(pending') \in Nat
    <3>1. Len(pending') = Len(rest) + 1
      BY <1>3, <1>6
    <3> QED
      BY <1>1, <1>2, <1>4, <1>8, <3>1, Numbers DEF LInv
  <2> QED
    BY <1>4, <1>9, <2>1, GenerationFits
<1>11. job \in Job /\ job.id = r.id /\ job.origin = r.origin /\ job.generation = generation + 1
  BY <1>2, <1>3, <1>10 DEF Request, Job
<1> HIDE DEF job
<1>12. /\ pending' \in Seq(Job) /\ Len(pending') = Len(rest) + 1
       /\ \A n \in 1 .. Len(rest) : pending'[n] = pending[to[n]]
       /\ pending'[Len(rest) + 1] = job
  BY <1>3, <1>6, <1>7, <1>11
<1>13. PICK evicted :
         /\ answers' = IF Overfull(kept) THEN AnswerTo(pending[evicted]) ELSE answers
         /\ Overfull(kept) => /\ evicted \in 1 .. Len(pending)
                              /\ \A n \in 1 .. Len(rest) : to[n] # evicted
  BY <1>3, <1>7
<1>14. Overfull(kept) /\ pending[evicted].origin = "preset"
         => At("pending", evicted, pending[evicted].id)
  BY <1>13 DEF At
<1>15. /\ answers' \in [Id -> 0 .. 1]
       /\ \A i \in Id :
            ~(Overfull(kept) /\ pending[evicted].origin = "preset" /\ i = pending[evicted].id)
              => answers'[i] = answers[i]
  <2>1. CASE Overfull(kept)
    <3>1. pending[evicted].origin = "preset" => \E p, n : At(p, n, pending[evicted].id)
      BY <1>14, <2>1
    <3> QED
      BY <1>13, <2>1, <3>1, AnswerTypes DEF LInv
  <2>2. CASE ~Overfull(kept)
    BY <1>13, <2>2 DEF LInv, TypeOK
  <2> QED
    BY <2>1, <2>2
<1>16. TypeOK'
  <2>1. callback' \in BOOLEAN
    BY DEF Accept, LInv, TypeOK
  <2>2. Len(ingress') <= MaxPending /\ Len(pending') <= MaxPending
    BY <1>2, <1>4, <1>6, <1>8, <1>12
  <2>3. {dispatched', newest_gui'} \subseteq Generation
    <3>1. 0 \in Generation
      BY LoaderAssumption DEF Generation
    <3>2. dispatched \in Generation /\ newest_gui \in Generation
      BY DEF LInv, TypeOK
    <3> QED
      BY <1>3, <1>10, <3>1, <3>2
  <2>4. ui_loading' \in BOOLEAN /\ ui_dialog_open' \in BOOLEAN
    BY <1>3
  <2>5. tick' \in {"idle", "dialog", "accept", "poll", "dispatch"}
    BY <1>3
  <2> QED
    BY <1>1, <1>2, <1>10, <1>12, <1>15, <2>1, <2>2, <2>3, <2>4, <2>5 DEF LInv, TypeOK
<1>17. Homes'
  <2>1. \A p, n, i : At(p, n, i)' =>
          \/ p = "ingress" /\ n \in Nat /\ n >= 1 /\ At("ingress", n + 1, i)
          \/ p = "pending" /\ n = Len(rest) + 1 /\ At("ingress", 1, i)
          \/ p = "pending" /\ n \in 1 .. Len(rest) /\ At("pending", to[n], i)
          \/ p \notin {"ingress", "pending"} /\ At(p, n, i)
    <3>1. \A n \in 1 .. Len(rest) : to[n] \in 1 .. Len(pending)
      BY <1>7
    <3>2. \A n, i : At("ingress", n, i)' => n \in Nat /\ n >= 1 /\ At("ingress", n + 1, i)
      BY <1>2, <1>4 DEF At
    <3>3. \A n, i : At("pending", n, i)' =>
            \/ n = Len(rest) + 1 /\ At("ingress", 1, i)
            \/ n \in 1 .. Len(rest) /\ At("pending", to[n], i)
      BY <1>2, <1>4, <1>8, <1>11, <1>12, <3>1 DEF At
    <3>4. \A p, n, i : At(p, n, i)' /\ p \notin {"ingress", "pending"} => At(p, n, i)
      BY <1>1 DEF At
    <3> QED
      BY <3>2, <3>3, <3>4
  <2>2. \A n, m \in 1 .. Len(rest) : to[n] = to[m] => n = m
    <3> SUFFICES ASSUME NEW n \in 1 .. Len(rest), NEW m \in 1 .. Len(rest), n < m \/ m < n
                 PROVE  to[n] # to[m]
      BY <1>8
    <3>1. to[n] \in Nat /\ to[m] \in Nat
      BY <1>4, <1>7
    <3> QED
      BY <1>7, <3>1
  <2>3. Once'
    BY <1>8, <2>1, <2>2 DEF LInv, Homes, Once
  <2>4. issued \in Nat /\ MaxOps \in Nat /\ issued <= MaxOps
    BY Numbers DEF LInv, TypeOK
  <2>5. \A p, n, i : At(p, n, i) => i \in 1 .. issued /\ i \in Id /\ answers[i] = 0
    BY <2>4 DEF LInv, Homes, Open, Id
  <2>6. \A i \in Id : i > issued => answers'[i] = 0
    <3> SUFFICES ASSUME NEW i \in Id, i > issued PROVE answers'[i] = 0
      OBVIOUS
    <3>1. ~(Overfull(kept) /\ pending[evicted].origin = "preset" /\ i = pending[evicted].id)
      BY <1>14, <2>4, <2>5
    <3> QED
      BY <1>15, <3>1 DEF LInv, Homes, Open
  <2>7. ASSUME NEW p, NEW n, NEW i, At(p, n, i)' PROVE i \in 1 .. issued /\ answers'[i] = 0
    <3>1. \E q, m : At(q, m, i) /\ ~(Overfull(kept) /\ q = "pending" /\ m = evicted)
      BY <1>13, <2>1, <2>7
    <3>2. i \in 1 .. issued /\ i \in Id /\ answers[i] = 0
      BY <2>5, <3>1
    <3>3. ~(Overfull(kept) /\ pending[evicted].origin = "preset" /\ i = pending[evicted].id)
      BY <1>14, <3>1 DEF LInv, Homes, Once
    <3> QED
      BY <1>15, <3>2, <3>3
  <2> QED
    BY <1>1, <2>3, <2>6, <2>7 DEF Homes, Open
<1>18. Picks'
  BY <1>1 DEF LInv, Picks
<1>19. Allocated'
  <2>1. \A j : WorkerSide(j)' <=> WorkerSide(j)
    BY <1>1 DEF WorkerSide
  <2>2. \A j : WorkerSide(j) => j.generation \in Nat /\ j.generation <= generation
    BY WorkerSideTypes DEF LInv, Order, Line, Allocated
  <2>3. model <= generation /\ loaded <= generation /\ newest_gui <= generation
    BY DEF LInv, Order, Line, Allocated
  <2> QED
    BY <1>1, <1>3, <1>4, <2>1, <2>2, <2>3 DEF Allocated
<1>20. ASSUME NEW n \in 1 .. Len(pending') PROVE Waiting(n)'
  <2>1. \A j : WorkerSide(j)' <=> WorkerSide(j)
    BY <1>1 DEF WorkerSide
  <2>2. dispatched' \in {0, dispatched}
    BY <1>3
  <2>3. CASE n = Len(rest) + 1
    <3>1. pending'[n].generation = generation + 1 /\ pending'[n].origin = r.origin
      BY <1>11, <1>12, <2>3
    <3>2. \A j : WorkerSide(j) => j.generation < generation + 1
      BY <1>4, WorkerSideTypes DEF LInv, Order, Line, Allocated
    <3>3. dispatched <= generation
      BY <1>4 DEF LInv, Order, Known
    <3>4. loaded <= generation
      BY DEF LInv, Order, Line, Allocated
    <3>5. \A m \in 1 .. Len(pending') : ~(n < m)
      BY <1>8, <1>12, <2>3
    <3> QED
      BY <1>1, <1>3, <1>4, <2>1, <2>2, <3>1, <3>2, <3>3, <3>4, <3>5 DEF Waiting
  <2>4. CASE n \in 1 .. Len(rest)
    <3>1. to[n] \in 1 .. Len(pending) /\ pending'[n] = pending[to[n]]
      BY <1>7, <1>12, <2>4
    <3>2. Waiting(to[n]) /\ pending[to[n]].generation \in Nat
      BY <3>1, PendingTypes DEF LInv, Order, Line
    <3>3. ASSUME NEW m \in 1 .. Len(pending'), n < m
          PROVE  pending'[n].generation < pending'[m].generation
      <4>1. CASE m = Len(rest) + 1
        BY <1>4, <1>11, <1>12, <3>1, <3>2, <4>1 DEF Waiting
      <4>2. CASE m \in 1 .. Len(rest)
        <5>1. /\ to[m] \in 1 .. Len(pending) /\ pending'[m] = pending[to[m]]
              /\ to[n] < to[m]
          BY <1>7, <1>12, <2>4, <3>3, <4>2
        <5> QED
          BY <3>1, <3>2, <5>1 DEF Waiting
      <4> QED
        BY <1>8, <1>12, <4>1, <4>2
    <3>4. pending'[n].origin = "gui" => pending'[n].generation = newest_gui'
      <4>1. r.origin = "gui" => pending'[n].origin # "gui"
        <5>1. pending'[n] = rest[n]
          BY <1>7, <1>12, <2>4
        <5> QED
          BY <1>5, <1>6, <2>4, <5>1
      <4>2. r.origin # "gui" => newest_gui' = newest_gui
        BY <1>3
      <4> QED
        BY <3>1, <3>2, <4>1, <4>2 DEF Waiting
    <3>5. pending'[n].generation > dispatched'
      BY <1>4, <2>2, <3>1, <3>2 DEF Waiting
    <3>6. pending'[n].generation <= generation'
      BY <1>3, <1>4, <3>1, <3>2 DEF Waiting
    <3> QED
      BY <1>1, <2>1, <3>1, <3>2, <3>3, <3>4, <3>5, <3>6 DEF Waiting
  <2> QED
    BY <1>8, <1>12, <2>3, <2>4
<1>21. Known'
  <2>1. \A j : WorkerSide(j)' <=> WorkerSide(j)
    BY <1>1 DEF WorkerSide
  <2> SUFFICES ASSUME dispatched' # 0
               PROVE  /\ busy' /\ dispatched' > loaded' /\ dispatched' <= generation'
                      /\ dispatched_gui' => dispatched' = newest_gui'
                      /\ \A j : WorkerSide(j)' /\ j.generation = dispatched'
                                  => (j.origin = "gui" <=> dispatched_gui')
    BY DEF Known
  <2>2. dispatched' = dispatched /\ ~Disowns(r)
    BY <1>3
  <2>3. /\ busy /\ dispatched > loaded /\ dispatched <= generation
        /\ dispatched_gui => dispatched = newest_gui
        /\ \A j : WorkerSide(j) /\ j.generation = dispatched
                    => (j.origin = "gui" <=> dispatched_gui)
    BY <2>2 DEF LInv, Order, Known
  <2>4. dispatched_gui => newest_gui' = newest_gui
    BY <1>3, <2>2, <2>3 DEF Disowns
  <2> QED
    BY <1>1, <1>3, <1>4, <2>1, <2>2, <2>3, <2>4
<1>22. NoWorker'
  <2> SUFFICES ASSUME ~loader PROVE ~busy /\ channel = << >> /\ working = None /\ Len(pending') <= 1
    BY <1>1, <1>3 DEF NoWorker
  <2>1. ~busy /\ channel = << >> /\ working = None /\ pending = << >>
    BY <1>3 DEF LInv, Order, NoWorker
  <2>2. Len(pending') = 1
    BY <1>8, <1>12, <2>1
  <2> QED
    BY <2>1, <2>2
<1>23. Work'
  BY <1>1, <1>3 DEF LInv, Work, Quiet, OneJobAtATime, Outstanding, SpinnerCoversLoads
<1> QED
  BY <1>9, <1>16, <1>17, <1>18, <1>19, <1>20, <1>21, <1>22, <1>23 DEF LInv, Order, Line

LEMMA AcceptHolds ==
  ASSUME LInv, Accept
  PROVE  LInv'
<1>1. CASE ingress = << >>
  <2>1. UNCHANGED <<issued, ui_dialog_open, picker, dialog, ingress, pending, channel, busy,
                    dispatched, dispatched_gui, ui_loading, working, slot, reporting, panics,
                    generation, model, loaded, answers, newest_gui, changes, callback, loader>>
    BY <1>1 DEF Accept, workerVars
  <2>2. TypeOK'
    BY <2>1 DEF LInv, TypeOK, Accept
  <2>3. Homes'
    BY <2>1, HomesFrame, Numbers DEF LInv
  <2>4. Picks' /\ Budget'
    BY <2>1 DEF LInv, Picks, Budget, Claims, PickerCost, DialogCost
  <2>5. Order'
    <3>1. Line' /\ Known'
      BY <2>1, OrderKept DEF LInv, Order
    <3>2. NoWorker'
      BY <2>1 DEF LInv, Order, NoWorker, Accept
    <3> QED
      BY <3>1, <3>2 DEF Order
  <2>6. Work'
    BY <2>1, WorkFrame DEF LInv, loadVars, workerVars
  <2> QED
    BY <2>2, <2>3, <2>4, <2>5, <2>6 DEF LInv
<1>2. CASE ingress # << >>
  BY <1>2, AcceptRealHolds, AcceptSentinelHolds DEF Accept
<1> QED
  BY <1>1, <1>2

-----------------------------------------------------------------------------
(* The theorems.                                                           *)

LEMMA StepHolds ==
  ASSUME LInv, [Next]_vars
  PROVE  LInv'
<1>1. CASE UNCHANGED vars
  <2>1. UNCHANGED <<issued, ui_dialog_open, picker, dialog, ingress, pending, channel, busy,
                    dispatched, dispatched_gui, ui_loading, working, slot, reporting, panics,
                    generation, model, loaded, answers, newest_gui, changes, callback, loader,
                    tick>>
    BY <1>1 DEF vars, guiVars, loadVars, workerVars, identityVars
  <2>2. TypeOK'
    BY <2>1 DEF LInv, TypeOK
  <2>3. Homes'
    BY <2>1, HomesFrame, Numbers DEF LInv
  <2>4. Picks' /\ Budget'
    BY <2>1 DEF LInv, Picks, Budget, Claims, PickerCost, DialogCost
  <2>5. Order'
    <3>1. Line' /\ Known'
      BY <2>1, OrderKept DEF LInv, Order
    <3>2. NoWorker'
      BY <2>1 DEF LInv, Order, NoWorker
    <3> QED
      BY <3>1, <3>2 DEF Order
  <2>6. Work'
    BY <2>1, WorkFrame DEF LInv, loadVars, workerVars
  <2> QED
    BY <2>2, <2>3, <2>4, <2>5, <2>6 DEF LInv
<1>2. CASE GuiNext
  BY <1>2, OpenDialogHolds, CompleteDialogHolds DEF GuiNext
<1>3. CASE MainNext
  BY <1>3, LoadFromLocationHolds, ChangeModelHolds, StartTickHolds, TakeDialogHolds,
     AcceptHolds, PollHolds, DispatchHolds DEF MainNext
<1>4. CASE WorkerNext
  BY <1>4, ReceiveHolds, PublishResultHolds, PanicInPollHolds, ReportPanicHolds DEF WorkerNext
<1> QED
  BY <1>1, <1>2, <1>3, <1>4 DEF Next

(* The places of the requests, the order of the generations and what the   *)
(* main thread knows of the worker, in every reachable state.              *)
THEOREM LoaderInvariant == Spec => []LInv
BY InitHolds, StepHolds, PTL DEF Spec

(* The types, and with them that no preset request is answered twice: an   *)
(* eviction, a commit and a synchronous load all answer, and none of them  *)
(* answers a request another one has.                                      *)
THEOREM LoaderTypes == Spec => []TypeOK
<1>1. LInv => TypeOK
  BY DEF LInv
<1> QED
  BY <1>1, LoaderInvariant, PTL

(* model_worker_busy says exactly whether one job is with the worker, as   *)
(* long as the rebuild poll has not panicked (housekeeping.rs:903, 950).   *)
THEOREM BusyIsOneJob == Spec => []OneJobAtATime
<1>1. LInv => OneJobAtATime
  BY DEF LInv, Work
<1> QED
  BY <1>1, LoaderInvariant, PTL

(* The spinner turns while a load waits or is with the worker, as long as  *)
(* the rebuild poll has not panicked (maybe_finish_loading_ui).            *)
THEOREM SpinnerTurns == Spec => []SpinnerCoversLoads
<1>1. LInv => SpinnerCoversLoads
  BY DEF LInv, Work
<1> QED
  BY <1>1, LoaderInvariant, PTL

(* Only a poll and a synchronous load commit.                              *)
LEMMA OnlyCommits ==
  ASSUME [Next]_vars, model' # model \/ loaded' # loaded
  PROVE  Poll \/ Dispatch \/ (ChangeModel /\ loaded' = loaded)
BY DEF Next, GuiNext, MainNext, WorkerNext, vars, identityVars, OpenDialog, CompleteDialog,
       LoadFromLocation, ChangeModel, StartTick, TakeDialog, Accept, Receive, PublishResult,
       PanicInPoll, ReportPanic

(* A load that ends never replaces a load that was requested after it:     *)
(* the dispatched generation is larger than the last committed one, and a  *)
(* synchronous load takes the newest.                                      *)
THEOREM CommitsInOrder == Spec => LoadsInOrder
<1>1. ASSUME LInv, [Next]_vars PROVE [loaded' >= loaded]_loaded
  <2> SUFFICES ASSUME loaded' # loaded PROVE loaded' >= loaded
    OBVIOUS
  <2>1. loaded \in Nat /\ generation \in Nat /\ loaded <= generation
    BY <1>1, Numbers DEF LInv, Order, Line, Allocated
  <2>2. CASE Poll
    <3>1. ~Superseded(slot) /\ loaded' = slot.generation
      BY <2>2 DEF Poll, Commit
    <3>2. slot.generation = dispatched /\ dispatched # 0
      BY <3>1 DEF Superseded
    <3>3. dispatched > loaded /\ dispatched \in Nat
      BY <1>1, <3>2, Numbers DEF LInv, Order, Known
    <3> QED
      BY <2>1, <3>1, <3>2, <3>3
  <2>3. CASE Dispatch
    <3>1. LoadSynchronously
      BY <2>3 DEF Dispatch, DispatchToWorker
    <3>2. loaded' = generation' /\ generation' \in {generation, generation + 1}
      BY <3>1 DEF LoadSynchronously, Commit
    <3> QED
      BY <2>1, <3>2
  <2> QED
    BY <1>1, <2>2, <2>3, OnlyCommits
<1> QED
  BY <1>1, LoaderInvariant, PTL DEF Spec, LoadsInOrder

(* Last wins: the pick of the user that a poll adopts is the newest one    *)
(* accepted; a newer one has disowned the older (housekeeping.rs:751-759). *)
THEOREM LastPickWins == Spec => NewestPickWins
<1>1. ASSUME LInv, [Next]_vars
      PROVE  [tick = "poll" /\ model' # model /\ slot.origin = "gui"
                => slot.generation = newest_gui]_vars
  <2> SUFFICES ASSUME tick = "poll", model' # model, slot.origin = "gui"
               PROVE  slot.generation = newest_gui
    OBVIOUS
  <2>1. Poll
    BY <1>1, OnlyCommits DEF ChangeModel, Dispatch
  <2>2. slot # None /\ ~Superseded(slot)
    BY <2>1 DEF Poll
  <2>3. slot.generation = dispatched /\ dispatched # 0
    BY <2>2 DEF Superseded
  <2>4. WorkerSide(slot)
    BY <2>2 DEF WorkerSide
  <2>5. dispatched_gui
    BY <1>1, <2>3, <2>4 DEF LInv, Order, Known
  <2> QED
    BY <1>1, <2>3, <2>5 DEF LInv, Order, Known
<1> QED
  BY <1>1, LoaderInvariant, PTL DEF Spec, NewestPickWins

-----------------------------------------------------------------------------
(* The rebuild: AdaptiveRebuild with its own state (what the audio thread  *)
(* runs is that of RunningModel).  The names it shares with ModelLoader    *)
(* get another one here.                                                   *)

CONSTANTS Widths, RingCapacity, NoSlice, MaxRequests, MaxLoads, MaxRestores

VARIABLES requested, flag, signalling, allocated, full, commands, staged, unpublished,
          worker, reading, slicing, built, sliceSlot, ticking, taken, ring, requests, loads,
          want, delivered

R == INSTANCE AdaptiveRebuild
  WITH None <- NoSlice, generation <- allocated, loader <- worker, slot <- sliceSlot,
       tick <- ticking

(* A slice comes from the model it is tagged with, or from a newer one.    *)
FromItsModel(slice) == slice.source >= slice.generation
Fresh(outcome) ==
  (outcome # NoSlice /\ outcome.kind = "ready") => FromItsModel(outcome.slice)

(* What holds while models come from loads.                                *)
Published == unpublished = 0 /\ full \in {allocated, 0}
NothingNewer ==
  /\ running <= allocated /\ requested.generation <= allocated
  /\ reading # NoSlice => reading.generation <= allocated
SlicesFresh ==
  /\ Fresh(slicing) /\ Fresh(sliceSlot) /\ Fresh(taken)
  /\ \A i \in 1..Len(ring) : FromItsModel(ring[i])
CommandsKnown ==
  staged <= allocated /\ \A i \in 1..Len(commands) : commands[i] <= allocated

LoadsOnly == Published /\ NothingNewer /\ SlicesFresh /\ CommandsKnown /\ weights >= running

(* The allocator and what it is bounded by.                                *)
IsAllocated == allocated = loads + restores + 1

RebuildInv == R!TypeOK /\ IsAllocated /\ (restores = 0 => LoadsOnly)

-----------------------------------------------------------------------------
(* Lemmas.                                                                 *)

LEMMA RebuildGenerations ==
  ASSUME R!RebuildAssumption
  PROVE  /\ MaxRequests \in Nat /\ MaxLoads \in Nat /\ MaxRestores \in Nat
         /\ R!Generation \subseteq Nat
         /\ 0 \in R!Generation /\ 1 \in R!Generation
         /\ \A l \in 0..MaxLoads, r \in 0..MaxRestores : l + r + 1 \in R!Generation
<1>1. MaxLoads \in Nat /\ MaxRestores \in Nat /\ MaxRequests \in Nat
  BY R!RebuildAssumption
<1> QED BY <1>1 DEF R!Generation

(* The allocator hands out generations in their type.                      *)
LEMMA NextGeneration ==
  ASSUME R!RebuildAssumption,
         R!TypeOK, IsAllocated, allocated' = allocated + 1,
         \/ loads < MaxLoads /\ loads' = loads + 1 /\ restores' = restores
         \/ restores < MaxRestores /\ restores' = restores + 1 /\ loads' = loads
  PROVE  /\ allocated' \in R!Generation /\ IsAllocated'
         /\ loads' \in 0..MaxLoads /\ restores' \in 0..MaxRestores
<1>1. MaxLoads \in Nat /\ MaxRestores \in Nat BY RebuildGenerations
<1>2. loads \in 0..MaxLoads /\ restores \in 0..MaxRestores BY DEF R!TypeOK
<1>3. allocated = loads + restores + 1 BY DEF IsAllocated
<1> QED BY <1>1, <1>2, <1>3 DEF IsAllocated, R!Generation

(* What build_slimmable() returns has its type and is fresh.               *)
LEMMA BuiltOutcome ==
  ASSUME R!RebuildAssumption,
         R!TypeOK, NEW identity \in R!Identity, NEW outcome \in R!BuildSlimmable(identity)
  PROVE  /\ outcome \in R!Outcome
         /\ (Published /\ identity.generation <= allocated) => Fresh(outcome)
<1>1. full \in R!Generation BY DEF R!TypeOK
<1>2. R!SliceOf(identity) \in R!Slice BY <1>1 DEF R!SliceOf, R!Slice, R!Identity
<1>3. \/ outcome.kind = "skipped"
      \/ full # 0 /\ outcome.kind \in {"ready", "failed"}
  BY DEF R!BuildSlimmable
<1>4. outcome.slice = R!SliceOf(identity) BY DEF R!BuildSlimmable
<1>5. outcome \in R!Outcome BY <1>2 DEF R!BuildSlimmable, R!Outcome
<1>6. ASSUME Published, identity.generation <= allocated, outcome.kind = "ready"
      PROVE  FromItsModel(outcome.slice)
  <2>1. full = allocated BY <1>3, <1>6 DEF Published
  <2>2. outcome.slice.source = full /\ outcome.slice.generation = identity.generation
    BY <1>4 DEF R!SliceOf
  <2> QED BY <1>6, <2>1, <2>2 DEF FromItsModel
<1> QED BY <1>5, <1>6 DEF Fresh

LEMMA RebuildInitInv ==
  ASSUME R!RebuildAssumption, R!Init
  PROVE  RebuildInv
<1> USE DEF R!Init
<1>1. requested \in R!Identity
  <2>1. (CHOOSE w \in Widths : TRUE) \in Widths BY R!RebuildAssumption
  <2> QED BY <2>1, RebuildGenerations DEF R!Identity
<1>2. {running, weights, allocated, full, staged, unpublished} \subseteq R!Generation
  BY RebuildGenerations
<1>3. commands \in Seq(R!Generation) /\ ring \in Seq(R!Slice) /\ Len(ring) = 0
      /\ Len(commands) = 0
  OBVIOUS
<1>4. 0 \in 0..MaxRequests /\ 0 \in 0..MaxLoads /\ 0 \in 0..MaxRestores
  BY RebuildGenerations
<1>5. Len(ring) <= RingCapacity BY <1>3, R!RebuildAssumption
<1>6. R!TypeOK BY <1>1, <1>2, <1>3, <1>4, <1>5 DEF R!TypeOK
<1>7. IsAllocated BY DEF IsAllocated
<1>8. LoadsOnly
  BY <1>3 DEF LoadsOnly, Published, NothingNewer, SlicesFresh, CommandsKnown, Fresh
<1> QED BY <1>6, <1>7, <1>8 DEF RebuildInv

-----------------------------------------------------------------------------
(* The audio thread.                                                       *)

LEMMA RequestInv ==
  ASSUME R!RebuildAssumption,
         RebuildInv, R!StoreWidth \/ R!RaiseFlag
  PROVE  RebuildInv'
<1>1. R!TypeOK /\ IsAllocated BY DEF RebuildInv
<1>2. UNCHANGED <<running, weights, R!modelVars, R!workerVars, worker, sliceSlot, R!mainVars,
                  ring, delivered>>
  BY DEF R!StoreWidth, R!RaiseFlag
<1>3. requested' \in R!Identity /\ requested'.generation \in {requested.generation, running}
  <2>1. requested \in R!Identity /\ running \in R!Generation BY <1>1 DEF R!TypeOK
  <2>2. CASE R!StoreWidth BY <2>1, <2>2 DEF R!StoreWidth, R!Identity
  <2>3. CASE R!RaiseFlag BY <2>1, <2>3 DEF R!RaiseFlag, R!Identity
  <2> QED BY <2>2, <2>3
<1>4. R!TypeOK'
  <2>1. flag' \in BOOLEAN BY <1>1 DEF R!StoreWidth, R!RaiseFlag, R!TypeOK
  <2>2. signalling' \in Widths \cup {NoSlice} BY DEF R!StoreWidth, R!RaiseFlag
  <2>3. requests' \in 0..MaxRequests
    <3>1. requests \in 0..MaxRequests BY <1>1 DEF R!TypeOK
    <3>2. requests' = requests \/ (requests < MaxRequests /\ requests' = requests + 1)
      BY DEF R!StoreWidth, R!RaiseFlag
    <3> QED BY <3>1, <3>2, RebuildGenerations
  <2>4. want' \in R!Identity \cup {NoSlice}
    <3>1. want \in R!Identity \cup {NoSlice} /\ running \in R!Generation
          /\ signalling \in Widths \cup {NoSlice}
      BY <1>1 DEF R!TypeOK
    <3>2. CASE R!StoreWidth BY <3>1, <3>2 DEF R!StoreWidth
    <3>3. CASE R!RaiseFlag BY <3>1, <3>3 DEF R!RaiseFlag, R!Identity
    <3> QED BY <3>2, <3>3
  <2> QED
    BY <1>1, <1>2, <1>3, <2>1, <2>2, <2>3, <2>4
    DEF R!TypeOK, R!modelVars, R!workerVars, R!mainVars
<1>5. IsAllocated' BY <1>1, <1>2 DEF IsAllocated, R!modelVars
<1>6. ASSUME restores' = 0 PROVE LoadsOnly'
  <2>1. LoadsOnly BY <1>2, <1>6 DEF RebuildInv, R!modelVars
  <2>2. requested'.generation <= allocated BY <1>3, <2>1 DEF LoadsOnly, NothingNewer
  <2> QED
    BY <1>2, <2>1, <2>2
    DEF LoadsOnly, Published, NothingNewer, SlicesFresh, Fresh, CommandsKnown, R!modelVars,
        R!workerVars, R!mainVars
<1> QED BY <1>4, <1>5, <1>6 DEF RebuildInv

LEMMA InstallModelInv ==
  ASSUME R!RebuildAssumption,
         RebuildInv, R!InstallModel
  PROVE  RebuildInv'
<1>1. R!TypeOK /\ IsAllocated BY DEF RebuildInv
<1>2. /\ commands \in Seq(R!Generation) /\ commands # << >>
      /\ running' = Head(commands) /\ weights' = Head(commands) /\ commands' = Tail(commands)
  BY <1>1 DEF R!TypeOK, R!InstallModel
<1>3. UNCHANGED <<requested, flag, signalling, requests, want, allocated, full, staged,
                  unpublished, loads, restores, R!workerVars, worker, sliceSlot, R!mainVars,
                      ring, delivered>>
  BY DEF R!InstallModel
<1>4. Head(commands) \in R!Generation /\ Tail(commands) \in Seq(R!Generation) BY <1>2
<1>5. R!TypeOK' BY <1>1, <1>2, <1>3, <1>4 DEF R!TypeOK, R!workerVars, R!mainVars
<1>6. IsAllocated' BY <1>1, <1>3 DEF IsAllocated
<1>7. ASSUME restores' = 0 PROVE LoadsOnly'
  <2>1. LoadsOnly BY <1>3, <1>7 DEF RebuildInv
  <2>2. \A i \in 1..Len(commands) : commands[i] <= allocated
    BY <2>1 DEF LoadsOnly, CommandsKnown
  <2>3. Head(commands) <= allocated BY <1>2, <2>2
  <2>4. \A i \in 1..Len(commands') : commands'[i] <= allocated BY <1>2, <2>2
  <2>5. weights' >= running'
    <3>1. Head(commands) \in Nat BY <1>4, RebuildGenerations
    <3> QED BY <1>2, <3>1
  <2> QED
    BY <1>2, <1>3, <2>1, <2>3, <2>4, <2>5
    DEF LoadsOnly, Published, NothingNewer, SlicesFresh, Fresh, CommandsKnown, R!workerVars,
        R!mainVars
<1> QED BY <1>5, <1>6, <1>7 DEF RebuildInv

LEMMA InstallSliceInv ==
  ASSUME R!RebuildAssumption,
         RebuildInv, R!InstallSlice
  PROVE  RebuildInv'
<1>1. R!TypeOK /\ IsAllocated BY DEF RebuildInv
<1>2. /\ ring \in Seq(R!Slice) /\ ring # << >> /\ ring' = Tail(ring)
      /\ weights' = IF R!Accepted(Head(ring)) THEN Head(ring).source ELSE weights
  BY <1>1 DEF R!TypeOK, R!InstallSlice
<1>3. UNCHANGED <<running, requested, flag, signalling, requests, want, R!modelVars,
                  R!workerVars,
                  worker, sliceSlot, R!mainVars, delivered>>
  BY DEF R!InstallSlice
<1>4. Head(ring) \in R!Slice /\ Tail(ring) \in Seq(R!Slice) /\ Len(Tail(ring)) <= RingCapacity
  <2>1. Len(ring) <= RingCapacity /\ RingCapacity \in Nat
    BY <1>1, R!RebuildAssumption DEF R!TypeOK
  <2> QED BY <1>2, <2>1
<1>5. weights' \in R!Generation BY <1>1, <1>2, <1>4 DEF R!TypeOK, R!Slice
<1>6. R!TypeOK'
  BY <1>1, <1>2, <1>3, <1>4, <1>5 DEF R!TypeOK, R!modelVars, R!workerVars, R!mainVars
<1>7. IsAllocated' BY <1>1, <1>3 DEF IsAllocated, R!modelVars
<1>8. ASSUME restores' = 0 PROVE LoadsOnly'
  <2>1. LoadsOnly BY <1>3, <1>8 DEF RebuildInv, R!modelVars
  <2>2. \A i \in 1..Len(ring) : FromItsModel(ring[i]) BY <2>1 DEF LoadsOnly, SlicesFresh
  <2>3. FromItsModel(Head(ring)) BY <1>2, <2>2
  <2>4. \A i \in 1..Len(ring') : FromItsModel(ring'[i]) BY <1>2, <2>2
  <2>5. weights' >= running'
    BY <1>2, <1>3, <2>1, <2>3 DEF LoadsOnly, R!Accepted, FromItsModel
  <2> QED
    BY <1>3, <2>1, <2>4, <2>5
    DEF LoadsOnly, Published, NothingNewer, SlicesFresh, Fresh, CommandsKnown, R!modelVars,
        R!workerVars, R!mainVars
<1> QED BY <1>6, <1>7, <1>8 DEF RebuildInv

-----------------------------------------------------------------------------
(* The main thread.                                                        *)

LEMMA LoadModelInv ==
  ASSUME R!RebuildAssumption,
         RebuildInv, R!LoadModel
  PROVE  RebuildInv'
<1>1. R!TypeOK /\ IsAllocated BY DEF RebuildInv
<1>2. /\ allocated' = allocated + 1 /\ loads < MaxLoads /\ loads' = loads + 1
      /\ full' \in {allocated', 0} /\ unpublished = 0
      /\ \/ commands' = Append(commands, allocated') /\ staged' = 0
         \/ staged' = allocated' /\ commands' = commands
      /\ UNCHANGED <<R!audioVars, unpublished, restores, R!workerVars, worker, sliceSlot,
                     R!mainVars,
                     ring, delivered>>
  BY DEF R!LoadModel, R!FullModel
<1>3. restores' = restores BY <1>2
<1>4. /\ allocated' \in R!Generation /\ IsAllocated'
      /\ loads' \in 0..MaxLoads /\ restores' \in 0..MaxRestores
  BY <1>1, <1>2, <1>3, NextGeneration
<1>5. commands \in Seq(R!Generation) /\ allocated \in Nat
  BY <1>1, RebuildGenerations DEF R!TypeOK
<1>6. commands' \in Seq(R!Generation) BY <1>2, <1>4, <1>5
<1>7. full' \in R!Generation /\ staged' \in R!Generation BY <1>2, <1>4, RebuildGenerations
<1>8. R!TypeOK'
  BY <1>1, <1>2, <1>4, <1>6, <1>7 DEF R!TypeOK, R!audioVars, R!workerVars, R!mainVars
<1>9. ASSUME restores' = 0 PROVE LoadsOnly'
  <2>1. LoadsOnly BY <1>3, <1>9 DEF RebuildInv
  <2>2. /\ running \in Nat /\ requested.generation \in Nat /\ staged \in Nat
        /\ reading # NoSlice => reading.generation \in Nat
    BY <1>1, RebuildGenerations DEF R!TypeOK, R!Identity
  <2>3. NothingNewer'
    BY <1>2, <1>5, <2>1, <2>2 DEF LoadsOnly, NothingNewer, R!audioVars, R!workerVars
  <2>4. CommandsKnown'
    <3>1. \A i \in 1..Len(commands) : commands[i] \in Nat /\ commands[i] <= allocated
      <4>1. \A i \in 1..Len(commands) : commands[i] \in R!Generation BY <1>5
      <4> QED BY <2>1, <4>1, RebuildGenerations DEF LoadsOnly, CommandsKnown
    <3>2. CASE commands' = Append(commands, allocated') /\ staged' = 0
      <4>1. Len(commands') = Len(commands) + 1
            /\ \A i \in 1..Len(commands') :
                 commands'[i] = IF i = Len(commands) + 1 THEN allocated' ELSE commands[i]
        BY <1>5, <3>2
      <4> QED BY <1>2, <1>5, <3>1, <3>2, <4>1 DEF CommandsKnown
    <3>3. CASE staged' = allocated' /\ commands' = commands
      BY <1>2, <1>5, <3>1, <3>3 DEF CommandsKnown
    <3> QED BY <1>2, <3>2, <3>3
  <2> QED
    BY <1>2, <2>1, <2>3, <2>4
    DEF LoadsOnly, Published, SlicesFresh, Fresh, R!audioVars, R!workerVars, R!mainVars
<1> QED BY <1>4, <1>8, <1>9 DEF RebuildInv

LEMMA RestartInv ==
  ASSUME R!RebuildAssumption,
         RebuildInv, R!Restart
  PROVE  RebuildInv'
<1>1. R!TypeOK /\ IsAllocated BY DEF RebuildInv
<1>2. /\ running' = staged /\ weights' = staged /\ staged' = 0 /\ staged \in R!Generation
      /\ UNCHANGED <<requested, flag, signalling, requests, want, allocated, full, commands,
                     unpublished, loads, restores, R!workerVars, worker, sliceSlot, R!mainVars,
                         ring, delivered>>
  BY <1>1 DEF R!Restart, R!TypeOK
<1>3. R!TypeOK' BY <1>1, <1>2, RebuildGenerations DEF R!TypeOK, R!workerVars, R!mainVars
<1>4. IsAllocated' BY <1>1, <1>2 DEF IsAllocated
<1>5. ASSUME restores' = 0 PROVE LoadsOnly'
  <2>1. LoadsOnly BY <1>2, <1>5 DEF RebuildInv
  <2>2. staged \in Nat /\ allocated \in Nat BY <1>1, RebuildGenerations DEF R!TypeOK
  <2>3. running' <= allocated' /\ weights' >= running' /\ staged' <= allocated'
    BY <1>2, <2>1, <2>2 DEF LoadsOnly, CommandsKnown
  <2> QED
    BY <1>2, <2>1, <2>3
    DEF LoadsOnly, Published, NothingNewer, SlicesFresh, Fresh, CommandsKnown, R!workerVars,
        R!mainVars
<1> QED BY <1>3, <1>4, <1>5 DEF RebuildInv

LEMMA RestoreInv ==
  ASSUME R!RebuildAssumption,
         RebuildInv, R!PushRestore \/ R!PublishRestore
  PROVE  RebuildInv'
<1>1. R!TypeOK /\ IsAllocated BY DEF RebuildInv
<1>2. CASE R!PushRestore
  <2>1. /\ allocated' = allocated + 1 /\ restores < MaxRestores /\ restores' = restores + 1
        /\ commands' = Append(commands, allocated') /\ unpublished' = allocated'
        /\ staged' = 0
        /\ UNCHANGED <<R!audioVars, full, loads, R!workerVars, worker, sliceSlot, R!mainVars,
                       ring, delivered>>
    BY <1>2 DEF R!PushRestore
  <2>2. /\ allocated' \in R!Generation /\ IsAllocated'
        /\ loads' \in 0..MaxLoads /\ restores' \in 0..MaxRestores
    BY <1>1, <2>1, NextGeneration
  <2>3. commands' \in Seq(R!Generation) BY <1>1, <2>1, <2>2 DEF R!TypeOK
  <2>4. R!TypeOK'
    BY <1>1, <2>1, <2>2, <2>3, RebuildGenerations
    DEF R!TypeOK, R!audioVars, R!workerVars, R!mainVars
  <2>5. restores' # 0 BY <1>1, <2>1, RebuildGenerations DEF R!TypeOK
  <2> QED BY <2>2, <2>4, <2>5 DEF RebuildInv
<1>3. CASE R!PublishRestore
  <2>1. /\ unpublished # 0 /\ full' \in {unpublished, 0} /\ unpublished' = 0
        /\ UNCHANGED <<R!audioVars, allocated, commands, staged, loads, restores, R!workerVars,
                       worker, sliceSlot, R!mainVars, ring, delivered>>
    BY <1>3 DEF R!PublishRestore, R!FullModel
  <2>2. R!TypeOK'
    BY <1>1, <2>1, RebuildGenerations DEF R!TypeOK, R!audioVars, R!workerVars, R!mainVars
  <2>3. IsAllocated' BY <1>1, <2>1 DEF IsAllocated
  <2>4. restores # 0 BY <2>1 DEF RebuildInv, LoadsOnly, Published
  <2> QED BY <2>1, <2>2, <2>3, <2>4 DEF RebuildInv
<1> QED BY <1>2, <1>3

(* The steps of a tick that look into the slot.                            *)
LEMMA TickInv ==
  ASSUME R!RebuildAssumption,
         RebuildInv, R!TakeSlot \/ R!RebuildInline \/ R!PutBack \/ R!NothingBuilt
  PROVE  RebuildInv'
<1>1. R!TypeOK /\ IsAllocated BY DEF RebuildInv
<1>2. UNCHANGED <<R!audioVars, R!modelVars, R!workerVars, ring, delivered>>
  BY DEF R!TakeSlot, R!RebuildInline, R!PutBack, R!NothingBuilt
<1>3. requested \in R!Identity /\ {sliceSlot, taken} \subseteq R!Outcome \cup {NoSlice}
  BY <1>1 DEF R!TypeOK
<1>4. /\ taken' \in R!Outcome \cup {NoSlice} /\ sliceSlot' \in R!Outcome \cup {NoSlice}
      /\ worker' \in BOOLEAN /\ ticking' \in {"idle", "rebuild"}
  <2>1. CASE R!TakeSlot BY <1>1, <1>3, <2>1 DEF R!TakeSlot, R!TypeOK
  <2>2. CASE R!RebuildInline
    <3>1. taken' \in R!BuildSlimmable(requested) BY <2>2 DEF R!RebuildInline
    <3>2. taken' \in R!Outcome BY <1>1, <1>3, <3>1, BuiltOutcome
    <3> QED BY <1>1, <1>3, <2>2, <3>2 DEF R!RebuildInline, R!TypeOK
  <2>3. CASE R!PutBack BY <1>1, <1>3, <2>3 DEF R!PutBack, R!Retained, R!TypeOK
  <2>4. CASE R!NothingBuilt BY <1>1, <1>3, <2>4 DEF R!NothingBuilt, R!TypeOK
  <2> QED BY <2>1, <2>2, <2>3, <2>4
<1>5. R!TypeOK' BY <1>1, <1>2, <1>4 DEF R!TypeOK, R!audioVars, R!modelVars, R!workerVars
<1>6. IsAllocated' BY <1>1, <1>2 DEF IsAllocated, R!modelVars
<1>7. ASSUME restores' = 0 PROVE LoadsOnly'
  <2>1. LoadsOnly BY <1>2, <1>7 DEF RebuildInv, R!modelVars
  <2>2. Fresh(sliceSlot) /\ Fresh(taken) /\ Fresh(NoSlice)
    BY <2>1 DEF LoadsOnly, SlicesFresh, Fresh
  <2>3. Fresh(taken') /\ Fresh(sliceSlot')
    <3>1. CASE R!TakeSlot BY <2>2, <3>1 DEF R!TakeSlot
    <3>2. CASE R!RebuildInline
      <4>1. taken' \in R!BuildSlimmable(requested) /\ sliceSlot' = sliceSlot
        BY <3>2 DEF R!RebuildInline
      <4>2. Published /\ requested.generation <= allocated
        BY <2>1 DEF LoadsOnly, NothingNewer
      <4>3. Fresh(taken') BY <1>1, <1>3, <4>1, <4>2, BuiltOutcome
      <4> QED BY <2>2, <4>1, <4>3
    <3>3. CASE R!PutBack BY <2>2, <3>3 DEF R!PutBack, R!Retained
    <3>4. CASE R!NothingBuilt BY <2>2, <3>4 DEF R!NothingBuilt
    <3> QED BY <3>1, <3>2, <3>3, <3>4
  <2>4. Fresh(slicing') BY <1>2, <2>1 DEF LoadsOnly, SlicesFresh, R!workerVars
  <2>5. SlicesFresh' BY <1>2, <2>1, <2>3, <2>4 DEF LoadsOnly, SlicesFresh, Fresh
  <2> QED
    BY <1>2, <2>1, <2>5
    DEF LoadsOnly, Published, NothingNewer, CommandsKnown, R!audioVars, R!modelVars,
        R!workerVars
<1> QED BY <1>5, <1>6, <1>7 DEF RebuildInv

LEMMA DeliverInv ==
  ASSUME R!RebuildAssumption,
         RebuildInv, R!Deliver
  PROVE  RebuildInv'
<1>1. R!TypeOK /\ IsAllocated BY DEF RebuildInv
<1>2. /\ taken # NoSlice /\ (taken.kind = "ready" => ~R!RingFull)
      /\ ring' = IF taken.kind = "ready" THEN Append(ring, taken.slice) ELSE ring
      /\ delivered' = [width |-> taken.slice.width, generation |-> taken.slice.generation]
      /\ taken' = NoSlice /\ ticking' = "idle" /\ flag' = FALSE
      /\ UNCHANGED <<running, weights, requested, signalling, requests, want, R!modelVars,
                     R!workerVars, worker, sliceSlot>>
  BY DEF R!Deliver
<1>3. ring \in Seq(R!Slice) /\ Len(ring) <= RingCapacity /\ taken \in R!Outcome
  BY <1>1, <1>2 DEF R!TypeOK
<1>4. taken.slice \in R!Slice BY <1>3 DEF R!Outcome
<1>5. delivered' \in R!Identity BY <1>2, <1>4 DEF R!Identity, R!Slice
<1>6. ring' \in Seq(R!Slice) /\ Len(ring') <= RingCapacity
  <2>1. CASE taken.kind = "ready"
    <3>1. ring' = Append(ring, taken.slice) BY <1>2, <2>1
    <3>2. Len(ring) < RingCapacity BY <1>2, <1>3, <2>1, R!RebuildAssumption DEF R!RingFull
    <3> QED BY <1>3, <1>4, <3>1, <3>2, R!RebuildAssumption
  <2>2. CASE taken.kind # "ready" BY <1>2, <1>3, <2>2
  <2> QED BY <2>1, <2>2
<1>7. R!TypeOK' BY <1>1, <1>2, <1>5, <1>6 DEF R!TypeOK, R!modelVars, R!workerVars
<1>8. IsAllocated' BY <1>1, <1>2 DEF IsAllocated, R!modelVars
<1>9. ASSUME restores' = 0 PROVE LoadsOnly'
  <2>1. LoadsOnly BY <1>2, <1>9 DEF RebuildInv, R!modelVars
  <2>2. \A i \in 1..Len(ring) : FromItsModel(ring[i]) BY <2>1 DEF LoadsOnly, SlicesFresh
  <2>3. taken.kind = "ready" => FromItsModel(taken.slice)
    BY <1>2, <2>1 DEF LoadsOnly, SlicesFresh, Fresh
  <2>4. \A i \in 1..Len(ring') : FromItsModel(ring'[i])
    <3>1. CASE taken.kind = "ready"
      <4>1. ring' = Append(ring, taken.slice) BY <1>2, <3>1
      <4>2. Len(ring') = Len(ring) + 1
            /\ \A i \in 1..Len(ring') :
                 ring'[i] = IF i = Len(ring) + 1 THEN taken.slice ELSE ring[i]
        BY <1>3, <1>4, <4>1
      <4> QED BY <1>3, <2>2, <2>3, <3>1, <4>2
    <3>2. CASE taken.kind # "ready" BY <1>2, <2>2, <3>2
    <3> QED BY <3>1, <3>2
  <2>5. Fresh(slicing') /\ Fresh(sliceSlot') /\ Fresh(taken')
    BY <1>2, <2>1 DEF LoadsOnly, SlicesFresh, Fresh, R!workerVars
  <2>6. SlicesFresh' BY <2>4, <2>5 DEF SlicesFresh, Fresh
  <2> QED
    BY <1>2, <2>1, <2>6
    DEF LoadsOnly, Published, NothingNewer, CommandsKnown, R!modelVars, R!workerVars
<1> QED BY <1>7, <1>8, <1>9 DEF RebuildInv

-----------------------------------------------------------------------------
(* The worker.                                                             *)

LEMMA WorkerInv ==
  ASSUME R!RebuildAssumption,
         RebuildInv, R!WorkerNext
  PROVE  RebuildInv'
<1>1. R!TypeOK /\ IsAllocated BY DEF RebuildInv
<1>2. UNCHANGED <<R!audioVars, R!modelVars, worker, R!mainVars, ring, delivered>>
  BY DEF R!WorkerNext, R!ReadRequest, R!Forget, R!BuildSlice, R!PublishSlice
<1>3. /\ requested \in R!Identity /\ {reading, built} \subseteq R!Identity \cup {NoSlice}
      /\ {slicing, sliceSlot} \subseteq R!Outcome \cup {NoSlice}
  BY <1>1 DEF R!TypeOK
<1>4. ASSUME R!BuildSlice PROVE reading \in R!Identity /\ slicing' \in R!BuildSlimmable(reading)
  BY <1>3, <1>4 DEF R!BuildSlice
<1>5. /\ {reading', built'} \subseteq R!Identity \cup {NoSlice}
      /\ {slicing', sliceSlot'} \subseteq R!Outcome \cup {NoSlice}
  <2>1. CASE R!BuildSlice
    <3>1. slicing' \in R!Outcome BY <1>1, <1>4, <2>1, BuiltOutcome
    <3> QED BY <1>3, <2>1, <3>1 DEF R!BuildSlice
  <2>2. CASE R!ReadRequest BY <1>3, <2>2 DEF R!ReadRequest
  <2>3. CASE R!Forget BY <1>3, <2>3 DEF R!Forget
  <2>4. CASE R!PublishSlice BY <1>3, <2>4 DEF R!PublishSlice
  <2> QED BY <2>1, <2>2, <2>3, <2>4 DEF R!WorkerNext
<1>6. R!TypeOK' BY <1>1, <1>2, <1>5 DEF R!TypeOK, R!audioVars, R!modelVars, R!mainVars
<1>7. IsAllocated' BY <1>1, <1>2 DEF IsAllocated, R!modelVars
<1>8. ASSUME restores' = 0 PROVE LoadsOnly'
  <2>1. LoadsOnly BY <1>2, <1>8 DEF RebuildInv, R!modelVars
  <2>2. /\ Fresh(slicing) /\ Fresh(sliceSlot) /\ Fresh(NoSlice) /\ Published
        /\ requested.generation <= allocated
        /\ reading # NoSlice => reading.generation <= allocated
    BY <2>1 DEF LoadsOnly, SlicesFresh, NothingNewer, Fresh
  <2>3. Fresh(slicing') /\ Fresh(sliceSlot')
    <3>1. CASE R!BuildSlice
      <4>1. reading.generation <= allocated BY <2>2, <3>1 DEF R!BuildSlice
      <4>2. Fresh(slicing') BY <1>1, <1>4, <2>2, <3>1, <4>1, BuiltOutcome
      <4> QED BY <2>2, <3>1, <4>2 DEF R!BuildSlice
    <3>2. CASE R!ReadRequest BY <2>2, <3>2 DEF R!ReadRequest
    <3>3. CASE R!Forget BY <2>2, <3>3 DEF R!Forget
    <3>4. CASE R!PublishSlice BY <2>2, <3>4 DEF R!PublishSlice
    <3> QED BY <3>1, <3>2, <3>3, <3>4 DEF R!WorkerNext
  <2>4. reading' # NoSlice => reading'.generation <= allocated'
    BY <1>2, <2>2
    DEF R!WorkerNext, R!ReadRequest, R!Forget, R!BuildSlice, R!PublishSlice, R!modelVars
  <2>5. Fresh(taken') BY <1>2, <2>1 DEF LoadsOnly, SlicesFresh, R!mainVars
  <2>6. SlicesFresh' BY <1>2, <2>1, <2>3, <2>5 DEF LoadsOnly, SlicesFresh, Fresh
  <2>7. NothingNewer' BY <1>2, <2>1, <2>4 DEF LoadsOnly, NothingNewer, R!audioVars, R!modelVars
  <2> QED
    BY <1>2, <2>1, <2>6, <2>7 DEF LoadsOnly, Published, CommandsKnown, R!audioVars, R!modelVars
<1> QED BY <1>6, <1>7, <1>8 DEF RebuildInv

LEMMA RebuildNextInv ==
  ASSUME R!RebuildAssumption, RebuildInv, [R!Next]_R!vars
  PROVE  RebuildInv'
<1>1. CASE R!AudioNext
  BY <1>1, RequestInv, InstallModelInv, InstallSliceInv DEF R!AudioNext
<1>2. CASE R!MainNext
  BY <1>2, LoadModelInv, RestartInv, RestoreInv, TickInv, DeliverInv DEF R!MainNext
<1>3. CASE R!WorkerNext BY <1>3, WorkerInv
<1>4. CASE UNCHANGED R!vars
  <2>1. R!TypeOK'
    BY <1>4 DEF RebuildInv, R!TypeOK, R!vars, R!audioVars, R!modelVars, R!workerVars, R!mainVars
  <2>2. IsAllocated' BY <1>4 DEF RebuildInv, IsAllocated, R!vars, R!modelVars
  <2>3. restores' = 0 => LoadsOnly'
    BY <1>4
    DEF RebuildInv, LoadsOnly, Published, NothingNewer, SlicesFresh, Fresh, CommandsKnown,
        R!vars,
        R!audioVars, R!modelVars, R!workerVars, R!mainVars
  <2> QED BY <2>1, <2>2, <2>3 DEF RebuildInv
<1> QED BY <1>1, <1>2, <1>3, <1>4 DEF R!Next

-----------------------------------------------------------------------------
(* The theorems.                                                           *)

(* The strengthened invariant of the rebuild: the allocator counts loads   *)
(* and restores, and as long as nothing was restored no request, model or  *)
(* slice on its way is newer than full_wavenet_model                       *)
(* (commit_prepared_model_with_generation, load.rs).                       *)
THEOREM RebuildInvariant ==
  ASSUME R!RebuildAssumption
  PROVE  R!Spec => []RebuildInv
<1>1. R!Init => RebuildInv BY RebuildInitInv
<1>2. RebuildInv /\ [R!Next]_R!vars => RebuildInv' BY RebuildNextInv
<1> QED BY <1>1, <1>2, PTL DEF R!Spec

(* The state of the rebuild keeps its type and the slimmable ring its      *)
(* capacity (drain_slimmable_rebuild, housekeeping.rs:338).                *)
THEOREM RebuildTypes ==
  ASSUME R!RebuildAssumption
  PROVE  R!Spec => []R!TypeOK
<1>1. RebuildInv => R!TypeOK BY DEF RebuildInv
<1> QED BY <1>1, RebuildInvariant, PTL

(* As long as models come from loads, no slice of an older model ever runs *)
(* under a newer one, however long slices wait and requests race           *)
(* (SlimmableSwapHandler, events.rs:339).                                  *)
THEOREM NoOlderSliceRuns ==
  ASSUME R!RebuildAssumption
  PROVE  R!Spec => []NoOlderSlice
<1>1. RebuildInv => NoOlderSlice BY DEF RebuildInv, LoadsOnly, NoOlderSlice
<1> QED BY <1>1, RebuildInvariant, PTL

(* The rebuild implements RunningModel: whatever its threads do, what the  *)
(* audio thread runs moves by whole models and by slices that are no older *)
(* than the model they run under.                                          *)
THEOREM RebuildImplementsRunning ==
  ASSUME R!RebuildAssumption
  PROVE  R!Spec => RunningSpec
<1>1. R!Init => RunningInit
  BY DEF R!Init, RunningInit
<1>2. ASSUME RebuildInv, RebuildInv', [R!Next]_(R!vars)
      PROVE  [RunningNext]_runningVars
  <2>1. {running', weights'} \subseteq Nat /\ restores \in Nat
    BY <1>2, RebuildGenerations DEF RebuildInv, R!TypeOK
  <2>2. CASE R!InstallModel \/ R!Restart
    BY <2>1, <2>2 DEF R!InstallModel, R!Restart, RunningNext, RunModel
  <2>3. CASE R!InstallSlice
    <3>1. UNCHANGED <<running, restores>>
      BY <2>3 DEF R!InstallSlice, R!modelVars
    <3>2. restores = 0 => weights' >= running
      BY <1>2, <3>1 DEF RebuildInv, LoadsOnly
    <3> QED
      BY <2>1, <3>1, <3>2 DEF RunningNext, RunSlice
  <2>4. CASE R!PushRestore
    BY <2>4 DEF R!PushRestore, R!audioVars, RunningNext, BeginRestore
  <2>5. CASE \/ R!StoreWidth \/ R!RaiseFlag \/ R!LoadModel \/ R!PublishRestore \/ R!TakeSlot
             \/ R!RebuildInline \/ R!Deliver \/ R!PutBack \/ R!NothingBuilt \/ R!WorkerNext
             \/ UNCHANGED R!vars
    BY <2>5
    DEF R!StoreWidth, R!RaiseFlag, R!LoadModel, R!PublishRestore, R!TakeSlot, R!RebuildInline,
        R!Deliver, R!PutBack, R!NothingBuilt, R!WorkerNext, R!ReadRequest, R!Forget,
        R!BuildSlice, R!PublishSlice, R!vars, R!audioVars, R!modelVars, runningVars
  <2> QED
    BY <1>2, <2>2, <2>3, <2>4, <2>5 DEF R!Next, R!AudioNext, R!MainNext
<1> QED
  BY <1>1, <1>2, RebuildInvariant, PTL DEF R!Spec, RunningSpec

-----------------------------------------------------------------------------
(* One request, one slice.                                                 *)

(* What is true of the hands a slice goes through at any time.             *)
Hands ==
  /\ ticking = "idle" => taken = NoSlice
  /\ ~worker => reading = NoSlice /\ sliceSlot = NoSlice
  /\ slicing # NoSlice => reading # NoSlice

(* While no second request was made, the flag is up from the one request   *)
(* to its delivery, and what is under way is for it, in one place, and     *)
(* remembered by the worker once it is built.                              *)
AtRest == reading = NoSlice /\ sliceSlot = NoSlice /\ taken = NoSlice
Alone ==
  /\ signalling # NoSlice \/ requests = 0 => ~flag
  /\ requests = 0 => signalling = NoSlice
  /\ ~flag => AtRest
  /\ reading # NoSlice => reading = requested /\ sliceSlot = NoSlice /\ taken = NoSlice
  /\ sliceSlot # NoSlice => built = requested /\ taken = NoSlice
  /\ taken # NoSlice /\ worker => built = requested
OnceInv == requests \in Nat /\ Hands /\ (requests <= 1 => Alone)

LEMMA OnceInit ==
  ASSUME R!Init
  PROVE  OnceInv
BY DEF R!Init, OnceInv, Hands, Alone, AtRest

LEMMA OnceRequest ==
  ASSUME OnceInv, R!StoreWidth \/ R!RaiseFlag
  PROVE  OnceInv'
<1>1. UNCHANGED <<reading, slicing, built, worker, sliceSlot, ticking, taken>>
  BY DEF R!StoreWidth, R!RaiseFlag, R!workerVars, R!mainVars
<1>2. Hands'
  BY <1>1 DEF OnceInv, Hands
<1>3. CASE R!StoreWidth
  <2>1. signalling = NoSlice /\ requests' = requests + 1 /\ flag' = flag
    BY <1>3 DEF R!StoreWidth
  <2>2. requests' <= 1 => Alone'
    BY <1>1, <2>1 DEF OnceInv, Alone, AtRest
  <2> QED
    BY <1>2, <2>1, <2>2 DEF OnceInv
<1>4. CASE R!RaiseFlag
  <2>1. signalling # NoSlice /\ signalling' = NoSlice /\ requests' = requests /\ flag' = TRUE
    BY <1>4 DEF R!RaiseFlag
  <2>2. requests' <= 1 => Alone'
    BY <1>1, <2>1 DEF OnceInv, Alone, AtRest
  <2> QED
    BY <1>2, <2>1, <2>2 DEF OnceInv
<1> QED
  BY <1>3, <1>4

LEMMA OnceTick ==
  ASSUME OnceInv, R!TakeSlot \/ R!RebuildInline \/ R!Deliver \/ R!PutBack \/ R!NothingBuilt
  PROVE  OnceInv'
<1>1. UNCHANGED <<requested, signalling, requests, reading, slicing, built>>
  BY DEF R!TakeSlot, R!RebuildInline, R!Deliver, R!PutBack, R!NothingBuilt, R!audioVars,
         R!workerVars
<1>2. CASE R!TakeSlot
  BY <1>1, <1>2 DEF R!TakeSlot, R!audioVars, OnceInv, Hands, Alone, AtRest
<1>3. CASE R!RebuildInline
  BY <1>1, <1>3 DEF R!RebuildInline, R!audioVars, OnceInv, Hands, Alone, AtRest
<1>4. CASE R!Deliver
  BY <1>1, <1>4 DEF R!Deliver, OnceInv, Hands, Alone, AtRest
<1>5. CASE R!PutBack
  BY <1>1, <1>5 DEF R!PutBack, R!Retained, R!audioVars, OnceInv, Hands, Alone, AtRest
<1>6. CASE R!NothingBuilt
  BY <1>1, <1>6 DEF R!NothingBuilt, R!audioVars, OnceInv, Hands, Alone, AtRest
<1> QED
  BY <1>2, <1>3, <1>4, <1>5, <1>6

LEMMA OnceWorker ==
  ASSUME OnceInv, R!WorkerNext
  PROVE  OnceInv'
<1>1. UNCHANGED <<requested, flag, signalling, requests, worker, ticking, taken>>
  BY DEF R!WorkerNext, R!ReadRequest, R!Forget, R!BuildSlice, R!PublishSlice, R!audioVars,
         R!mainVars
<1>2. CASE R!ReadRequest
  BY <1>1, <1>2 DEF R!ReadRequest, R!Remembered, OnceInv, Hands, Alone, AtRest
<1>3. CASE R!Forget
  BY <1>1, <1>3 DEF R!Forget, OnceInv, Hands, Alone, AtRest
<1>4. CASE R!BuildSlice
  BY <1>1, <1>4 DEF R!BuildSlice, OnceInv, Hands, Alone, AtRest
<1>5. CASE R!PublishSlice
  BY <1>1, <1>5 DEF R!PublishSlice, OnceInv, Hands, Alone, AtRest
<1> QED
  BY <1>2, <1>3, <1>4, <1>5 DEF R!WorkerNext

(* Installs and changes of the model have no part in it.                   *)
LEMMA OnceElse ==
  ASSUME OnceInv,
         \/ R!InstallModel \/ R!InstallSlice \/ R!LoadModel \/ R!Restart \/ R!PushRestore
         \/ R!PublishRestore \/ UNCHANGED R!vars
  PROVE  OnceInv'
<1>1. UNCHANGED <<requested, flag, signalling, requests, reading, slicing, built, worker,
                  sliceSlot, ticking, taken>>
  BY DEF R!InstallModel, R!InstallSlice, R!LoadModel, R!Restart, R!PushRestore,
         R!PublishRestore, R!vars, R!audioVars, R!workerVars, R!mainVars
<1> QED
  BY <1>1 DEF OnceInv, Hands, Alone, AtRest

(* One request, one slice: while one request was made the worker fills its *)
(* slot only when nothing waits there, put back by a full ring or not      *)
(* (poll_rebuilds, model_loader.rs:286).                                   *)
THEOREM NothingIsBuiltTwice == R!Spec => R!NoRedundantBuild
<1>1. OnceInv /\ [R!Next]_(R!vars) => OnceInv'
  BY OnceRequest, OnceTick, OnceWorker, OnceElse DEF R!Next, R!AudioNext, R!MainNext
<1>2. OnceInv => (slicing # NoSlice /\ requests = 1 => sliceSlot = NoSlice)
  BY DEF OnceInv, Hands, Alone
<1>3. OnceInv => [sliceSlot' # sliceSlot /\ slicing # NoSlice /\ requests = 1
                    => sliceSlot = NoSlice]_(R!vars)
  BY <1>2
<1> QED
  BY OnceInit, <1>1, <1>3, PTL DEF R!Spec, R!NoRedundantBuild
=============================================================================
