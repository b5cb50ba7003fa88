------------------------- MODULE ExecutorStateProofs -------------------------
(***************************************************************************)
(* Proofs about ExecutorState for any lanes, any length of the ledger, any *)
(* audit tail and any number of jobs, cancels and crashes: what is served, *)
(* and what the coverage sidecar names.                                    *)
(***************************************************************************)
EXTENDS ExecutorState, FiniteSetTheorems, SequenceTheorems, WellFoundedInduction, TLAPS

-----------------------------------------------------------------------------
(* The inductive invariant.                                                *)

Kind   == {"tree", "on", "off", "reset"}
Lane   == {"legacy", "exact", "reconcile"}
Status == {"absent", "queued", "running", "complete", "failed", "superseded", "cancelled"}
Active == {"base", "reconcile", "flip", "collect", "build", "publish", "reserve", "finish"}
Mint   == [lane : Lane, mark : Nat, base : Nat, target : Nat, span : BOOLEAN]
Versions == 0 .. MaxEvents + MaxNative

Types ==
  /\ kind \in Seq(Kind) /\ Len(kind) <= MaxEvents /\ native \in 0 .. MaxNative
  /\ version = Len(kind) + native /\ acked \in 0 .. Len(kind) /\ pruned \in Nat
  /\ carries \in BOOLEAN /\ status \in [JobId -> Status] /\ spec \in [JobId -> Mint]
  /\ results = [v \in Versions |-> results[v]]
  /\ sidecar = [covered |-> sidecar.covered, gen |-> sidecar.gen]
  /\ gens = [j \in JobId |-> gens[j]]
  /\ pc \in Active \cup {"idle", "down"} /\ cur \in JobId \cup {None}
  /\ seen \in [low : Nat, top : Nat, at : Nat]

Used == {j \in JobId : status[j] # "absent"}

\* Job rows are numbered in the order they are inserted, with growing marks and
\* targets; a job is for the current version only while the ledger ends at its
\* mark.
Rows ==
  /\ IsFiniteSet(Used) /\ \A j \in JobId : j \in Used <=> j < NextJob
  /\ \A j \in Used :
       /\ spec[j].mark <= Len(kind) /\ spec[j].target <= version /\ spec[j].base <= acked
       /\ spec[j].target = version => spec[j].mark = Len(kind)
       /\ \A i \in Used : i < j =>
            spec[i].mark <= spec[j].mark /\ spec[i].target < spec[j].target

\* Jobs run one at a time and in order.
Order ==
  /\ \A j, k \in JobId : status[j] = "complete" /\ status[k] \in Live => j < k
  /\ \A j, k \in JobId : status[j] = "running" /\ status[k] = "queued" => j < k
  /\ \A j, k \in JobId : status[j] = "running" /\ status[k] = "running" => j = k
  /\ \A j \in JobId : status[j] = "running" => pc # "idle" /\ (pc # "down" => j = cur)

\* No family edit is in effect at a ledger position.
Plain(kd, n) == \A s \in 1 .. n : kd[s] \in Family => \E r \in s .. n : kd[r] = "reset"

\* The job in progress and what it has read.
Runner ==
  pc \in Active =>
    /\ cur \in JobId /\ status[cur] \in {"running", "cancelled"}
    /\ \A j \in JobId : status[j] = "complete" => j < cur
    /\ \A k \in JobId : status[k] = "queued" => cur < k
    /\ seen.top <= Len(kind) /\ Job.mark <= seen.top
    /\ pc = "base" => Plain(kind, seen.top)

\* carries_family_edits is set while a family edit is in effect.
CarriesFamilies == ~carries => Plain(kind, Len(kind))

\* The ledger at a position: the trees that stand, the cell as painted by the
\* last family edit, and whether some edit since the last reset painted it.
TreesOf(kd, n) == {s \in 1 .. n : kd[s] = "tree" /\ \A r \in s .. n : kd[r] # "reset"}
PaintOf(kd, n) ==
  \E s \in 1 .. n : kd[s] = "on" /\ \A r \in s .. n : kd[r] \notin {"off", "reset"}
OnceOn(kd, n) == \E s \in 1 .. n : kd[s] = "on" /\ \A r \in s .. n : kd[r] # "reset"

SameLane(sp, j) == \A i \in 1 .. j : sp[i].lane = sp[j].lane

\* A snapshot of job j for a mark: every tree, and no other but those it owes a
\* solve; the cell only if it was painted once, and exactly as it is when the
\* jobs up to j are all of one lane.
Faithful(kd, n, sp, scene, owed, mark, j) ==
  /\ \A p \in scene \ {Cell} :
       /\ p \in 1 .. n /\ kd[p] = "tree"
       /\ p <= mark => p \in TreesOf(kd, mark)
       /\ p > mark => p \in owed
  /\ TreesOf(kd, mark) \subseteq scene
  /\ Cell \in scene => OnceOn(kd, mark)
  /\ SameLane(sp, j) => (Cell \in scene <=> PaintOf(kd, mark))

\* A result of job j for a mark: no tree that does not stand; every tree, unless
\* a result it goes back to was served for another scene.
Shown(kd, sp, scene, own, mark, j) ==
  /\ scene \ {Cell} \subseteq TreesOf(kd, mark)
  /\ Cell \in scene => OnceOn(kd, mark)
  /\ own => TreesOf(kd, mark) \subseteq scene
  /\ own /\ SameLane(sp, j) => (Cell \in scene <=> PaintOf(kd, mark))

\* A ledger position that the latest result is not behind.
Reached(m) == m = 0 \/ \E v \in Served : results[v].mark >= m

\* The version and the mark of every result grow together, and the latest is
\* behind no reset, no acknowledgement and no completed job.
Shelf ==
  /\ \A v \in Served :
       /\ v <= version /\ results[v].mark \in 0 .. Len(kind)
       /\ results[v].job \in Used \cup {None}
       /\ results[v].job = None => results[v].scene = {}
       /\ results[v].job # None => spec[results[v].job].target = v
       /\ \A j \in Used : spec[j].target = v => results[v].mark = spec[j].mark
       /\ \A u \in Served : u < v => results[u].mark <= results[v].mark
  /\ \A r \in 1 .. Len(kind) : kind[r] = "reset" => Reached(r)
  /\ \A j \in JobId : status[j] = "complete" => Reached(spec[j].mark)
  /\ pc = "finish" => Reached(Job.mark)
  /\ Reached(acked)

\* A snapshot of job j, and those on disk.
Kept(snap, j) == snap.is /\ snap.lane = spec[j].lane

\* The job may still complete.
Current(j) ==
  \/ version = spec[j].target
  \/ cur = j /\ (pc = "finish" \/ (pc = "reserve" /\ MaxOf(Served) = spec[j].target))

Snapshots ==
  /\ \A j \in JobId : gens[j].is =>
       /\ status[j] = "complete" /\ Kept(gens[j], j)
       /\ Faithful(kind, Len(kind), spec, gens[j].scene, gens[j].owed, spec[j].mark, j)
  /\ pending.is =>
       /\ pending.job \in Used /\ pending.covered = spec[pending.job].mark
       /\ Kept(pending.snap, pending.job)
       /\ status[pending.job] = "complete" \/ Current(pending.job) =>
            Faithful(kind, Len(kind), spec, pending.snap.scene, pending.snap.owed,
                     pending.covered, pending.job)

\* The promotion, and the generation the sidecar names.
Sidecar ==
  /\ sidecar.gen \in JobId \cup {None} /\ (sidecar.gen = None => sidecar.covered = 0)
  /\ sidecar.gen # None => gens[sidecar.gen].is /\ sidecar.covered = spec[sidecar.gen].mark
  /\ pc \in {"flip", "collect"} =>
       meta.job \in JobId /\ gens[meta.job].is /\ meta.covered = spec[meta.job].mark
  /\ pc = "collect" => sidecar.gen = meta.job

\* Whether the latest result, served again, counts as the job's own.
ReservesOwn == Latest.own /\ built.over = Latest.job /\ built.owed = {}

\* What the job has computed or would serve again, and what was published.
Published ==
  \A v \in Served :
    Shown(kind, spec, results[v].scene, results[v].own, results[v].mark, results[v].job)
Outcome ==
  version = Job.target =>
    /\ pc = "publish" => Shown(kind, spec, built.scene, built.own, Job.mark, cur)
    /\ pc = "reserve" /\ Served # {} =>
         Shown(kind, spec, Latest.scene, ReservesOwn, Job.mark, cur)

IInv == /\ Types /\ Rows /\ Order /\ Runner /\ CarriesFamilies /\ Shelf
        /\ Snapshots /\ Sidecar /\ Published /\ Outcome

-----------------------------------------------------------------------------
(* The ledger.                                                             *)

\* A bounded set of positions has a greatest member, or none and MaxOf is zero.
LEMMA MaxOfFacts ==
  ASSUME NEW n \in Nat, NEW S \in SUBSET (0 .. n)
  PROVE  MaxOf(S) \in S \cup {0} /\ MaxOf(S) \in 0 .. n /\ \A x \in S : x <= MaxOf(S)
<1> DEFINE U == {m \in Nat : \A x \in S : x <= m}
<1>1. n \in U
  OBVIOUS
<1>2. PICK m \in U : \A y \in U : ~(<<y, m>> \in OpToRel(<, Nat))
  <2>1. U \subseteq Nat /\ U # {}
    BY <1>1
  <2> HIDE DEF U
  <2> QED BY <2>1, WFMin, NatLessThanWellFounded
<1>3. \A y \in U : ~(y < m)
  BY <1>2 DEF OpToRel
<1>4. m \in S \cup {0}
  <2> SUFFICES ASSUME m \notin S, m # 0 PROVE FALSE
    OBVIOUS
  <2>1. m - 1 \in Nat /\ \A x \in S : x <= m - 1
    OBVIOUS
  <2>2. m - 1 \in U
    BY <2>1
  <2>3. m \in Nat /\ m - 1 < m
    OBVIOUS
  <2> HIDE DEF U
  <2> QED BY <1>3, <2>2, <2>3
<1>5. \E k \in S \cup {0} : \A x \in S : x <= k
  BY <1>4
<1>6. MaxOf(S) \in S \cup {0} /\ \A x \in S : x <= MaxOf(S)
  BY <1>5 DEF MaxOf
<1> DEFINE w == MaxOf(S)
<1> HIDE DEF w
<1>7. w \in S \cup {0} => w \in 0 .. n
  OBVIOUS
<1> QED BY <1>6, <1>7 DEF w

\* What stands at a position never changes when the ledger grows.
LEMMA LedgerStable ==
  ASSUME NEW kd, NEW kc, NEW mark \in Nat, \A s \in 1 .. mark : kc[s] = kd[s]
  PROVE  /\ TreesOf(kc, mark) = TreesOf(kd, mark)
         /\ PaintOf(kc, mark) <=> PaintOf(kd, mark)
         /\ OnceOn(kc, mark) <=> OnceOn(kd, mark)
         /\ Plain(kd, mark) => Plain(kc, mark)
<1>1. \A s \in 1 .. mark : \A r \in s .. mark : r \in 1 .. mark /\ kc[r] = kd[r]
  OBVIOUS
<1>2. TreesOf(kc, mark) = TreesOf(kd, mark)
  BY <1>1 DEF TreesOf
<1>3. PaintOf(kc, mark) <=> PaintOf(kd, mark)
  BY <1>1 DEF PaintOf
<1>4. OnceOn(kc, mark) <=> OnceOn(kd, mark)
  BY <1>1 DEF OnceOn
<1>5. Plain(kd, mark) => Plain(kc, mark)
  BY <1>1 DEF Plain
<1> QED BY <1>2, <1>3, <1>4, <1>5

\* Nor do the lanes of the rows up to one that is in use.
LEMMA LanesStable ==
  ASSUME NEW sp, NEW sq, NEW j \in Nat, \A i \in 1 .. j : sq[i] = sp[i]
  PROVE  SameLane(sq, j) => SameLane(sp, j)
<1>1. CASE j = 0
  BY <1>1 DEF SameLane
<1>2. CASE j # 0
  <2>1. j \in 1 .. j
    BY <1>2
  <2> QED BY <2>1 DEF SameLane
<1> QED BY <1>1, <1>2

\* A snapshot or a result stays what it was.
LEMMA FaithfulStable ==
  ASSUME NEW n \in Nat, NEW m \in Nat, n <= m,
         NEW kd, NEW kc, \A s \in 1 .. n : kc[s] = kd[s], NEW mark \in 0 .. n,
         NEW sp, NEW sq, NEW j \in Nat, \A i \in 1 .. j : sq[i] = sp[i],
         NEW scene, NEW owed, Faithful(kd, n, sp, scene, owed, mark, j)
  PROVE  Faithful(kc, m, sq, scene, owed, mark, j)
<1>1. /\ TreesOf(kc, mark) = TreesOf(kd, mark) /\ (PaintOf(kc, mark) <=> PaintOf(kd, mark))
      /\ OnceOn(kc, mark) <=> OnceOn(kd, mark)
  <2>1. mark \in Nat /\ \A s \in 1 .. mark : kc[s] = kd[s]
    OBVIOUS
  <2> QED BY <2>1, LedgerStable
<1>2. SameLane(sq, j) => SameLane(sp, j)
  BY LanesStable
<1>3. \A p \in scene \ {Cell} :
        /\ p \in 1 .. m /\ kc[p] = "tree"
        /\ p <= mark => p \in TreesOf(kc, mark)
        /\ p > mark => p \in owed
  BY <1>1 DEF Faithful
<1>4. TreesOf(kc, mark) \subseteq scene /\ (Cell \in scene => OnceOn(kc, mark))
  BY <1>1 DEF Faithful
<1>5. SameLane(sq, j) => (Cell \in scene <=> PaintOf(kc, mark))
  BY <1>1, <1>2 DEF Faithful
<1> QED BY <1>3, <1>4, <1>5 DEF Faithful

LEMMA ShownStable ==
  ASSUME NEW kd, NEW kc, NEW mark \in Nat, \A s \in 1 .. mark : kc[s] = kd[s],
         NEW sp, NEW sq, NEW j \in Nat, \A i \in 1 .. j : sq[i] = sp[i],
         NEW scene, NEW own, Shown(kd, sp, scene, own, mark, j)
  PROVE  Shown(kc, sq, scene, own, mark, j)
<1>1. /\ TreesOf(kc, mark) = TreesOf(kd, mark) /\ (PaintOf(kc, mark) <=> PaintOf(kd, mark))
      /\ OnceOn(kc, mark) <=> OnceOn(kd, mark)
  BY LedgerStable
<1>2. SameLane(sq, j) => SameLane(sp, j)
  BY LanesStable
<1> QED BY <1>1, <1>2 DEF Shown

\* An appended event.
LEMMA LedgerGrows ==
  ASSUME kind \in Seq(Kind), NEW k \in Kind, kind' = Append(kind, k)
  PROVE  /\ kind' \in Seq(Kind) /\ Len(kind') = Len(kind) + 1 /\ Len(kind) \in Nat
         /\ \A s \in 1 .. Len(kind) : kind'[s] = kind[s]
         /\ kind'[Len(kind) + 1] = k
BY AppendProperties, LenProperties

\* Positions without a reset add their trees to those that stand.
LEMMA TreesSplit ==
  ASSUME NEW f \in Nat, NEW n \in Nat, f <= n, \A r \in f + 1 .. n : kind[r] # "reset"
  PROVE  /\ TreesOf(kind, n) = TreesOf(kind, f) \cup {s \in f + 1 .. n : kind[s] = "tree"}
         /\ OnceOn(kind, f) => OnceOn(kind, n)
<1>1. ASSUME NEW s \in 1 .. n
      PROVE  \/ s \in 1 .. f /\ ((\A r \in s .. n : kind[r] # "reset") <=>
                                 (\A r \in s .. f : kind[r] # "reset"))
             \/ s \in f + 1 .. n /\ \A r \in s .. n : kind[r] # "reset"
  <2>1. CASE s <= f
    <3>1. \A r \in s .. f : r \in s .. n
      BY <2>1
    <3>2. \A r \in s .. n : r \in s .. f \/ r \in f + 1 .. n
      BY <2>1
    <3> QED BY <2>1, <3>1, <3>2
  <2>2. CASE ~(s <= f)
    <3>1. s \in f + 1 .. n /\ \A r \in s .. n : r \in f + 1 .. n
      BY <2>2
    <3> QED BY <3>1
  <2> QED BY <2>1, <2>2
<1>2. \A s \in 1 .. f : s \in 1 .. n
  OBVIOUS
<1>3. \A s \in f + 1 .. n : s \in 1 .. n /\ s \notin 1 .. f
  OBVIOUS
<1>4. TreesOf(kind, n) = TreesOf(kind, f) \cup {s \in f + 1 .. n : kind[s] = "tree"}
  BY <1>1, <1>2, <1>3 DEF TreesOf
<1>5. OnceOn(kind, f) => OnceOn(kind, n)
  <2> SUFFICES ASSUME NEW s \in 1 .. f, kind[s] = "on", \A r \in s .. f : kind[r] # "reset"
               PROVE  OnceOn(kind, n)
    BY DEF OnceOn
  <2>1. s \in 1 .. n /\ s \notin f + 1 .. n
    OBVIOUS
  <2>2. \A r \in s .. n : kind[r] # "reset"
    BY <1>1, <2>1
  <2> QED BY <2>1, <2>2 DEF OnceOn
<1> QED BY <1>4, <1>5

\* Positions without a reset and a family edit leave the cell as it was.
LEMMA PaintSplit ==
  ASSUME NEW f \in Nat, NEW n \in Nat, f <= n,
         \A r \in f + 1 .. n : kind[r] # "reset" /\ kind[r] \notin Family
  PROVE  PaintOf(kind, n) <=> PaintOf(kind, f)
<1>1. ASSUME NEW s \in 1 .. n, kind[s] = "on", \A r \in s .. n : kind[r] \notin {"off", "reset"}
      PROVE  PaintOf(kind, f)
  <2>1. s \notin f + 1 .. n
    BY <1>1 DEF Family
  <2>2. s \in 1 .. f /\ \A r \in s .. f : r \in s .. n
    BY <2>1
  <2> QED BY <1>1, <2>2 DEF PaintOf
<1>2. ASSUME NEW s \in 1 .. f, kind[s] = "on", \A r \in s .. f : kind[r] \notin {"off", "reset"}
      PROVE  PaintOf(kind, n)
  <2>1. \A r \in s .. n : r \in s .. f \/ r \in f + 1 .. n
    OBVIOUS
  <2>2. s \in 1 .. n /\ \A r \in s .. n : kind[r] \notin {"off", "reset"}
    BY <1>2, <2>1 DEF Family
  <2> QED BY <1>2, <2>2 DEF PaintOf
<1> QED BY <1>1, <1>2 DEF PaintOf

\* The last family edit after the last reset decides about the cell.
LEMMA PaintLast ==
  ASSUME NEW n \in Nat, NEW l \in 1 .. n, kind[l] \in Family,
         \A r \in l + 1 .. n : kind[r] # "reset" /\ kind[r] \notin Family
  PROVE  /\ PaintOf(kind, n) <=> kind[l] = "on"
         /\ kind[l] = "on" => OnceOn(kind, n)
<1>1. ASSUME kind[l] = "on" PROVE PaintOf(kind, n) /\ OnceOn(kind, n)
  <2>1. \A r \in l .. n : r = l \/ r \in l + 1 .. n
    OBVIOUS
  <2>2. \A r \in l .. n : kind[r] \notin {"off", "reset"}
    BY <1>1, <2>1 DEF Family
  <2> QED BY <1>1, <2>2 DEF PaintOf, OnceOn
<1>2. ASSUME NEW s \in 1 .. n, kind[s] = "on", \A r \in s .. n : kind[r] \notin {"off", "reset"}
      PROVE  kind[l] = "on"
  <2>1. s \notin l + 1 .. n
    BY <1>2 DEF Family
  <2>2. l \in s .. n
    BY <2>1
  <2> QED BY <1>2, <2>2 DEF Family
<1> QED BY <1>1, <1>2 DEF PaintOf

\* Nothing stands at a reset, nor at the start.
LEMMA NothingStands ==
  ASSUME NEW r \in Nat, r = 0 \/ kind[r] = "reset"
  PROVE  TreesOf(kind, r) = {} /\ ~PaintOf(kind, r) /\ ~OnceOn(kind, r)
<1>1. \A s \in 1 .. r : r \in s .. r /\ kind[r] = "reset"
  OBVIOUS
<1> QED BY <1>1 DEF TreesOf, PaintOf, OnceOn

\* Where no family edit is in effect the cell was not painted.
LEMMA PlainIsBlank ==
  ASSUME NEW n \in Nat, Plain(kind, n)
  PROVE  ~PaintOf(kind, n) /\ ~OnceOn(kind, n)
BY DEF Plain, PaintOf, OnceOn, Family

\* scenario_trees are the trees that stand.
LEMMA TreeListIs == TreeList = TreesOf(kind, seen.top) /\ \A n : Trees(n) = TreesOf(kind, n)
BY DEF TreeList, Trees, TreesOf

-----------------------------------------------------------------------------
(* The results.                                                            *)

\* The latest result is the one of the highest version and of the highest mark.
LEMMA LatestFacts ==
  ASSUME Types, Shelf, Served # {}
  PROVE  /\ MaxOf(Served) \in Served /\ Latest = results[MaxOf(Served)]
         /\ \A v \in Served : v <= MaxOf(Served) /\ results[v].mark <= Latest.mark
         /\ Latest.mark \in 0 .. Len(kind)
         /\ \A m \in Nat : Reached(m) => m <= Latest.mark
<1> DEFINE S == Served
           x == MaxOf(Served)
<1>1. version \in Nat /\ Len(kind) \in Nat
  BY LenProperties DEF Types
<1>2. \A v \in S : v \in 0 .. version
  <2>1. DOMAIN results = Versions
    BY DEF Types
  <2> QED BY <1>1, <2>1 DEF Served, Shelf, Versions
<1>3. x = MaxOf(S) /\ S # {} /\ S \in SUBSET (0 .. version)
  BY <1>2
<1> HIDE DEF S, x
<1>4. x \in S \cup {0} /\ x \in 0 .. version /\ \A y \in S : y <= x
  BY <1>1, <1>3, MaxOfFacts
<1>5. x \in S
  <2> SUFFICES ASSUME x = 0 PROVE 0 \in S
    BY <1>4
  <2>1. PICK y \in S : TRUE
    BY <1>3
  <2>2. y \in 0 .. version /\ y <= 0
    BY <1>3, <1>4, <2>1
  <2> QED BY <1>1, <2>1, <2>2
<1>6. \A v \in Served : v <= x /\ results[v].mark <= results[x].mark
  <2> SUFFICES ASSUME NEW v \in Served PROVE v <= x /\ results[v].mark <= results[x].mark
    OBVIOUS
  <2>1. v <= x /\ v \in 0 .. version /\ x \in Served
    BY <1>3, <1>4, <1>5 DEF S
  <2>2. results[v].mark \in 0 .. Len(kind)
    BY DEF Shelf
  <2>3. v < x => results[v].mark <= results[x].mark
    BY <2>1 DEF Shelf
  <2> QED BY <1>1, <1>4, <2>1, <2>2, <2>3
<1>7. results[x].mark \in 0 .. Len(kind)
  BY <1>5 DEF Shelf, S
<1>8. \A m \in Nat : Reached(m) => m <= results[x].mark
  <2> SUFFICES ASSUME NEW m \in Nat, Reached(m) PROVE m <= results[x].mark
    OBVIOUS
  <2>1. CASE m = 0
    BY <1>7, <2>1
  <2>2. CASE m # 0
    <3>1. PICK v \in Served : results[v].mark >= m
      BY <2>2 DEF Reached
    <3>2. results[v].mark \in 0 .. Len(kind) /\ results[v].mark <= results[x].mark
      BY <1>6 DEF Shelf
    <3> QED BY <1>1, <1>7, <3>1, <3>2
  <2> QED BY <2>1, <2>2
<1>9. Latest = results[x]
  BY DEF Latest, x
<1> QED BY <1>5, <1>6, <1>7, <1>8, <1>9 DEF S, x

\* No reset is newer than the latest result; without a result there is none.
LEMMA NoResetSince ==
  ASSUME Types, Shelf
  PROVE  \A r \in 1 .. Len(kind) :
           kind[r] = "reset" => Served # {} /\ r <= Latest.mark
<1> SUFFICES ASSUME NEW r \in 1 .. Len(kind), kind[r] = "reset"
             PROVE  Served # {} /\ r <= Latest.mark
  OBVIOUS
<1>1. Reached(r) /\ r \in Nat /\ r # 0
  BY DEF Shelf
<1>2. Served # {}
  BY <1>1 DEF Reached
<1> QED BY <1>1, <1>2, LatestFacts

\* A row that is in use has only rows in use before it.
LEMMA NextJobFacts ==
  ASSUME Types, Rows
  PROVE  /\ NextJob \in Nat \ {0} /\ NextJob = Cardinality(Used) + 1
         /\ NextJob <= MaxJobs => NextJob \in JobId /\ NextJob \notin Used
<1>1. IsFiniteSet(Used) /\ \A j \in JobId : j \in Used <=> j < NextJob
  BY DEF Rows
<1>2. NextJob = Cardinality(Used) + 1
  BY DEF NextJob, Used
<1>3. Cardinality(Used) \in Nat
  BY <1>1, FS_CardinalityType
<1> QED BY <1>1, <1>2, <1>3, LanesAssumption DEF JobId

LEMMA UsedPrefix ==
  ASSUME Types, Rows, NEW j \in Used \cup {None}
  PROVE  j \in Nat /\ \A i \in 1 .. j : i \in Used
<1>1. NextJob \in Nat
  BY NextJobFacts
<1>2. CASE j = None
  BY <1>2 DEF None
<1>3. CASE j \in Used
  <2>1. j \in JobId /\ j < NextJob
    BY <1>3 DEF Rows, Used
  <2>2. \A i \in 1 .. j : i \in JobId /\ i < NextJob
    BY <1>1, <2>1, LanesAssumption DEF JobId
  <2> QED BY <2>1, <2>2 DEF Rows, JobId
<1> QED BY <1>2, <1>3

\* The result of a job that came no later than a current one.
LEMMA ResultJob ==
  ASSUME Types, Rows, Shelf, NEW v \in Served, NEW k \in Used, version = spec[k].target
  PROVE  /\ results[v].job \in Nat /\ results[v].job <= k
         /\ SameLane(spec, k) => SameLane(spec, results[v].job)
         /\ results[v].job # None => results[v].mark = spec[results[v].job].mark
<1> DEFINE j == results[v].job
<1>1. /\ j \in Used \cup {None} /\ v <= version /\ (j # None => spec[j].target = v)
      /\ j # None => results[v].mark = spec[j].mark
  BY DEF Shelf
<1>2. j \in Nat /\ k \in JobId /\ k \in Nat
  BY <1>1, UsedPrefix DEF Used
<1> HIDE DEF j
<1>3. j <= k
  <2> SUFFICES ASSUME j # None, k < j PROVE FALSE
    BY <1>2 DEF None, JobId
  <2>1. j \in Used /\ spec[k].target < spec[j].target
    BY <1>1 DEF Rows
  <2>2. spec[k].target \in Nat /\ spec[j].target \in Nat
    BY <2>1 DEF Types, Mint, Used
  <2> QED BY <1>1, <2>1, <2>2
<1>4. SameLane(spec, k) => SameLane(spec, j)
  <2>1. CASE j = 0
    BY <2>1 DEF SameLane
  <2>2. CASE j # 0
    <3>1. j \in 1 .. k /\ \A i \in 1 .. j : i \in 1 .. k
      BY <1>2, <1>3, <2>2
    <3> QED BY <3>1 DEF SameLane
  <2> QED BY <2>1, <2>2
<1> QED BY <1>1, <1>2, <1>3, <1>4 DEF j

-----------------------------------------------------------------------------
(* The solve.                                                              *)

\* A job for the current version has read the whole ledger.
LEMMA JobIsCurrent ==
  ASSUME Types, Rows, Runner, pc \in Active
  PROVE  /\ cur \in Used /\ cur \in JobId /\ Job.mark \in Nat /\ seen.low \in Nat
         /\ Job.mark <= seen.top /\ seen.top \in 0 .. Len(kind) /\ Len(kind) \in Nat
         /\ version = Job.target => Job.mark = Len(kind) /\ seen.top = Len(kind)
<1>1. cur \in JobId /\ status[cur] # "absent" /\ seen.top <= Len(kind) /\ Job.mark <= seen.top
  BY DEF Runner
<1>2. cur \in Used
  BY <1>1 DEF Used
<1>3. version = Job.target => Job.mark = Len(kind)
  BY <1>2 DEF Rows, Job
<1>4. Len(kind) \in Nat /\ seen.top \in Nat /\ seen.low \in Nat
  BY LenProperties DEF Types
<1>5. Job.mark \in Nat
  BY <1>1 DEF Types, Mint, Job
<1> QED BY <1>1, <1>2, <1>3, <1>4, <1>5

\* What the coverage names is older than the job.
LEMMA CoverageFacts ==
  ASSUME Types, Rows, Runner, Shelf, Snapshots, Sidecar, pc \in Active
  PROVE  /\ Coverage = sidecar /\ sidecar.gen \in JobId \cup {None}
         /\ sidecar.covered \in Nat /\ Reached(sidecar.covered)
         /\ sidecar.covered <= Job.mark
         /\ sidecar.gen = None => sidecar.covered = 0
         /\ sidecar.gen # None =>
              /\ gens[sidecar.gen].lane = spec[sidecar.gen].lane /\ sidecar.gen < cur
              /\ sidecar.covered = spec[sidecar.gen].mark
              /\ Faithful(kind, Len(kind), spec, gens[sidecar.gen].scene,
                          gens[sidecar.gen].owed, sidecar.covered, sidecar.gen)
<1>1. sidecar.gen \in JobId \cup {None} /\ (sidecar.gen = None => sidecar.covered = 0)
      /\ (sidecar.gen # None => gens[sidecar.gen].is /\ sidecar.covered = spec[sidecar.gen].mark)
  BY DEF Sidecar
<1>2. Coverage = sidecar
  BY <1>1 DEF Coverage
<1>3. CASE sidecar.gen = None
  <2>1. Reached(0) /\ Job.mark \in Nat
    BY JobIsCurrent DEF Reached
  <2> QED BY <1>1, <1>2, <1>3, <2>1
<1>4. CASE sidecar.gen # None
  <2> DEFINE g == sidecar.gen
  <2>1. g \in JobId /\ gens[g].is /\ sidecar.covered = spec[g].mark
    BY <1>1, <1>4
  <2> HIDE DEF g
  <2>2. /\ status[g] = "complete" /\ gens[g].lane = spec[g].lane
        /\ Faithful(kind, Len(kind), spec, gens[g].scene, gens[g].owed, spec[g].mark, g)
    BY <2>1 DEF Snapshots, Kept
  <2>3. g < cur /\ cur \in JobId /\ status[cur] # "absent"
    BY <2>1, <2>2 DEF Runner
  <2>4. g \in Used /\ cur \in Used
    BY <2>1, <2>2, <2>3 DEF Used
  <2>5. spec[g].mark <= spec[cur].mark /\ spec[g].mark \in Nat
    BY <2>1, <2>3, <2>4 DEF Rows, Types, Mint
  <2>6. /\ Faithful(kind, Len(kind), spec, gens[g].scene, gens[g].owed, sidecar.covered, g)
        /\ Reached(sidecar.covered)
    <3>1. Reached(spec[g].mark)
      BY <2>1, <2>2 DEF Shelf
    <3> QED BY <2>1, <2>2, <3>1, Zenon
  <2>7. sidecar.covered \in Nat /\ sidecar.covered <= Job.mark
    BY <2>1, <2>5 DEF Job
  <2>8. g = sidecar.gen
    BY DEF g
  <2> QED BY <1>1, <1>2, <1>4, <2>1, <2>2, <2>3, <2>6, <2>7, <2>8
<1> QED BY <1>3, <1>4

\* The last family edit of a batch, if it has one.
LEMMA LastFamilyIs ==
  ASSUME NEW n \in Nat, NEW f \in 0 .. n, NEW batch \in SUBSET (f + 1 .. n)
  PROVE  \/ LastFamily(batch) = 0 /\ \A s \in batch : kind[s] \notin Family
         \/ /\ LastFamily(batch) \in batch /\ LastFamily(batch) # 0
            /\ kind[LastFamily(batch)] \in Family
            /\ \A s \in batch : kind[s] \in Family => s <= LastFamily(batch)
<1> DEFINE S == {s \in batch : kind[s] \in Family}
           l == LastFamily(batch)
<1>1. l = MaxOf(S)
  BY DEF LastFamily
<1>2. S \in SUBSET (0 .. n)
  <2>1. \A s \in f + 1 .. n : s \in 0 .. n
    OBVIOUS
  <2> QED BY <2>1
<1> HIDE DEF S, l
<1>3. l \in S \cup {0} /\ \A s \in S : s <= l
  BY <1>1, <1>2, MaxOfFacts
<1>4. CASE l = 0
  <2>1. \A s \in batch : kind[s] \notin Family
    BY <1>3, <1>4 DEF S
  <2> QED BY <1>4, <2>1 DEF l
<1>5. CASE l # 0
  <2>1. l \in S
    BY <1>3, <1>5
  <2> QED BY <1>3, <1>5, <2>1 DEF l, S
<1> QED BY <1>4, <1>5

\* A batch with every edit above its base's position, over that base, gives the
\* scene of the batch's end.
LEMMA ApplyFaithful ==
  ASSUME NEW n \in 0 .. Len(kind), Len(kind) \in Nat, NEW f \in 0 .. n,
         \A r \in f + 1 .. n : kind[r] # "reset",
         NEW batch \in SUBSET (f + 1 .. n),
         \A s \in f + 1 .. n : kind[s] \in Family => s \in batch,
         NEW base, NEW owed, NEW j,
         \A s \in f + 1 .. n : kind[s] = "tree" => s \in base \cup batch,
         \A p \in base \ {Cell} :
           /\ p \in 1 .. Len(kind) /\ kind[p] = "tree"
           /\ p <= n => p \in TreesOf(kind, n)
           /\ p > n => p \in owed,
         TreesOf(kind, f) \subseteq base, Cell \in base => OnceOn(kind, f),
         SameLane(spec, j) => (Cell \in base <=> PaintOf(kind, f))
  PROVE  Faithful(kind, Len(kind), spec, Apply(base, batch), owed, n, j)
<1> DEFINE l == LastFamily(batch)
           scene == Apply(base, batch)
<1>1. \/ l = 0 /\ \A s \in batch : kind[s] \notin Family
      \/ /\ l \in batch /\ l # 0 /\ kind[l] \in Family
         /\ \A s \in batch : kind[s] \in Family => s <= l
  <2>1. n \in Nat
    OBVIOUS
  <2> QED BY <2>1, LastFamilyIs
<1>2. scene = {p \in base : p # Cell \/ l = 0} \cup {s \in batch : kind[s] = "tree"}
                \cup {c \in {Cell} : l # 0 /\ kind[l] = "on"}
  BY DEF Apply
<1> HIDE DEF l, scene
<1>3. TreesOf(kind, n) = TreesOf(kind, f) \cup {s \in f + 1 .. n : kind[s] = "tree"}
      /\ (OnceOn(kind, f) => OnceOn(kind, n))
  BY TreesSplit
<1>4. \A s \in batch : s # Cell
  BY DEF Cell
<1>5. ASSUME NEW p \in scene \ {Cell}
      PROVE  /\ p \in 1 .. Len(kind) /\ kind[p] = "tree"
             /\ p <= n => p \in TreesOf(kind, n)
             /\ p > n => p \in owed
  <2>1. CASE p \in base
    BY <2>1
  <2>2. CASE p \in batch /\ kind[p] = "tree"
    <3>1. p \in f + 1 .. n /\ p \in 1 .. Len(kind) /\ p <= n
      BY <2>2
    <3>2. p \in TreesOf(kind, n)
      BY <1>3, <2>2, <3>1
    <3> QED BY <2>2, <3>1, <3>2
  <2> QED BY <1>2, <2>1, <2>2
<1>6. TreesOf(kind, n) \subseteq scene
  <2> SUFFICES ASSUME NEW p \in TreesOf(kind, n) PROVE p \in scene
    OBVIOUS
  <2>1. p \in base \/ (p \in batch /\ kind[p] = "tree")
    BY <1>3
  <2>2. p # Cell
    BY DEF TreesOf, Cell
  <2> QED BY <1>2, <2>1, <2>2
<1>7. Cell \in scene <=> IF l = 0 THEN Cell \in base ELSE kind[l] = "on"
  BY <1>2, <1>4
<1>8. CASE l = 0
  <2>1. \A r \in f + 1 .. n : kind[r] # "reset" /\ kind[r] \notin Family
    BY <1>1, <1>8
  <2>2. PaintOf(kind, n) <=> PaintOf(kind, f)
    BY <2>1, PaintSplit
  <2>3. Cell \in scene => OnceOn(kind, n)
    BY <1>3, <1>7, <1>8
  <2>4. SameLane(spec, j) => (Cell \in scene <=> PaintOf(kind, n))
    BY <1>7, <1>8, <2>2
  <2> QED BY <1>5, <1>6, <2>3, <2>4 DEF Faithful, scene
<1>9. CASE l # 0
  <2>1. l \in f + 1 .. n /\ kind[l] \in Family
    BY <1>1, <1>9
  <2>2. \A r \in l + 1 .. n : kind[r] # "reset" /\ kind[r] \notin Family
    <3> SUFFICES ASSUME NEW r \in l + 1 .. n PROVE kind[r] # "reset" /\ kind[r] \notin Family
      OBVIOUS
    <3>1. r \in f + 1 .. n /\ ~(r <= l)
      BY <2>1
    <3> QED BY <1>1, <1>9, <3>1
  <2>3. l \in 1 .. n
    BY <2>1
  <2>4. (PaintOf(kind, n) <=> kind[l] = "on") /\ (kind[l] = "on" => OnceOn(kind, n))
    BY <2>1, <2>2, <2>3, PaintLast
  <2>5. Cell \in scene => OnceOn(kind, n)
    BY <1>7, <1>9, <2>4
  <2>6. Cell \in scene <=> PaintOf(kind, n)
    BY <1>7, <1>9, <2>4
  <2> QED BY <1>5, <1>6, <2>5, <2>6 DEF Faithful, scene
<1> QED BY <1>8, <1>9

\* What a job restores, starts from or rebuilds, and the batch it replays.
LEMMA WindowFacts ==
  ASSUME Types, Rows, Runner, Shelf, Snapshots, Sidecar, pc = "build",
         NEW w, w = Window, LedgerComplete(w.floor),
         \A r \in Job.mark + 1 .. seen.top : kind[r] # "reset"
  PROVE  /\ w.floor \in 0 .. Job.mark /\ Reached(w.floor)
         /\ \A r \in w.floor + 1 .. Job.mark : kind[r] # "reset"
         /\ Replay(w) \in SUBSET (w.floor + 1 .. Job.mark)
         /\ \A s \in Replay(w) : kind[s] \in Family \/ kind[s] = "tree"
         /\ \A s \in w.floor + 1 .. Job.mark :
              /\ kind[s] \in Family => s \in Replay(w)
              /\ kind[s] = "tree" => s \in w.base \cup Replay(w) /\ s \in w.owed \cup Replay(w)
         /\ \A p \in w.base \ {Cell} :
              /\ p \in 1 .. Len(kind) /\ kind[p] = "tree"
              /\ p <= Job.mark => p \in TreesOf(kind, Job.mark)
              /\ p > Job.mark => p \in w.owed
         /\ TreesOf(kind, w.floor) \subseteq w.base
         /\ Cell \in w.base => OnceOn(kind, w.floor)
         /\ SameLane(spec, cur) => (Cell \in w.base <=> PaintOf(kind, w.floor))
         /\ w.over # None => w.floor = spec[w.over].mark
         /\ w.over = None /\ w.owed = {} => w.base = {}
<1> DEFINE n == Job.mark
           t == seen.top
           c == sidecar
           R == SeenReset
<1>1. /\ n \in Nat /\ n <= t /\ t \in 0 .. Len(kind) /\ Len(kind) \in Nat
      /\ seen.low \in Nat /\ cur \in JobId /\ pc \in Active
  BY JobIsCurrent DEF Active
<1>2. /\ Coverage = c /\ c.gen \in JobId \cup {None} /\ c.covered \in Nat
      /\ c.covered <= n /\ Reached(c.covered)
      /\ c.gen = None => c.covered = 0
      /\ c.gen # None => /\ gens[c.gen].lane = spec[c.gen].lane /\ c.gen < cur
                         /\ c.covered = spec[c.gen].mark
                         /\ Faithful(kind, Len(kind), spec, gens[c.gen].scene,
                                     gens[c.gen].owed, c.covered, c.gen)
  BY <1>1, CoverageFacts
<1>3. /\ R \in {s \in seen.low + 1 .. t : kind[s] = "reset"} \cup {0} /\ R \in 0 .. t
      /\ \A x \in seen.low + 1 .. t : kind[x] = "reset" => x <= R
  <2> DEFINE S == {s \in seen.low + 1 .. seen.top : kind[s] = "reset"}
  <2>1. S \in SUBSET (0 .. t)
    BY <1>1
  <2> HIDE DEF S
  <2>2. R = MaxOf(S)
    BY DEF SeenReset, S
  <2> HIDE DEF R, n
  <2>3. R \in S \cup {0} /\ R \in 0 .. t /\ \A x \in S : x <= R
    BY <1>1, <2>1, <2>2, MaxOfFacts
  <2> QED BY <1>1, <2>3 DEF S
<1>4. R <= n /\ Reached(R) /\ (R = 0 \/ kind[R] = "reset")
  <2>1. CASE R = 0
    BY <1>1, <2>1 DEF Reached
  <2>2. CASE R # 0
    <3>1. kind[R] = "reset" /\ R \in 1 .. Len(kind)
      BY <1>1, <1>3, <2>2
    <3>2. R <= n
      <4> SUFFICES ASSUME ~(R <= n) PROVE FALSE
        OBVIOUS
      <4>1. R \in n + 1 .. t
        BY <1>1, <1>3
      <4> QED BY <3>1, <4>1
    <3> QED BY <3>1, <3>2 DEF Shelf
  <2> QED BY <2>1, <2>2
<1>5. ASSUME NEW f \in Nat, R <= f, LedgerComplete(f)
      PROVE  \A r \in f + 1 .. n : kind[r] # "reset"
  <2>1. f + 1 > n \/ f >= seen.low
    BY <1>5 DEF LedgerComplete
  <2> HIDE DEF n, R
  <2> QED BY <1>1, <1>3, <1>5, <2>1
<1>6. \/ /\ c.gen # None /\ c.covered > R /\ gens[c.gen].lane = Job.lane
         /\ w = [floor |-> c.covered, base |-> gens[c.gen].scene, over |-> c.gen,
                 trees |-> TRUE, owed |-> gens[c.gen].owed]
      \/ /\ R > 0 /\ c.covered <= R
         /\ w = [floor |-> R, base |-> {}, over |-> None, trees |-> TRUE, owed |-> {}]
      \/ /\ ~(c.gen # None /\ c.covered > R /\ gens[c.gen].lane = Job.lane)
         /\ ~(R > 0 /\ c.covered <= R)
         /\ w = [floor |-> MaxOf({c.covered, R}), base |-> TreeList, over |-> None,
                 trees |-> FALSE, owed |-> TreeList]
  BY <1>2 DEF Window
<1>7. /\ \A s \in w.floor + 1 .. n :
           s \in Replay(w) <=> kind[s] \in Family \/ (w.trees /\ kind[s] = "tree")
      /\ \A s \in Replay(w) : kind[s] \in Family \/ kind[s] = "tree"
  BY DEF Replay
<1>8. Replay(w) \in SUBSET (w.floor + 1 .. n)
  BY DEF Replay
<1> HIDE DEF n, R, c, t
<1>9. CASE /\ c.gen # None /\ c.covered > R /\ gens[c.gen].lane = Job.lane
           /\ w = [floor |-> c.covered, base |-> gens[c.gen].scene, over |-> c.gen,
                   trees |-> TRUE, owed |-> gens[c.gen].owed]
  <2> DEFINE f == c.covered
             g == c.gen
             base == gens[g].scene
             owed == gens[g].owed
  <2>1. f \in Nat /\ f <= n /\ R <= f /\ Faithful(kind, Len(kind), spec, base, owed, f, g)
        /\ g \in JobId /\ g < cur /\ f = spec[g].mark /\ g # None /\ Reached(f)
    BY <1>2, <1>3, <1>9
  <2>2. w.floor = f /\ w.base = base /\ w.trees = TRUE /\ w.owed = owed /\ w.over = g
    BY <1>9
  <2> HIDE DEF f, base, owed, g
  <2>3. \A r \in f + 1 .. n : kind[r] # "reset"
    BY <1>5, <2>1, <2>2
  <2>4. TreesOf(kind, n) = TreesOf(kind, f) \cup {s \in f + 1 .. n : kind[s] = "tree"}
    BY <1>1, <2>1, <2>3, TreesSplit
  <2>5. \A s \in f + 1 .. n : kind[s] = "tree" => s \in Replay(w)
    BY <1>7, <2>2
  <2>6. ASSUME NEW p \in base \ {Cell}
        PROVE  /\ p \in 1 .. Len(kind) /\ kind[p] = "tree"
               /\ p <= n => p \in TreesOf(kind, n)
               /\ p > n => p \in owed
    <3>1. /\ p \in 1 .. Len(kind) /\ kind[p] = "tree"
          /\ p <= f => p \in TreesOf(kind, f)
          /\ p > f => p \in owed
      BY <2>1 DEF Faithful
    <3>2. ASSUME p <= n PROVE p \in TreesOf(kind, n)
      <4>1. CASE p <= f
        BY <2>4, <3>1, <4>1
      <4>2. CASE ~(p <= f)
        <5>1. p \in f + 1 .. n
          BY <1>1, <2>1, <3>1, <3>2, <4>2
        <5> QED BY <2>4, <3>1, <5>1
      <4> QED BY <4>1, <4>2
    <3>3. p > n => p > f
      BY <1>1, <2>1, <3>1
    <3> QED BY <3>1, <3>2, <3>3
  <2>7. TreesOf(kind, f) \subseteq base /\ (Cell \in base => OnceOn(kind, f))
    BY <2>1 DEF Faithful
  <2>8. SameLane(spec, cur) => (Cell \in base <=> PaintOf(kind, f))
    <3>1. SameLane(spec, cur) => SameLane(spec, g)
      <4>1. \A i \in 1 .. g : i \in 1 .. cur
        BY <1>1, <2>1 DEF JobId
      <4>2. g \in 1 .. cur
        BY <1>1, <2>1 DEF JobId
      <4> QED BY <4>1, <4>2 DEF SameLane
    <3> QED BY <2>1, <3>1 DEF Faithful
  <2>9. f \in 0 .. n
    BY <1>1, <2>1
  <2> QED BY <1>7, <1>8, <2>1, <2>2, <2>3, <2>5, <2>6, <2>7, <2>8, <2>9 DEF n
<1>10. CASE /\ R > 0 /\ c.covered <= R
            /\ w = [floor |-> R, base |-> {}, over |-> None, trees |-> TRUE, owed |-> {}]
  <2>1. w.floor = R /\ w.base = {} /\ w.trees = TRUE /\ w.owed = {} /\ w.over = None
    BY <1>10
  <2>2. R \in 0 .. n /\ R \in Nat /\ kind[R] = "reset" /\ Reached(R)
    BY <1>1, <1>3, <1>4, <1>10
  <2>3. \A r \in R + 1 .. n : kind[r] # "reset"
    BY <1>5, <2>1, <2>2
  <2>4. TreesOf(kind, R) = {} /\ ~PaintOf(kind, R)
    BY <2>2, NothingStands
  <2>5. \A s \in R + 1 .. n : kind[s] = "tree" => s \in Replay(w)
    BY <1>7, <2>1
  <2> QED BY <1>7, <1>8, <2>1, <2>2, <2>3, <2>4, <2>5 DEF n
<1>11. CASE /\ ~(c.gen # None /\ c.covered > R /\ gens[c.gen].lane = Job.lane)
            /\ ~(R > 0 /\ c.covered <= R)
            /\ w = [floor |-> MaxOf({c.covered, R}), base |-> TreeList, over |-> None,
                    trees |-> FALSE, owed |-> TreeList]
  <2> DEFINE f == MaxOf({c.covered, R})
  <2>1. f \in {c.covered, R, 0} /\ f \in Nat /\ c.covered <= f /\ R <= f
    <3> DEFINE S == {c.covered, R}
               m == c.covered + R
    <3>1. m \in Nat /\ S \in SUBSET (0 .. m)
      BY <1>1, <1>2, <1>3
    <3> HIDE DEF S, m
    <3>2. f = MaxOf(S)
      BY DEF S
    <3> HIDE DEF f
    <3>3. f \in S \cup {0} /\ f \in 0 .. m /\ \A x \in S : x <= f
      BY <3>1, <3>2, MaxOfFacts
    <3> QED BY <3>1, <3>3 DEF S
  <2>2. /\ w.floor = f /\ w.base = TreeList /\ w.trees = FALSE /\ w.owed = TreeList
        /\ w.over = None
    BY <1>11
  <2> HIDE DEF f
  <2>3. f \in 0 .. n /\ Reached(f)
    <3>1. Reached(0)
      BY DEF Reached
    <3> QED BY <1>1, <1>2, <1>4, <2>1, <3>1
  <2>4. \A r \in f + 1 .. n : kind[r] # "reset"
    BY <1>5, <2>1, <2>2
  <2>5. TreeList = TreesOf(kind, t)
    BY TreeListIs DEF t
  <2>6. TreesOf(kind, t) = TreesOf(kind, n) \cup {s \in n + 1 .. t : kind[s] = "tree"}
    <3>1. \A r \in n + 1 .. t : kind[r] # "reset"
      BY DEF n, t
    <3>2. n \in Nat /\ t \in Nat /\ n <= t
      BY <1>1
    <3> QED BY <3>1, <3>2, TreesSplit
  <2>7. TreesOf(kind, n) = TreesOf(kind, f) \cup {s \in f + 1 .. n : kind[s] = "tree"}
    BY <1>1, <2>1, <2>3, <2>4, TreesSplit
  <2>8. TreesOf(kind, f) \subseteq TreeList
        /\ \A s \in f + 1 .. n : kind[s] = "tree" => s \in TreeList
    BY <2>5, <2>6, <2>7
  <2>9. ASSUME NEW p \in TreeList \ {Cell}
        PROVE  /\ p \in 1 .. Len(kind) /\ kind[p] = "tree"
               /\ p <= n => p \in TreesOf(kind, n)
    <3>1. p \in 1 .. t /\ kind[p] = "tree" /\ p \in TreesOf(kind, n) \cup (n + 1 .. t)
      BY <2>5, <2>6 DEF TreesOf
    <3> QED BY <1>1, <3>1
  <2>10. Cell \notin TreeList
    BY <2>5 DEF TreesOf, Cell
  <2>11. ASSUME SameLane(spec, cur)
         PROVE  ~PaintOf(kind, f)
    <3>1. c.gen # None => gens[c.gen].lane = Job.lane
      <4> SUFFICES ASSUME c.gen # None PROVE gens[c.gen].lane = Job.lane
        OBVIOUS
      <4>1. c.gen \in 1 .. cur
        BY <1>1, <1>2 DEF JobId
      <4> QED BY <1>2, <2>11, <4>1 DEF SameLane, Job
    <3>2. c.covered <= R
      BY <1>2, <1>3, <1>11, <3>1
    <3>3. R = 0 /\ c.covered = 0 /\ f = 0
      BY <1>2, <1>3, <1>11, <2>1, <3>2
    <3> QED BY <3>3, NothingStands
  <2> QED BY <1>7, <1>8, <2>2, <2>3, <2>4, <2>8, <2>9, <2>10, <2>11 DEF n
<1> QED BY <1>6, <1>9, <1>10, <1>11

\* What the batch gives is the scene of the job's mark.
LEMMA StagedIsFaithful ==
  ASSUME Types, Rows, Runner, Shelf, Snapshots, Sidecar, pc = "build",
         NEW w, w = Window, LedgerComplete(w.floor),
         \A r \in Job.mark + 1 .. seen.top : kind[r] # "reset"
  PROVE  Faithful(kind, Len(kind), spec, Apply(w.base, Replay(w)), w.owed, Job.mark, cur)
<1> DEFINE n == Job.mark
           f == w.floor
           base == w.base
           owed == w.owed
           batch == Replay(w)
<1>1. n \in 0 .. Len(kind) /\ Len(kind) \in Nat
  BY JobIsCurrent DEF Active
<1>2. /\ f \in 0 .. n
      /\ \A r \in f + 1 .. n : kind[r] # "reset"
      /\ batch \in SUBSET (f + 1 .. n)
      /\ \A s \in f + 1 .. n : /\ kind[s] \in Family => s \in batch
                               /\ kind[s] = "tree" => s \in base \cup batch
      /\ \A p \in base \ {Cell} :
           /\ p \in 1 .. Len(kind) /\ kind[p] = "tree"
           /\ p <= n => p \in TreesOf(kind, n)
           /\ p > n => p \in owed
      /\ TreesOf(kind, f) \subseteq base
      /\ Cell \in base => OnceOn(kind, f)
      /\ SameLane(spec, cur) => (Cell \in base <=> PaintOf(kind, f))
  BY WindowFacts
<1>3. Faithful(kind, Len(kind), spec, Apply(base, batch), owed, n, cur)
  <2> HIDE DEF n, f, base, owed, batch
  <2> QED BY <1>1, <1>2, ApplyFaithful
<1> QED BY <1>3 DEF n, f, base, owed, batch

\* The published results, overwritten where a solve of a current job computed
\* its faithful scene, are served as the scene of its mark.
LEMMA ComposeShown ==
  ASSUME Types, Rows, Shelf, Published, cur \in Used, version = Job.target,
         NEW scene, NEW window, NEW n \in 0 .. Len(kind), n = Len(kind),
         \A p \in scene \ {Cell} : p \in TreesOf(kind, n),
         TreesOf(kind, n) \subseteq scene, Cell \in scene => OnceOn(kind, n),
         SameLane(spec, cur) => (Cell \in scene <=> PaintOf(kind, n)),
         Served # {} => \A p \in TreesOf(kind, n) : p \in window \/ p <= Latest.mark,
         Served # {} /\ Cell \notin window /\ SameLane(spec, cur) =>
           (PaintOf(kind, n) <=> PaintOf(kind, Latest.mark))
  PROVE  Shown(kind, spec, Compose(scene, window), Own(window), n, cur)
<1>1. Len(kind) \in Nat /\ Len(kind) <= MaxEvents /\ MaxEvents \in Nat
  BY LenProperties, LanesAssumption DEF Types
<1>2. \A p \in TreesOf(kind, n) : p \in Place /\ p # Cell /\ p \in 1 .. n
  BY <1>1 DEF TreesOf, Place, Cell
<1>3. CASE Served = {}
  <2>1. Compose(scene, window) = scene
    BY <1>3 DEF Compose
  <2> QED BY <2>1 DEF Shown
<1>4. CASE Served # {}
  <2> DEFINE m == Latest.mark
             old == Latest.scene
             was == Latest.own
             k == Latest.job
             out == (old \ window) \cup (scene \cap window)
             own == was \/ Place \subseteq window
  <2>1. MaxOf(Served) \in Served /\ Latest = results[MaxOf(Served)] /\ m \in 0 .. n
    BY <1>4, LatestFacts
  <2>2. Shown(kind, spec, old, was, m, k)
    BY <2>1 DEF Published
  <2>3. SameLane(spec, cur) => SameLane(spec, k)
    BY <2>1, ResultJob DEF Job
  <2>4. \A r \in m + 1 .. n : kind[r] # "reset"
    <3> SUFFICES ASSUME NEW r \in m + 1 .. n, kind[r] = "reset" PROVE FALSE
      OBVIOUS
    <3>1. r \in 1 .. Len(kind)
      BY <1>1, <2>1
    <3>2. r <= m
      BY <3>1, NoResetSince
    <3> QED BY <1>1, <2>1, <3>2
  <2>5. Compose(scene, window) = out /\ (Own(window) <=> own)
    BY <1>4 DEF Compose, Own
  <2>6. /\ TreesOf(kind, n) = TreesOf(kind, m) \cup {s \in m + 1 .. n : kind[s] = "tree"}
        /\ OnceOn(kind, m) => OnceOn(kind, n)
    <3>1. m \in Nat /\ n \in Nat /\ m <= n
      BY <1>1, <2>1
    <3> HIDE DEF m
    <3> QED BY <2>4, <3>1, TreesSplit
  <2> HIDE DEF m, old, was, k
  <2>7. out \ {Cell} \subseteq TreesOf(kind, n)
    BY <2>2, <2>6 DEF Shown
  <2>8. Cell \in out => OnceOn(kind, n)
    BY <2>2, <2>6 DEF Shown
  <2>9. ASSUME own PROVE TreesOf(kind, n) \subseteq out
    <3> SUFFICES ASSUME NEW p \in TreesOf(kind, n), p \notin window PROVE p \in old
      OBVIOUS
    <3>1. was
      BY <1>2, <2>9
    <3>2. p <= m
      BY <1>4 DEF m
    <3>3. p \notin m + 1 .. n
      BY <1>1, <2>1, <3>2
    <3>4. p \in TreesOf(kind, m)
      BY <2>6, <3>3
    <3> QED BY <2>2, <3>1, <3>4 DEF Shown
  <2>10. ASSUME own, SameLane(spec, cur) PROVE Cell \in out <=> PaintOf(kind, n)
    <3>1. CASE Cell \in window
      BY <2>10, <3>1
    <3>2. CASE Cell \notin window
      <4>1. Cell \in Place
        BY <1>1 DEF Cell, Place
      <4>2. was
        BY <2>10, <3>2, <4>1
      <4>3. PaintOf(kind, n) <=> PaintOf(kind, m)
        BY <1>4, <2>10, <3>2 DEF m
      <4>4. Cell \in old <=> PaintOf(kind, m)
        BY <2>2, <2>3, <2>10, <4>2 DEF Shown
      <4> QED BY <3>2, <4>3, <4>4
    <3> QED BY <3>1, <3>2
  <2>11. Shown(kind, spec, out, own, n, cur)
    BY <2>7, <2>8, <2>9, <2>10 DEF Shown
  <2>12. Shown(kind, spec, out, Own(window), n, cur)
    BY <2>5, <2>7, <2>8, <2>9, <2>10 DEF Shown
  <2> QED BY <2>5, <2>12
<1> QED BY <1>3, <1>4

\* The executed batch of a current job.
LEMMA ExecutedIsShown ==
  ASSUME Types, Rows, Runner, Shelf, Snapshots, Sidecar, Published,
         pc = "build", version = Job.target,
         NEW w, w = Window, LedgerComplete(w.floor),
         NEW window, Written(Replay(w)) \cup w.owed \subseteq window
  PROVE  Shown(kind, spec, Compose(Apply(w.base, Replay(w)), window), Own(window), Job.mark, cur)
<1> DEFINE n == Job.mark
           f == w.floor
           scene == Apply(w.base, Replay(w))
           m == Latest.mark
<1>1. /\ n = Len(kind) /\ seen.top = n /\ n \in 0 .. Len(kind) /\ Len(kind) \in Nat
      /\ cur \in Used
  BY JobIsCurrent DEF Active
<1>2. \A r \in Job.mark + 1 .. seen.top : kind[r] # "reset"
  BY <1>1
<1>3. Faithful(kind, Len(kind), spec, scene, w.owed, n, cur)
  BY <1>2, StagedIsFaithful
<1>4. /\ f \in 0 .. n /\ Reached(f)
      /\ \A r \in f + 1 .. n : kind[r] # "reset"
      /\ Replay(w) \in SUBSET (f + 1 .. n)
      /\ \A s \in f + 1 .. n : /\ kind[s] \in Family => s \in Replay(w)
                               /\ kind[s] = "tree" => s \in w.owed \cup Replay(w)
  BY <1>2, WindowFacts
<1>5. \A p \in scene \ {Cell} : p \in TreesOf(kind, n)
  BY <1>1, <1>3 DEF Faithful
<1>6. /\ TreesOf(kind, n) \subseteq scene /\ (Cell \in scene => OnceOn(kind, n))
      /\ SameLane(spec, cur) => (Cell \in scene <=> PaintOf(kind, n))
  BY <1>3 DEF Faithful
<1> HIDE DEF n, f, scene, m
<1>7. Served # {} => f <= m /\ m \in 0 .. n
  <2>1. f \in Nat
    BY <1>1, <1>4
  <2> QED BY <1>1, <1>4, <2>1, LatestFacts DEF m
<1>8. \A p \in TreesOf(kind, n) : p \in window \/ p <= f
  <2> SUFFICES ASSUME NEW p \in TreesOf(kind, n), ~(p <= f) PROVE p \in window
    OBVIOUS
  <2>1. p \in f + 1 .. n /\ kind[p] = "tree"
    BY <1>1, <1>4 DEF TreesOf
  <2>2. p \in w.owed \/ p \in Written(Replay(w))
    BY <1>4, <2>1 DEF Written
  <2> QED BY <2>2
<1>9. Served # {} => \A p \in TreesOf(kind, n) : p \in window \/ p <= m
  BY <1>1, <1>4, <1>7, <1>8 DEF TreesOf
<1>10. ASSUME Served # {}, Cell \notin window
       PROVE  PaintOf(kind, n) <=> PaintOf(kind, m)
  <2>1. LastFamily(Replay(w)) = 0
    BY <1>10 DEF Written
  <2>2. n \in Nat
    BY <1>1
  <2>3. \A s \in Replay(w) : kind[s] \notin Family
    BY <1>4, <2>1, <2>2, LastFamilyIs
  <2>4. \A r \in m + 1 .. n : r \in f + 1 .. n
    BY <1>1, <1>4, <1>7, <1>10
  <2>5. \A r \in m + 1 .. n : kind[r] # "reset" /\ kind[r] \notin Family
    BY <1>4, <2>3, <2>4
  <2>6. m \in Nat /\ m <= n
    BY <1>1, <1>7, <1>10
  <2> QED BY <2>2, <2>5, <2>6, PaintSplit
<1>11. Shown(kind, spec, Compose(scene, window), Own(window), n, cur)
  BY <1>1, <1>5, <1>6, <1>9, <1>10, ComposeShown DEF m
<1> QED BY <1>11 DEF n, scene

\* The tree-only solve of a current job without family edits.
LEMMA BaseIsShown ==
  ASSUME Types, Rows, Runner, Shelf, Published, pc = "base", version = Job.target,
         NEW window, {s \in TreeList : s > Job.base} \subseteq window
  PROVE  Shown(kind, spec, Compose(TreeList, window), Own(window), Job.mark, cur)
<1> DEFINE n == Job.mark
           m == Latest.mark
<1>1. /\ n = Len(kind) /\ seen.top = n /\ n \in 0 .. Len(kind) /\ Len(kind) \in Nat
      /\ cur \in Used /\ cur \in JobId
  BY JobIsCurrent DEF Active
<1>2. TreeList = TreesOf(kind, n)
  BY <1>1, TreeListIs
<1>3. Plain(kind, n)
  BY <1>1 DEF Runner, Active
<1>4. Cell \notin TreeList /\ ~PaintOf(kind, n) /\ ~OnceOn(kind, n)
  <2>1. Cell \notin TreeList
    BY <1>2 DEF TreesOf, Cell
  <2> QED BY <1>1, <1>3, <2>1, PlainIsBlank
<1> HIDE DEF n, m
<1>5. ASSUME Served # {}
      PROVE  m \in 0 .. n /\ Job.base <= m /\ ~PaintOf(kind, m)
  <2>1. m \in 0 .. Len(kind) /\ \A k \in Nat : Reached(k) => k <= m
    BY <1>5, LatestFacts DEF m
  <2>2. Job.base <= acked /\ Job.base \in Nat /\ acked \in Nat /\ Reached(acked)
    BY <1>1, LenProperties DEF Rows, Job, Types, Mint, Shelf
  <2>3. \A r \in m + 1 .. n : kind[r] # "reset"
    <3> SUFFICES ASSUME NEW r \in m + 1 .. n, kind[r] = "reset" PROVE FALSE
      OBVIOUS
    <3>1. r \in 1 .. Len(kind)
      BY <1>1, <2>1
    <3>2. r <= m
      BY <3>1, NoResetSince DEF m
    <3> QED BY <1>1, <2>1, <3>2
  <2>4. ~OnceOn(kind, m)
    <3>1. m \in Nat /\ n \in Nat /\ m <= n
      BY <1>1, <2>1
    <3> QED BY <1>4, <2>3, <3>1, TreesSplit
  <2>5. PaintOf(kind, m) => OnceOn(kind, m)
    BY DEF PaintOf, OnceOn
  <2> QED BY <1>1, <2>1, <2>2, <2>4, <2>5
<1>6. Served # {} => \A p \in TreesOf(kind, n) : p \in window \/ p <= m
  <2> SUFFICES ASSUME Served # {}, NEW p \in TreesOf(kind, n), ~(p <= m) PROVE p \in window
    OBVIOUS
  <2>1. p \in 1 .. n /\ p > m /\ Job.base <= m /\ m \in 0 .. n
    BY <1>1, <1>5 DEF TreesOf
  <2>2. Job.base \in Nat
    BY <1>1 DEF Job, Types, Mint
  <2>3. p > Job.base
    BY <1>1, <2>1, <2>2
  <2> QED BY <1>2, <2>3
<1>7. Shown(kind, spec, Compose(TreeList, window), Own(window), n, cur)
  BY <1>1, <1>2, <1>4, <1>5, <1>6, ComposeShown DEF m
<1> QED BY <1>7 DEF n

\* The latest result, served again for a batch that changed nothing.
LEMMA NoopIsShown ==
  ASSUME Types, Rows, Runner, Shelf, Snapshots, Sidecar, Published,
         pc = "build", version = Job.target, Served # {},
         NEW w, w = Window, LedgerComplete(w.floor), NoOp(w),
         NEW own, own <=> Latest.own /\ w.over = Latest.job /\ w.owed = {}
  PROVE  Shown(kind, spec, Latest.scene, own, Job.mark, cur)
<1> DEFINE n == Job.mark
           f == w.floor
           m == Latest.mark
           old == Latest.scene
           was == Latest.own
           k == Latest.job
<1>1. /\ n = Len(kind) /\ seen.top = n /\ n \in Nat /\ Len(kind) \in Nat /\ cur \in Used
  BY JobIsCurrent DEF Active
<1>2. \A r \in Job.mark + 1 .. seen.top : kind[r] # "reset"
  BY <1>1
<1>3. Faithful(kind, Len(kind), spec, w.base, w.owed, n, cur)
  <2>1. Apply(w.base, Replay(w)) = w.base
    BY DEF NoOp
  <2> QED BY <1>2, <2>1, StagedIsFaithful
<1>4. /\ f \in 0 .. n /\ Reached(f)
      /\ \A s \in f + 1 .. n : kind[s] = "tree" => s \in w.owed \cup Replay(w)
      /\ SameLane(spec, cur) => (Cell \in w.base <=> PaintOf(kind, f))
      /\ w.over # None => f = spec[w.over].mark
      /\ w.over = None /\ w.owed = {} => w.base = {}
  BY <1>2, WindowFacts
<1>5. \A s \in Replay(w) : kind[s] # "tree"
  BY DEF NoOp
<1>6. /\ MaxOf(Served) \in Served /\ Latest = results[MaxOf(Served)] /\ m \in 0 .. n
      /\ \A v \in Nat : Reached(v) => v <= m
  BY <1>1, LatestFacts
<1>7. Shown(kind, spec, old, was, m, k)
  BY <1>6 DEF Published
<1>8. /\ SameLane(spec, cur) => SameLane(spec, k)
      /\ k # None => m = spec[k].mark
  BY <1>1, <1>6, ResultJob DEF Job
<1>9. k = None => old = {}
  BY <1>6 DEF Shelf
<1>10. own <=> was /\ w.over = k /\ w.owed = {}
  OBVIOUS
<1> HIDE DEF n, f, m, old, was, k
<1>11. \A r \in m + 1 .. n : kind[r] # "reset"
  <2> SUFFICES ASSUME NEW r \in m + 1 .. n, kind[r] = "reset" PROVE FALSE
    OBVIOUS
  <2>1. r \in 1 .. Len(kind)
    BY <1>1, <1>6
  <2>2. r <= m
    BY <2>1, NoResetSince DEF m
  <2> QED BY <1>1, <1>6, <2>2
<1>12. /\ TreesOf(kind, n) = TreesOf(kind, m) \cup {s \in m + 1 .. n : kind[s] = "tree"}
       /\ OnceOn(kind, m) => OnceOn(kind, n)
  <2>1. m \in Nat /\ m <= n
    BY <1>1, <1>6
  <2> QED BY <1>1, <1>11, <2>1, TreesSplit
<1>13. old \ {Cell} \subseteq TreesOf(kind, n) /\ (Cell \in old => OnceOn(kind, n))
  BY <1>7, <1>12 DEF Shown
<1>14. ASSUME own PROVE TreesOf(kind, n) \subseteq old
  <2> SUFFICES ASSUME NEW p \in TreesOf(kind, n) PROVE p \in old
    OBVIOUS
  <2>1. f <= m
    BY <1>1, <1>4, <1>6
  <2>2. p \notin m + 1 .. n
    <3> SUFFICES ASSUME p \in m + 1 .. n PROVE FALSE
      OBVIOUS
    <3>1. p \in f + 1 .. n /\ kind[p] = "tree"
      BY <1>1, <1>4, <1>6, <2>1 DEF TreesOf
    <3> QED BY <1>4, <1>5, <1>10, <1>14, <3>1
  <2>3. p \in TreesOf(kind, m)
    BY <1>12, <2>2
  <2> QED BY <1>7, <1>10, <1>14, <2>3 DEF Shown
<1>15. ASSUME own, SameLane(spec, cur) PROVE Cell \in old <=> PaintOf(kind, n)
  <2>1. Cell \in w.base <=> PaintOf(kind, n)
    BY <1>3, <1>15 DEF Faithful
  <2>2. CASE k = None
    <3>1. w.base = {} /\ old = {}
      BY <1>4, <1>9, <1>10, <1>15, <2>2
    <3> QED BY <2>1, <3>1
  <2>3. CASE k # None
    <3>1. f = m
      BY <1>4, <1>8, <1>10, <1>15, <2>3
    <3>2. Cell \in w.base <=> PaintOf(kind, m)
      BY <1>4, <1>15, <3>1
    <3>3. Cell \in old <=> PaintOf(kind, m)
      BY <1>7, <1>8, <1>10, <1>15 DEF Shown
    <3> QED BY <2>1, <3>2, <3>3
  <2> QED BY <2>2, <2>3
<1>16. Shown(kind, spec, old, own, n, cur)
  BY <1>13, <1>14, <1>15 DEF Shown
<1> QED BY <1>16 DEF n, old

-----------------------------------------------------------------------------
(* The start, and the steps that grow the ledger or insert a job.          *)

\* Nothing has happened yet: the baseline is served, or a job for it is queued.
LEMMA InitInvariant == Init => IInv
<1> SUFFICES ASSUME Init PROVE IInv
  OBVIOUS
<1>1. PICK served \in {TRUE} \cup {b \in {FALSE} : MaxJobs > 0} :
        /\ status  = [j \in JobId |-> IF j = 1 /\ ~served THEN "queued" ELSE "absent"]
        /\ results = [v \in 0 .. MaxEvents + MaxNative |->
                       IF v = 0 /\ served THEN Baseline(0) ELSE Nothing]
  BY DEF Init
<1>2. /\ kind = <<>> /\ Len(kind) = 0 /\ version = 0 /\ acked = 0 /\ native = 0
      /\ spec = [j \in JobId |-> NoSpec] /\ pc = "idle" /\ cur = None
      /\ gens = [j \in JobId |-> Nothing] /\ pending = Nothing
      /\ sidecar = [covered |-> 0, gen |-> None]
  BY DEF Init
<1>3. MaxEvents \in Nat /\ MaxNative \in Nat /\ MaxJobs \in Nat
  BY LanesAssumption
<1>4. Types
  <2>1. kind \in Seq(Kind)
    BY <1>2, EmptySeq
  <2>2. NoSpec \in Mint /\ Unseen \in [low : Nat, top : Nat, at : Nat]
    BY DEF NoSpec, Mint, Lane, Unseen
  <2>3. spec \in [JobId -> Mint]
    BY <1>2, <2>2
  <2>4. status \in [JobId -> Status]
    BY <1>1 DEF Status
  <2>5. results = [v \in Versions |-> results[v]]
    BY <1>1 DEF Versions
  <2>6. carries \in BOOLEAN
    BY DEF Init
  <2>7. seen \in [low : Nat, top : Nat, at : Nat]
    BY <2>2 DEF Init
  <2>8. gens = [j \in JobId |-> gens[j]]
    BY <1>2
  <2>9. sidecar = [covered |-> sidecar.covered, gen |-> sidecar.gen]
    BY <1>2
  <2>10. pruned \in Nat
    BY DEF Init
  <2> QED BY <1>2, <1>3, <2>1, <2>3, <2>4, <2>5, <2>6, <2>7, <2>8, <2>9, <2>10 DEF Types
<1>5. /\ \A j \in JobId : spec[j] = NoSpec
      /\ NoSpec.mark = 0 /\ NoSpec.base = 0 /\ NoSpec.target = 0
      /\ \A j \in Used : j = 1
  BY <1>1, <1>2 DEF Used, NoSpec
<1>6. Rows
  <2>1. NextJob = Cardinality(Used) + 1
    BY DEF NextJob, Used
  <2>2. IsFiniteSet(Used) /\ \A j \in JobId : j \in Used <=> j < NextJob
    <3>1. CASE served
      <4>1. Used = {}
        BY <1>1, <3>1 DEF Used
      <4>2. IsFiniteSet({}) /\ Cardinality({}) = 0
        BY FS_EmptySet
      <4>3. NextJob = 1
        BY <2>1, <4>1, <4>2
      <4> QED BY <4>1, <4>2, <4>3 DEF JobId
    <3>2. CASE ~served
      <4>1. 1 \in JobId
        <5>1. MaxJobs > 0
          BY <3>2, Zenon
        <5> QED BY <1>3, <5>1 DEF JobId
      <4>2. Used = {1}
        BY <1>1, <3>2, <4>1 DEF Used
      <4>3. IsFiniteSet({1}) /\ Cardinality({1}) = 1
        BY FS_Singleton
      <4>4. NextJob = 2
        BY <2>1, <4>2, <4>3
      <4> QED BY <4>2, <4>3, <4>4 DEF JobId
    <3> QED BY <3>1, <3>2
  <2>3. \A j \in Used : j \in JobId
    BY DEF Used
  <2> QED BY <1>2, <1>5, <2>2, <2>3 DEF Rows
<1>7. Order
  <2>1. \A j \in JobId : status[j] \in {"absent", "queued"}
    BY <1>1
  <2> QED BY <1>2, <2>1 DEF Order
<1>8. Runner
  BY <1>2 DEF Runner, Active
<1>9. CarriesFamilies
  BY <1>2 DEF CarriesFamilies, Plain
<1>10. \A v \in Served : v = 0 /\ results[v] = Baseline(0)
  <2>1. \A v \in DOMAIN results : results[v].is => v = 0 /\ results[v] = Baseline(0)
    BY <1>1 DEF Nothing
  <2> QED BY <2>1 DEF Served
<1>11. /\ Baseline(0).mark = 0 /\ Baseline(0).job = None /\ Baseline(0).scene = {}
  BY DEF Baseline, Row
<1>12. Shelf
  <2>1. Reached(0)
    BY DEF Reached
  <2>2. \A j \in Used : spec[j].mark = 0
    BY <1>5 DEF Used
  <2>3. \A j \in JobId : Reached(spec[j].mark)
    BY <1>5, <2>1
  <2>4. \A r \in 1 .. Len(kind) : FALSE
    BY <1>2
  <2> QED BY <1>2, <1>10, <1>11, <2>1, <2>2, <2>3, <2>4 DEF Shelf
<1>13. Published
  <2>1. TreesOf(kind, 0) = {} /\ ~PaintOf(kind, 0)
    BY NothingStands
  <2>2. Shown(kind, spec, {}, Baseline(0).own, 0, None)
    BY <2>1 DEF Shown
  <2> QED BY <1>10, <1>11, <2>2 DEF Published
<1>14. Snapshots /\ Sidecar /\ Outcome
  <2>1. Snapshots
    BY <1>2 DEF Snapshots, Nothing
  <2>2. Sidecar
    BY <1>2 DEF Sidecar, None
  <2>3. Outcome
    BY <1>2 DEF Outcome
  <2> QED BY <2>1, <2>2, <2>3
<1> QED BY <1>4, <1>6, <1>7, <1>8, <1>9, <1>12, <1>13, <1>14 DEF IInv

\* The parts of the invariant that a new version, a longer ledger and new rows
\* leave alone: what is on disk, what the job computed, what was published.
LEMMA HistoryKept ==
  ASSUME IInv, Types', version' = version + 1, Len(kind') \in {Len(kind), Len(kind) + 1},
         \A s \in 1 .. Len(kind) : kind'[s] = kind[s],
         \A j \in Used : spec'[j] = spec[j] /\ (status'[j] = "complete" <=> status[j] = "complete"),
         \A j \in Used : status'[j] # "absent",
         MaxOf(Served)' = MaxOf(Served) \/ MaxOf(Served)' = version + 1,
         UNCHANGED <<diskVars, runnerVars>>
  PROVE  /\ Snapshots' /\ Sidecar' /\ Outcome'
         /\ \A v \in Served : Shown(kind', spec', results[v].scene, results[v].own,
                                    results[v].mark, results[v].job)
         /\ \A j \in Used : version' # spec'[j].target /\ spec'[j].target <= version'
<1>1. /\ Len(kind) \in Nat /\ version \in Nat /\ Types /\ Rows /\ spec \in [JobId -> Mint]
      /\ Len(kind') \in Nat /\ Len(kind) <= Len(kind')
  <2>1. Types /\ Rows /\ kind \in Seq(Kind) /\ kind' \in Seq(Kind) /\ spec \in [JobId -> Mint]
        /\ version = Len(kind) + native /\ native \in 0 .. MaxNative
    BY DEF IInv, Types
  <2>2. Len(kind) \in Nat /\ Len(kind') \in Nat
    BY <2>1, LenProperties
  <2> QED BY <2>1, <2>2, LanesAssumption
<1>2. UNCHANGED <<sidecar, gens, pending, pc, cur, seen, meta, built>>
  BY DEF diskVars, runnerVars
<1>3. \A j \in Used : /\ spec[j].mark \in 0 .. Len(kind) /\ spec[j].target <= version
                      /\ spec[j].target \in Nat /\ j \in JobId
  <2> SUFFICES ASSUME NEW j \in Used
               PROVE  /\ spec[j].mark \in 0 .. Len(kind) /\ spec[j].target <= version
                      /\ spec[j].target \in Nat /\ j \in JobId
    OBVIOUS
  <2>1. j \in JobId /\ spec[j].mark <= Len(kind) /\ spec[j].target <= version
    BY <1>1 DEF Rows, Used
  <2>2. spec[j].mark \in Nat /\ spec[j].target \in Nat
    BY <1>1, <2>1 DEF Mint
  <2> QED BY <1>1, <2>1, <2>2
<1>4. \A j \in Used : /\ version' # spec'[j].target /\ spec'[j].target <= version'
                      /\ MaxOf(Served)' = spec'[j].target => MaxOf(Served) = spec[j].target
                      /\ j \in Used'
  <2> SUFFICES ASSUME NEW j \in Used
               PROVE  /\ version' # spec'[j].target /\ spec'[j].target <= version'
                      /\ MaxOf(Served)' = spec'[j].target => MaxOf(Served) = spec[j].target
                      /\ j \in Used'
    OBVIOUS
  <2>1. version + 1 # spec[j].target /\ spec[j].target <= version + 1 /\ spec'[j] = spec[j]
    BY <1>1, <1>3
  <2> QED BY <1>3, <2>1 DEF Used
<1>5. \A j \in JobId : gens[j].is => j \in Used
  BY DEF IInv, Snapshots, Used
<1>6. ASSUME NEW mark \in 0 .. Len(kind), NEW j \in Used \cup {None}
      PROVE  /\ \A scene, owed :
                  Faithful(kind, Len(kind), spec, scene, owed, mark, j) =>
                  Faithful(kind', Len(kind'), spec', scene, owed, mark, j)
             /\ \A scene, own :
                  Shown(kind, spec, scene, own, mark, j) =>
                  Shown(kind', spec', scene, own, mark, j)
  <2>1. j \in Nat /\ \A i \in 1 .. j : spec'[i] = spec[i]
    BY <1>1, UsedPrefix
  <2>2. mark \in Nat /\ \A s \in 1 .. mark : kind'[s] = kind[s]
    BY <1>1
  <2>3. ASSUME NEW scene, NEW owed, Faithful(kind, Len(kind), spec, scene, owed, mark, j)
        PROVE  Faithful(kind', Len(kind'), spec', scene, owed, mark, j)
    BY <1>1, <2>1, <2>3, FaithfulStable
  <2>4. ASSUME NEW scene, NEW own, Shown(kind, spec, scene, own, mark, j)
        PROVE  Shown(kind', spec', scene, own, mark, j)
    BY <2>1, <2>2, <2>4, ShownStable
  <2> QED BY <2>3, <2>4
<1>7. Snapshots'
  <2>1. ASSUME NEW j \in JobId, gens'[j].is
        PROVE  /\ status'[j] = "complete" /\ Kept(gens[j], j)'
               /\ Faithful(kind', Len(kind'), spec', gens'[j].scene, gens'[j].owed,
                           spec'[j].mark, j)
    <3>1. /\ j \in Used /\ status[j] = "complete" /\ Kept(gens[j], j)
          /\ Faithful(kind, Len(kind), spec, gens[j].scene, gens[j].owed, spec[j].mark, j)
      BY <1>2, <1>5, <2>1 DEF IInv, Snapshots
    <3>2. spec'[j] = spec[j] /\ status'[j] = "complete" /\ spec[j].mark \in 0 .. Len(kind)
      BY <1>3, <3>1
    <3>3. Faithful(kind', Len(kind'), spec', gens[j].scene, gens[j].owed, spec[j].mark, j)
      BY <1>6, <3>1, <3>2
    <3> QED BY <1>2, <3>1, <3>2, <3>3 DEF Kept
  <2>2. ASSUME pending'.is
        PROVE  /\ pending'.job \in Used' /\ pending'.covered = spec'[pending'.job].mark
               /\ Kept(pending.snap, pending.job)'
               /\ status'[pending'.job] = "complete" \/ Current(pending.job)' =>
                    Faithful(kind', Len(kind'), spec', pending'.snap.scene,
                             pending'.snap.owed, pending'.covered, pending'.job)
    <3> DEFINE j == pending.job
    <3>1. /\ j \in Used /\ pending.covered = spec[j].mark /\ Kept(pending.snap, j)
          /\ status[j] = "complete" \/ Current(j) =>
               Faithful(kind, Len(kind), spec, pending.snap.scene, pending.snap.owed,
                        pending.covered, j)
      BY <1>2, <2>2 DEF IInv, Snapshots
    <3>2. spec'[j] = spec[j] /\ (status'[j] = "complete" <=> status[j] = "complete")
          /\ pending.covered \in 0 .. Len(kind)
      BY <1>3, <3>1
    <3>3. Current(pending.job)' => Current(j)
      BY <1>2, <1>4, <3>1 DEF Current
    <3>4. status'[j] = "complete" \/ Current(pending.job)' =>
            Faithful(kind', Len(kind'), spec', pending.snap.scene, pending.snap.owed,
                     pending.covered, j)
      BY <1>6, <3>1, <3>2, <3>3
    <3> QED BY <1>2, <1>4, <3>1, <3>2, <3>4 DEF Kept
  <2> QED BY <2>1, <2>2 DEF Snapshots
<1>8. Sidecar'
  <2>1. sidecar.gen # None => spec'[sidecar.gen] = spec[sidecar.gen]
    BY <1>5 DEF IInv, Sidecar
  <2>2. pc \in {"flip", "collect"} => spec'[meta.job] = spec[meta.job]
    BY <1>5 DEF IInv, Sidecar
  <2> QED BY <1>2, <2>1, <2>2 DEF IInv, Sidecar
<1>9. ASSUME NEW v \in Served
      PROVE  Shown(kind', spec', results[v].scene, results[v].own, results[v].mark, results[v].job)
  <2>1. /\ results[v].mark \in 0 .. Len(kind) /\ results[v].job \in Used \cup {None}
        /\ Shown(kind, spec, results[v].scene, results[v].own, results[v].mark, results[v].job)
    BY DEF IInv, Shelf, Published
  <2> QED BY <1>6, <2>1
<1>10. Outcome'
  <2> SUFFICES ASSUME pc \in {"publish", "reserve"} PROVE version' # spec'[cur].target
    BY <1>2 DEF Outcome, Job
  <2>1. cur \in JobId /\ status[cur] # "absent"
    BY DEF IInv, Runner, Active
  <2> QED BY <1>4, <2>1 DEF Used
<1> QED BY <1>4, <1>7, <1>8, <1>9, <1>10

\* A step that publishes nothing and grows the ledger, if at all, by an edit.
LEMMA ShelfKept ==
  ASSUME Types, Rows, Shelf, UNCHANGED <<results, acked>>, Used \subseteq Used',
         version \in Nat, version' \in Nat, version <= version',
         Len(kind) \in Nat, Len(kind') \in Nat, Len(kind) <= Len(kind'),
         \A r \in 1 .. Len(kind') : kind'[r] = "reset" => r \in 1 .. Len(kind) /\ kind[r] = "reset",
         \A j \in Used : spec'[j] = spec[j],
         \A j \in Used' : j \notin Used => spec'[j].target = version + 1,
         \A j \in JobId : status'[j] = "complete" => j \in Used /\ Reached(spec[j].mark),
         pc' = "finish" => cur' \in Used /\ Reached(spec[cur'].mark)
  PROVE  Shelf'
<1>1. Served' = Served /\ \A m : Reached(m)' <=> Reached(m)
  BY DEF Served, Reached
<1>2. ASSUME NEW v \in Served
      PROVE  /\ v <= version' /\ results[v].mark \in 0 .. Len(kind')
             /\ results[v].job \in Used' \cup {None}
             /\ results[v].job = None => results[v].scene = {}
             /\ results[v].job # None => spec'[results[v].job].target = v
             /\ \A j \in Used' : spec'[j].target = v => results[v].mark = spec'[j].mark
             /\ \A u \in Served : u < v => results[u].mark <= results[v].mark
  <2>1. /\ v <= version /\ results[v].mark \in 0 .. Len(kind)
        /\ results[v].job \in Used \cup {None}
        /\ results[v].job = None => results[v].scene = {}
        /\ results[v].job # None => spec[results[v].job].target = v
        /\ \A j \in Used : spec[j].target = v => results[v].mark = spec[j].mark
        /\ \A u \in Served : u < v => results[u].mark <= results[v].mark
    BY DEF Shelf
  <2>2. v \in Nat
    <3>1. v \in Versions
      BY DEF Served, Types
    <3> QED BY <3>1 DEF Versions
  <2>3. v <= version' /\ results[v].mark \in 0 .. Len(kind')
    BY <2>1, <2>2
  <2>4. ASSUME NEW j \in Used', spec'[j].target = v PROVE results[v].mark = spec'[j].mark
    <3>1. j \in Used
      BY <2>1, <2>2, <2>4
    <3> QED BY <2>1, <2>4, <3>1
  <2> QED BY <2>1, <2>3, <2>4
<1>3. \A r \in 1 .. Len(kind') : kind'[r] = "reset" => Reached(r)
  BY DEF Shelf
<1>4. \A j \in JobId : status'[j] = "complete" => Reached(spec'[j].mark)
  OBVIOUS
<1>5. pc' = "finish" => Reached(Job'.mark)
  BY DEF Job
<1>6. Reached(acked)
  BY DEF Shelf
<1> QED BY <1>1, <1>2, <1>3, <1>4, <1>5, <1>6 DEF Shelf

\* The counters.
LEMMA Numbers ==
  ASSUME Types
  PROVE  /\ Len(kind) \in Nat /\ version \in Nat /\ acked \in Nat /\ native \in Nat
         /\ version \in Versions
<1>1. Len(kind) \in Nat
  BY LenProperties DEF Types
<1> QED BY <1>1, LanesAssumption DEF Types, Versions

\* A job is inserted for a new version, at the end of the ledger.
LEMMA InsertKeeps ==
  ASSUME IInv, NEW lane \in Lane, NEW span \in BOOLEAN,
         version' = version + 1, kind' \in Seq(Kind),
         \/ Len(kind') = Len(kind) + 1 /\ Len(kind) < MaxEvents /\ native' = native
            /\ kind'[Len(kind) + 1] # "reset"
         \/ Len(kind') = Len(kind) /\ native < MaxNative /\ native' = native + 1,
         \A s \in 1 .. Len(kind) : kind'[s] = kind[s],
         Insert(lane, Len(kind'), version + 1, span),
         carries' \in BOOLEAN, CarriesFamilies', pc # "down",
         UNCHANGED <<pruned, acked, results, diskVars, runnerVars>>
  PROVE  IInv'
<1> DEFINE n == NextJob
           r == [lane |-> lane, mark |-> Len(kind'), base |-> acked,
                 target |-> version + 1, span |-> span]
<1>1. /\ Len(kind) \in Nat /\ Len(kind') \in Nat /\ version \in Nat /\ acked \in Nat
      /\ Types /\ Rows /\ status \in [JobId -> Status] /\ spec \in [JobId -> Mint]
      /\ Len(kind) <= Len(kind') /\ Len(kind') \in {Len(kind), Len(kind) + 1}
  <2>1. Types /\ Rows /\ status \in [JobId -> Status] /\ spec \in [JobId -> Mint]
    BY DEF IInv, Types
  <2> QED BY <2>1, Numbers
<1>2. UNCHANGED <<sidecar, gens, pending, pc, cur, seen, meta, built, results, pruned, acked>>
  BY DEF diskVars, runnerVars
<1>3. n \in JobId /\ n \notin Used /\ n = Cardinality(Used) + 1 /\ n \in Nat
      /\ IsFiniteSet(Used) /\ \A j \in JobId : j \in Used <=> j < n
  BY <1>1, NextJobFacts DEF Insert, Rows
<1>4. spec' = [spec EXCEPT ![n] = r] /\ status' = [Superseded(status) EXCEPT ![n] = "queued"]
  BY DEF Insert
<1> HIDE DEF n
<1>5. /\ spec'[n] = r /\ status'[n] = "queued"
      /\ \A j \in JobId : j # n =>
           /\ spec'[j] = spec[j]
           /\ status'[j] = IF status[j] = "queued" THEN "superseded" ELSE status[j]
  <2>1. Superseded(status) = [j \in JobId |-> IF status[j] = "queued" THEN "superseded" ELSE status[j]]
    BY DEF Superseded
  <2> HIDE DEF r
  <2> QED BY <1>1, <1>3, <1>4, <2>1
<1>6. status[n] = "absent" /\ \A j \in Used : j \in JobId /\ j # n /\ j < n
  BY <1>3 DEF Used
<1>7. Used' = Used \cup {n}
  <2>1. \A j \in JobId : j \in Used' <=> j \in Used \/ j = n
    BY <1>5 DEF Used
  <2>2. \A j \in Used' : j \in JobId
    BY DEF Used
  <2> QED BY <1>3, <1>6, <2>1, <2>2
<1>8. Types'
  <2>1. status' \in [JobId -> Status]
    <3>1. Superseded(status) \in [JobId -> Status]
      BY <1>1 DEF Superseded, Status
    <3> QED BY <1>4, <3>1 DEF Status
  <2>2. r \in Mint
    <3>1. version + 1 \in Nat
      BY <1>1
    <3> QED BY <1>1, <3>1 DEF Mint
  <2> HIDE DEF r
  <2>3. spec' \in [JobId -> Mint]
    BY <1>1, <1>4, <2>2
  <2>4. /\ Len(kind') <= MaxEvents /\ native' \in 0 .. MaxNative
        /\ version' = Len(kind') + native' /\ acked' \in 0 .. Len(kind')
    <3>1. /\ Len(kind) <= MaxEvents /\ native \in 0 .. MaxNative /\ version = Len(kind) + native
          /\ acked \in 0 .. Len(kind)
      BY <1>1 DEF Types
    <3> QED BY <1>1, <1>2, <3>1, LanesAssumption
  <2>5. pruned' \in Nat /\ carries' \in BOOLEAN /\ seen' \in [low : Nat, top : Nat, at : Nat]
    BY <1>1, <1>2 DEF Types
  <2> QED BY <1>1, <1>2, <2>1, <2>3, <2>4, <2>5 DEF Types
<1>9. /\ r.mark = Len(kind') /\ r.base = acked /\ r.target = version + 1
  OBVIOUS
<1> HIDE DEF r
<1>10. Rows'
  <2>1. IsFiniteSet(Used') /\ NextJob' = n + 1
    <3>1. IsFiniteSet(Used \cup {n}) /\ Cardinality(Used \cup {n}) = Cardinality(Used) + 1
      BY <1>3, FS_AddElement
    <3>2. NextJob' = Cardinality(Used') + 1
      BY DEF NextJob, Used
    <3> QED BY <1>3, <1>7, <3>1, <3>2
  <2>2. \A j \in JobId : j \in Used' <=> j < n + 1
    BY <1>3, <1>7 DEF JobId
  <2>3. ASSUME NEW j \in Used
        PROVE  /\ spec'[j] = spec[j] /\ j \in JobId /\ j # n /\ j < n
               /\ spec[j].mark <= Len(kind) /\ spec[j].target <= version /\ spec[j].base <= acked
               /\ spec[j].mark \in Nat /\ spec[j].target \in Nat
               /\ \A i \in Used : i < j =>
                    spec[i].mark <= spec[j].mark /\ spec[i].target < spec[j].target
    BY <1>1, <1>5, <1>6 DEF Rows, Mint
  <2>4. ASSUME NEW j \in Used'
        PROVE  /\ spec'[j].mark <= Len(kind') /\ spec'[j].target <= version'
               /\ spec'[j].base <= acked'
               /\ spec'[j].target = version' => spec'[j].mark = Len(kind')
               /\ \A i \in Used' : i < j =>
                    spec'[i].mark <= spec'[j].mark /\ spec'[i].target < spec'[j].target
    <3>1. CASE j = n
      <4>1. spec'[j] = r
        BY <1>5, <3>1
      <4>2. ASSUME NEW i \in Used', i < j
            PROVE  spec'[i].mark <= Len(kind') /\ spec'[i].target < version + 1
        <5>1. i \in Used
          BY <1>3, <1>7, <3>1, <4>2
        <5> QED BY <1>1, <2>3, <5>1
      <4> QED BY <1>1, <1>2, <1>9, <4>1, <4>2
    <3>2. CASE j \in Used
      <4>1. ASSUME NEW i \in Used', i < j
            PROVE  spec'[i].mark <= spec'[j].mark /\ spec'[i].target < spec'[j].target
        <5>1. i \in Used
          BY <1>3, <1>6, <1>7, <3>2, <4>1 DEF JobId
        <5> QED BY <2>3, <3>2, <4>1, <5>1
      <4> QED BY <1>1, <1>2, <2>3, <3>2, <4>1
    <3> QED BY <1>7, <3>1, <3>2
  <2> QED BY <2>1, <2>2, <2>4 DEF Rows
<1>11. \A j \in JobId : /\ status'[j] = "complete" <=> status[j] = "complete"
                        /\ status'[j] = "running" <=> status[j] = "running"
                        /\ status'[j] = "queued" <=> j = n
                        /\ status[j] # "absent" => j < n
  BY <1>3, <1>5, <1>6 DEF Used
<1>12. Order'
  BY <1>2, <1>11 DEF IInv, Order, Live
<1>13. Runner'
  <2> SUFFICES ASSUME pc \in Active
               PROVE  /\ cur \in JobId /\ status'[cur] \in {"running", "cancelled"}
                      /\ \A j \in JobId : status'[j] = "complete" => j < cur
                      /\ \A k \in JobId : status'[k] = "queued" => cur < k
                      /\ seen.top <= Len(kind') /\ spec'[cur].mark <= seen.top
                      /\ pc = "base" => Plain(kind', seen.top)
    BY <1>2 DEF Runner, Job
  <2>1. /\ cur \in JobId /\ status[cur] \in {"running", "cancelled"}
        /\ \A j \in JobId : status[j] = "complete" => j < cur
        /\ seen.top <= Len(kind) /\ spec[cur].mark <= seen.top
        /\ pc = "base" => Plain(kind, seen.top)
    BY DEF IInv, Runner, Job
  <2>2. cur # n /\ cur < n
    BY <1>11, <2>1, <1>6
  <2>3. seen.top \in Nat
    BY <1>1 DEF Types
  <2>4. seen.top <= Len(kind') /\ \A s \in 1 .. seen.top : kind'[s] = kind[s]
    BY <1>1, <2>1, <2>3
  <2>5. Plain(kind, seen.top) => Plain(kind', seen.top)
    BY <2>3, <2>4, LedgerStable
  <2> QED BY <1>5, <1>11, <2>1, <2>2, <2>4, <2>5
<1>14. /\ Snapshots' /\ Sidecar' /\ Outcome'
       /\ \A v \in Served : Shown(kind', spec', results[v].scene, results[v].own,
                                  results[v].mark, results[v].job)
  <2>1. \A j \in Used : spec'[j] = spec[j] /\ (status'[j] = "complete" <=> status[j] = "complete")
    BY <1>5, <1>6, <1>11
  <2>2. \A j \in Used : status'[j] # "absent"
    BY <1>7 DEF Used
  <2>3. MaxOf(Served)' = MaxOf(Served)
    BY <1>2 DEF Served, MaxOf
  <2> QED BY <1>1, <1>8, <2>1, <2>2, <2>3, HistoryKept
<1>15. Served' = Served
  BY <1>2 DEF Served
<1>16. Published'
  BY <1>2, <1>14, <1>15 DEF Published
<1>17. Shelf'
  <2>1. version' \in Nat /\ version <= version' /\ Used \subseteq Used'
    BY <1>1, <1>7
  <2>2. \A s \in 1 .. Len(kind') : kind'[s] = "reset" => s \in 1 .. Len(kind) /\ kind[s] = "reset"
    <3> SUFFICES ASSUME NEW s \in 1 .. Len(kind'), kind'[s] = "reset"
                 PROVE  s \in 1 .. Len(kind)
      OBVIOUS
    <3>1. s \in 1 .. Len(kind) \/ (Len(kind') = Len(kind) + 1 /\ s = Len(kind) + 1)
      BY <1>1
    <3> QED BY <1>1, <3>1
  <2>3. \A j \in Used : spec'[j] = spec[j]
    BY <1>5, <1>6
  <2>4. \A j \in Used' : j \notin Used => spec'[j].target = version + 1
    BY <1>5, <1>7, <1>9
  <2>5. \A j \in JobId : status'[j] = "complete" => j \in Used /\ Reached(spec[j].mark)
    BY <1>11 DEF IInv, Shelf, Used
  <2>6. pc' = "finish" => cur' \in Used /\ Reached(spec[cur'].mark)
    BY <1>2 DEF IInv, Shelf, Runner, Active, Used, Job
  <2> QED BY <1>1, <1>2, <2>1, <2>2, <2>3, <2>4, <2>5, <2>6, ShelfKept DEF IInv
<1> QED BY <1>8, <1>10, <1>12, <1>13, <1>14, <1>16, <1>17 DEF IInv

\* commit_edits and commit_universal_edits.
LEMMA CommitKeeps ==
  ASSUME IInv, NEW k \in {"tree", "on", "off"}, Commit(k)
  PROVE  IInv'
<1> DEFINE n == Len(kind)
<1>1. /\ kind' = Append(kind, k) /\ version' = version + 1 /\ carries' = Carries(k)
      /\ Insert("legacy", n + 1, version + 1, FALSE) /\ pc # "down" /\ n < MaxEvents
      /\ UNCHANGED <<pruned, acked, results, diskVars, runnerVars, native>>
  BY DEF Commit, countVars
<1>2. /\ kind' \in Seq(Kind) /\ Len(kind') = n + 1 /\ n \in Nat /\ carries \in BOOLEAN
      /\ \A s \in 1 .. n : kind'[s] = kind[s]
      /\ kind'[n + 1] = k
  BY <1>1, LedgerGrows DEF IInv, Types, Kind
<1>3. carries' \in BOOLEAN
  BY <1>1, <1>2 DEF Carries
<1>4. CarriesFamilies'
  <2> SUFFICES ASSUME ~carries', NEW s \in 1 .. n + 1, kind'[s] \in Family
               PROVE  \E r \in s .. n + 1 : kind'[r] = "reset"
    BY <1>2 DEF CarriesFamilies, Plain
  <2>1. ~carries /\ k \notin Family
    BY <1>1 DEF Carries
  <2>2. s \in 1 .. n /\ kind[s] \in Family
    <3>1. s # n + 1
      BY <1>2, <2>1
    <3>2. s \in 1 .. n
      BY <1>2, <3>1
    <3> QED BY <1>2, <3>2
  <2>3. PICK r \in s .. n : kind[r] = "reset"
    BY <2>1, <2>2 DEF IInv, CarriesFamilies, Plain
  <2>4. r \in s .. n + 1 /\ r \in 1 .. n
    BY <1>2, <2>2
  <2> QED BY <1>2, <2>3, <2>4
<1>5. "legacy" \in Lane /\ k # "reset" /\ FALSE \in BOOLEAN
  BY DEF Lane
<1>6. Insert("legacy", Len(kind'), version + 1, FALSE)
  BY <1>1, <1>2
<1> HIDE DEF n
<1> QED BY <1>1, <1>2, <1>3, <1>4, <1>5, <1>6, InsertKeeps DEF n

\* An epoch commits and its exact-lane job is minted.
LEMMA NativeKeeps ==
  ASSUME IInv, NEW lane \in {"exact", "reconcile"}, NEW span \in BOOLEAN,
         NativeCommit(lane, span)
  PROVE  IInv'
<1>1. /\ version' = version + 1 /\ Insert(lane, Len(kind), version + 1, span) /\ pc # "down"
      /\ native < MaxNative /\ native' = native + 1
      /\ UNCHANGED <<kind, pruned, acked, carries, results, diskVars, runnerVars>>
  BY DEF NativeCommit
<1>2. kind' \in Seq(Kind) /\ kind' = kind /\ carries' \in BOOLEAN /\ lane \in Lane
  BY <1>1 DEF IInv, Types, Lane
<1>3. CarriesFamilies'
  BY <1>1 DEF IInv, CarriesFamilies
<1>4. Len(kind') = Len(kind) /\ \A s \in 1 .. Len(kind) : kind'[s] = kind[s]
  BY <1>2
<1>5. Insert(lane, Len(kind'), version + 1, span)
  BY <1>1, <1>4
<1> QED BY <1>1, <1>2, <1>3, <1>4, <1>5, InsertKeeps

\* reset_scenario: the baseline is the result of the new version, and no job.
LEMMA ResetKeeps ==
  ASSUME IInv, Reset
  PROVE  IInv'
<1> DEFINE n == Len(kind)
           res == Baseline(n + 1)
<1>1. /\ kind' = Append(kind, "reset") /\ version' = version + 1 /\ acked' = n + 1
      /\ carries' = FALSE /\ status' = Superseded(status) /\ n < MaxEvents
      /\ results' = [results EXCEPT ![version + 1] = res]
      /\ UNCHANGED <<pruned, spec, diskVars, runnerVars, native>>
  BY DEF Reset, countVars
<1>2. /\ kind' \in Seq(Kind) /\ Len(kind') = n + 1 /\ n \in Nat
      /\ \A s \in 1 .. n : kind'[s] = kind[s]
      /\ kind'[n + 1] = "reset"
  BY <1>1, LedgerGrows DEF IInv, Types, Kind
<1>3. /\ Types /\ Rows /\ version \in Nat /\ status \in [JobId -> Status] /\ spec \in [JobId -> Mint]
      /\ version = n + native /\ native \in 0 .. MaxNative /\ acked \in 0 .. n
  <2>1. /\ Types /\ Rows /\ status \in [JobId -> Status] /\ spec \in [JobId -> Mint]
        /\ version = n + native /\ native \in 0 .. MaxNative /\ acked \in 0 .. n
    BY DEF IInv, Types
  <2> QED BY <2>1, Numbers
<1>4. UNCHANGED <<sidecar, gens, pending, pc, cur, seen, meta, built>>
  BY <1>1 DEF diskVars, runnerVars
<1>5. \A j \in JobId : status'[j] = IF status[j] = "queued" THEN "superseded" ELSE status[j]
  BY <1>1 DEF Superseded
<1>6. Used' = Used
  <2>1. \A j \in JobId : j \in Used' <=> j \in Used
    BY <1>5 DEF Used
  <2> QED BY <2>1 DEF Used
<1>7. res.is /\ res.mark = n + 1 /\ res.scene = {} /\ res.job = None
  BY DEF Baseline, Row
<1> HIDE DEF res
<1>8. /\ results' = [v \in Versions |-> results'[v]] /\ results'[version + 1] = res
      /\ version + 1 \in Versions
      /\ \A v \in Versions : v # version + 1 => results'[v] = results[v]
  <2>1. results = [v \in Versions |-> results[v]]
    BY <1>3 DEF Types
  <2>2. version + 1 \in Versions
    BY <1>1, <1>2, <1>3, LanesAssumption DEF Versions
  <2> QED BY <1>1, <2>1, <2>2
<1>9. Types'
  <2>1. status' \in [JobId -> Status]
    BY <1>1, <1>3 DEF Superseded, Status
  <2>2. /\ Len(kind') <= MaxEvents /\ native' \in 0 .. MaxNative
        /\ version' = Len(kind') + native' /\ acked' \in 0 .. Len(kind')
    BY <1>1, <1>2, <1>3, LanesAssumption
  <2>3. carries' \in BOOLEAN
    BY <1>1
  <2>4. pruned' \in Nat /\ spec' \in [JobId -> Mint] /\ seen' \in [low : Nat, top : Nat, at : Nat]
    BY <1>1, <1>3, <1>4 DEF Types
  <2> QED BY <1>2, <1>3, <1>4, <1>8, <2>1, <2>2, <2>3, <2>4 DEF Types
<1>10. Rows'
  <2>1. NextJob' = NextJob
    BY <1>6 DEF NextJob, Used
  <2>2. ASSUME NEW j \in Used
        PROVE  /\ spec[j].mark <= n + 1 /\ spec[j].target <= version + 1
               /\ spec[j].target # version + 1 /\ spec[j].base <= n + 1
               /\ \A i \in Used : i < j =>
                    spec[i].mark <= spec[j].mark /\ spec[i].target < spec[j].target
    <3>1. j \in JobId /\ spec[j].mark <= n /\ spec[j].target <= version /\ spec[j].base <= acked
          /\ \A i \in Used : i < j =>
               spec[i].mark <= spec[j].mark /\ spec[i].target < spec[j].target
      BY <1>3 DEF Rows, Used
    <3>2. spec[j].mark \in Nat /\ spec[j].target \in Nat /\ spec[j].base \in Nat
      BY <1>3, <3>1 DEF Mint
    <3> QED BY <1>2, <1>3, <3>1, <3>2
  <2> QED BY <1>1, <1>2, <1>3, <1>6, <2>1, <2>2 DEF Rows
<1>11. \A j \in JobId : /\ status'[j] = "complete" <=> status[j] = "complete"
                        /\ status'[j] = "running" <=> status[j] = "running"
                        /\ status'[j] # "queued"
  BY <1>5
<1>12. Order'
  BY <1>4, <1>11 DEF IInv, Order, Live
<1>13. Runner'
  <2> SUFFICES ASSUME pc \in Active
               PROVE  /\ cur \in JobId /\ status'[cur] \in {"running", "cancelled"}
                      /\ \A j \in JobId : status'[j] = "complete" => j < cur
                      /\ \A k \in JobId : status'[k] = "queued" => cur < k
                      /\ seen.top <= Len(kind') /\ spec[cur].mark <= seen.top
                      /\ pc = "base" => Plain(kind', seen.top)
    BY <1>1, <1>4 DEF Runner, Job
  <2>1. /\ cur \in JobId /\ status[cur] \in {"running", "cancelled"}
        /\ \A j \in JobId : status[j] = "complete" => j < cur
        /\ seen.top <= n /\ spec[cur].mark <= seen.top
        /\ pc = "base" => Plain(kind, seen.top)
    BY DEF IInv, Runner, Job
  <2>2. seen.top \in Nat
    BY <1>3 DEF Types
  <2>3. seen.top <= Len(kind') /\ \A s \in 1 .. seen.top : kind'[s] = kind[s]
    BY <1>2, <2>1, <2>2
  <2>4. Plain(kind, seen.top) => Plain(kind', seen.top)
    BY <2>2, <2>3, LedgerStable
  <2> QED BY <1>5, <1>11, <2>1, <2>3, <2>4
<1>14. CarriesFamilies'
  <2>1. \A s \in 1 .. n + 1 : n + 1 \in s .. n + 1
    BY <1>2
  <2> QED BY <1>2, <2>1 DEF CarriesFamilies, Plain
<1>15. \A v \in Served : v \in Versions /\ v <= version /\ results'[v] = results[v]
  <2> SUFFICES ASSUME NEW v \in Served PROVE v \in Versions /\ v <= version /\ v # version + 1
    BY <1>8
  <2>1. v \in Versions /\ v <= version
    BY <1>3 DEF Served, IInv, Types, Shelf
  <2> QED BY <1>3, <2>1 DEF Versions
<1>16. Served' = Served \cup {version + 1}
  <2>1. DOMAIN results = Versions /\ DOMAIN results' = Versions
    BY <1>3, <1>8 DEF Types
  <2>2. \A v \in Versions : v \in Served' <=> v \in Served \/ v = version + 1
    BY <1>7, <1>8, <2>1 DEF Served
  <2>3. \A v \in Served' : v \in Versions
    BY <2>1 DEF Served
  <2> QED BY <1>8, <1>15, <2>2, <2>3
<1>17. MaxOf(Served)' = version + 1
  <2> DEFINE S == Served'
             x == MaxOf(S)
  <2>1. S \in SUBSET (0 .. version + 1) /\ version + 1 \in S
    BY <1>3, <1>15, <1>16 DEF Versions
  <2>2. MaxOf(Served)' = x
    BY DEF MaxOf
  <2> HIDE DEF S
  <2>3. version + 1 \in Nat
    BY <1>3
  <2>4. x \in 0 .. version + 1 /\ \A y \in S : y <= x
    BY <2>1, <2>3, MaxOfFacts
  <2> HIDE DEF x
  <2> QED BY <1>3, <2>1, <2>2, <2>4
<1>18. /\ Snapshots' /\ Sidecar' /\ Outcome'
       /\ \A v \in Served : Shown(kind', spec', results[v].scene, results[v].own,
                                  results[v].mark, results[v].job)
  <2>1. \A j \in Used : spec'[j] = spec[j] /\ (status'[j] = "complete" <=> status[j] = "complete")
    BY <1>1, <1>11 DEF Used
  <2>2. \A j \in Used : status'[j] # "absent"
    BY <1>5 DEF Used
  <2> QED BY <1>1, <1>2, <1>9, <1>17, <2>1, <2>2, HistoryKept
<1>19. Published'
  <2>1. TreesOf(kind', n + 1) = {} /\ ~PaintOf(kind', n + 1)
    <3>1. \A s \in 1 .. n + 1 : n + 1 \in s .. n + 1
      BY <1>2
    <3> QED BY <1>2, <3>1 DEF TreesOf, PaintOf
  <2>2. Shown(kind', spec', res.scene, res.own, res.mark, res.job)
    BY <1>7, <2>1 DEF Shown
  <2> QED BY <1>8, <1>15, <1>16, <1>18, <2>2 DEF Published
<1> DEFINE Now(m) == m = 0 \/ \E v \in Served' : results'[v].mark >= m
<1>20. \A m : (Reached(m) => Now(m)) /\ (m \in 0 .. n + 1 => Now(m))
  <2> SUFFICES ASSUME NEW m PROVE (Reached(m) => Now(m)) /\ (m \in 0 .. n + 1 => Now(m))
    OBVIOUS
  <2>1. Reached(m) => Now(m)
    BY <1>15, <1>16 DEF Reached
  <2>2. m \in 0 .. n + 1 => Now(m)
    <3>1. version + 1 \in Served' /\ results'[version + 1].mark = n + 1
      BY <1>7, <1>8, <1>16
    <3>2. m \in 0 .. n + 1 => n + 1 >= m
      BY <1>2
    <3> QED BY <3>1, <3>2
  <2> QED BY <2>1, <2>2
<1> HIDE DEF Now
<1>21. Shelf'
  <2>1. ASSUME NEW v \in Served'
        PROVE  /\ v <= version' /\ results'[v].mark \in 0 .. Len(kind')
               /\ results'[v].job \in Used' \cup {None}
               /\ results'[v].job = None => results'[v].scene = {}
               /\ results'[v].job # None => spec'[results'[v].job].target = v
               /\ \A j \in Used' : spec'[j].target = v => results'[v].mark = spec'[j].mark
               /\ \A u \in Served' : u < v => results'[u].mark <= results'[v].mark
    <3>1. CASE v = version + 1
      <4>1. results'[v] = res /\ v \notin Served
        BY <1>3, <1>8, <1>15, <3>1
      <4>2. \A u \in Served' : u < v => results'[u].mark <= n + 1
        <5> SUFFICES ASSUME NEW u \in Served', u < v PROVE results'[u].mark <= n + 1
          OBVIOUS
        <5>1. u \in Served
          BY <1>3, <1>16, <3>1
        <5>2. results[u].mark \in 0 .. n
          BY <5>1 DEF IInv, Shelf
        <5> QED BY <1>2, <1>15, <5>1, <5>2
      <4>3. \A j \in Used : spec[j].target # version + 1
        <5> SUFFICES ASSUME NEW j \in Used PROVE spec[j].target # version + 1
          OBVIOUS
        <5>1. spec[j].target <= version /\ spec[j].target \in Nat
          BY <1>3 DEF Rows, Mint, Used
        <5> QED BY <1>3, <5>1
      <4> QED BY <1>1, <1>2, <1>3, <1>6, <1>7, <3>1, <4>1, <4>2, <4>3
    <3>2. CASE v \in Served
      <4>1. /\ v <= version /\ results[v].mark \in 0 .. n
            /\ results[v].job \in Used \cup {None}
            /\ results[v].job = None => results[v].scene = {}
            /\ results[v].job # None => spec[results[v].job].target = v
            /\ \A j \in Used : spec[j].target = v => results[v].mark = spec[j].mark
            /\ \A u \in Served : u < v => results[u].mark <= results[v].mark
        BY <3>2 DEF IInv, Shelf
      <4>2. results'[v] = results[v] /\ v \in Nat
        BY <1>15, <3>2 DEF Versions
      <4>3. \A u \in Served' : u < v => u \in Served /\ results'[u] = results[u]
        BY <1>3, <1>15, <1>16, <4>1, <4>2
      <4>4. v <= version' /\ results[v].mark \in 0 .. Len(kind')
        BY <1>1, <1>2, <1>3, <4>1, <4>2
      <4> QED BY <1>1, <1>6, <4>1, <4>2, <4>3, <4>4
    <3> QED BY <1>16, <3>1, <3>2
  <2>2. \A r \in 1 .. Len(kind') : kind'[r] = "reset" => Now(r)
    BY <1>2, <1>20
  <2>3. \A j \in JobId : status'[j] = "complete" => Now(spec'[j].mark)
    <3> SUFFICES ASSUME NEW j \in JobId, status[j] = "complete" PROVE Now(spec'[j].mark)
      BY <1>11
    <3>1. Reached(spec[j].mark)
      BY DEF IInv, Shelf
    <3> QED BY <1>1, <1>20, <3>1
  <2>4. pc' = "finish" => Now(Job'.mark)
    <3>1. pc = "finish" => Reached(Job.mark)
      BY DEF IInv, Shelf
    <3>2. Job' = Job
      BY <1>1, <1>4 DEF Job
    <3> QED BY <1>4, <1>20, <3>1, <3>2
  <2>5. Now(acked')
    <3>1. n + 1 \in 0 .. n + 1
      BY <1>2
    <3> QED BY <1>1, <1>20, <3>1
  <2> QED BY <2>1, <2>2, <2>3, <2>4, <2>5 DEF Shelf, Reached, Now
<1> QED BY <1>9, <1>10, <1>12, <1>13, <1>14, <1>18, <1>19, <1>21 DEF IInv

-----------------------------------------------------------------------------
(* The steps of the runner, which leave the ledger and the rows alone.     *)

\* The rows in use stay the same, and so does what the ledger says.
LEMMA RowsKept ==
  ASSUME Types, Rows, CarriesFamilies, UNCHANGED <<kind, version, spec, carries>>,
         acked' \in Nat, acked <= acked',
         \A j \in JobId : status'[j] = "absent" <=> status[j] = "absent"
  PROVE  Rows' /\ CarriesFamilies' /\ Used' = Used
<1>1. Used' = Used
  BY DEF Used
<1>2. NextJob' = NextJob
  BY <1>1 DEF NextJob, Used
<1>3. ASSUME NEW j \in Used PROVE spec[j].base <= acked'
  <2>1. spec[j].base <= acked /\ spec[j].base \in Nat /\ acked \in Nat
    BY Numbers DEF Rows, Types, Mint, Used
  <2> QED BY <2>1
<1>4. Rows'
  BY <1>1, <1>2, <1>3 DEF Rows
<1> QED BY <1>1, <1>4 DEF CarriesFamilies

\* The snapshots stay the same, unless a job completes that was current.
LEMMA DiskKept ==
  ASSUME Snapshots, UNCHANGED <<kind, spec, gens>>, Used' = Used,
         pending' = pending \/ pending' = Nothing,
         \A j \in JobId : status[j] = "complete" => status'[j] = "complete",
         \A j \in JobId : status'[j] = "complete" => status[j] = "complete" \/ Current(j),
         \A j \in Used : Current(j)' => Current(j)
  PROVE  Snapshots'
<1>1. ASSUME NEW j \in JobId, gens'[j].is
      PROVE  /\ status'[j] = "complete" /\ Kept(gens[j], j)'
             /\ Faithful(kind', Len(kind'), spec', gens'[j].scene, gens'[j].owed, spec'[j].mark, j)
  <2>1. /\ status[j] = "complete" /\ Kept(gens[j], j)
        /\ Faithful(kind, Len(kind), spec, gens[j].scene, gens[j].owed, spec[j].mark, j)
    BY <1>1 DEF Snapshots
  <2> QED BY <2>1 DEF Kept
<1>2. CASE pending' = Nothing
  <2>1. ~pending'.is
    BY <1>2 DEF Nothing
  <2> QED BY <1>1, <2>1 DEF Snapshots
<1>3. CASE pending' = pending
  <2>1. ASSUME pending'.is
        PROVE  /\ pending'.job \in Used' /\ pending'.covered = spec'[pending'.job].mark
               /\ Kept(pending.snap, pending.job)'
               /\ status'[pending'.job] = "complete" \/ Current(pending.job)' =>
                    Faithful(kind', Len(kind'), spec', pending'.snap.scene,
                             pending'.snap.owed, pending'.covered, pending'.job)
    <3> DEFINE j == pending.job
    <3>1. /\ j \in Used /\ pending.covered = spec[j].mark /\ Kept(pending.snap, j)
          /\ status[j] = "complete" \/ Current(j) =>
               Faithful(kind, Len(kind), spec, pending.snap.scene, pending.snap.owed,
                        pending.covered, j)
      BY <1>3, <2>1 DEF Snapshots
    <3>2. Current(pending.job)' => Current(j)
      BY <1>3, <3>1 DEF Current
    <3>3. status'[j] = "complete" => status[j] = "complete" \/ Current(j)
      BY <3>1 DEF Used
    <3> QED BY <1>3, <3>1, <3>2, <3>3 DEF Kept
  <2> QED BY <1>1, <2>1 DEF Snapshots
<1> QED BY <1>2, <1>3

\* What is served stays the same.
LEMMA ServedKept ==
  ASSUME Types, Rows, Shelf, Published, UNCHANGED <<kind, version, acked, spec, results>>,
         Used' = Used,
         \A j \in JobId : status'[j] = "complete" => j \in Used /\ Reached(spec[j].mark),
         pc' = "finish" => cur' \in Used /\ Reached(spec[cur'].mark)
  PROVE  Shelf' /\ Published' /\ Served' = Served /\ Latest' = Latest
         /\ MaxOf(Served)' = MaxOf(Served)
<1>1. Served' = Served
  BY DEF Served
<1>2. MaxOf(Served)' = MaxOf(Served)
  BY <1>1 DEF MaxOf
<1>3. Latest' = Latest
  BY <1>2 DEF Latest
<1>4. Published'
  BY <1>1 DEF Published
<1>5. /\ version \in Nat /\ Len(kind) \in Nat /\ version' = version /\ version <= version'
      /\ Len(kind') \in Nat /\ Len(kind) <= Len(kind')
  <2>1. version \in Nat /\ Len(kind) \in Nat
    BY Numbers
  <2> QED BY <2>1
<1>6. \A r \in 1 .. Len(kind') : kind'[r] = "reset" => r \in 1 .. Len(kind) /\ kind[r] = "reset"
  OBVIOUS
<1>7. Shelf'
  BY <1>5, <1>6, ShelfKept
<1> QED BY <1>1, <1>2, <1>3, <1>4, <1>7

\* A job ends without or with its outcome.
LEMMA AbandonKeeps ==
  ASSUME IInv, pc \in Active, NEW st \in {"superseded", "failed", "complete"}, Abandon(st),
         st = "complete" => pc = "finish",
         UNCHANGED <<kind, pruned, version, acked, carries, spec, results, diskVars, meta>>,
         native' = native
  PROVE  IInv'
<1>1. /\ Types /\ Rows /\ CarriesFamilies /\ status \in [JobId -> Status]
      /\ cur \in JobId /\ status[cur] \in {"running", "cancelled"}
  BY DEF IInv, Types, Runner
<1>2. /\ pc' = "idle" /\ cur' = None /\ seen' = Unseen
      /\ UNCHANGED <<kind, pruned, version, acked, carries, spec, results, sidecar, gens, pending>>
  BY DEF Abandon, diskVars
<1>3. status' = [status EXCEPT ![cur] = IF status[cur] \in Live THEN st ELSE status[cur]]
  BY <1>1 DEF Abandon
<1>4. /\ status'[cur] \in {st, "cancelled"} /\ \A j \in JobId : j # cur => status'[j] = status[j]
      /\ status' \in [JobId -> Status]
  BY <1>1, <1>3 DEF Live, Status
<1>5. Types'
  <2>1. seen' \in [low : Nat, top : Nat, at : Nat]
    BY <1>2 DEF Unseen
  <2> QED BY <1>1, <1>2, <1>4, <2>1 DEF Types
<1>6. Rows' /\ CarriesFamilies' /\ Used' = Used
  <2>1. \A j \in JobId : status'[j] = "absent" <=> status[j] = "absent"
    BY <1>1, <1>4
  <2>2. acked' \in Nat /\ acked <= acked'
    BY <1>1, <1>2, Numbers
  <2> QED BY <1>1, <1>2, <2>1, <2>2, RowsKept
<1>7. Order'
  <2>1. \A j \in JobId : status'[j] # "running"
    BY <1>1, <1>4 DEF IInv, Order, Active
  <2>2. \A k \in JobId : status'[k] = "queued" => status[k] = "queued" /\ cur < k
    BY <1>1, <1>4 DEF IInv, Runner
  <2>3. \A j \in JobId : status'[j] = "complete" => status[j] = "complete" \/ j = cur
    BY <1>4
  <2> QED BY <2>1, <2>2, <2>3 DEF IInv, Order, Live
<1>8. Runner'
  BY <1>2 DEF Runner, Active
<1>9. \A j \in JobId : status'[j] = "complete" =>
        status[j] = "complete" \/ (j = cur /\ pc = "finish")
  BY <1>4
<1>10. Shelf' /\ Published'
  <2>1. \A j \in JobId : status'[j] = "complete" => j \in Used /\ Reached(spec[j].mark)
    BY <1>1, <1>9 DEF IInv, Shelf, Used, Job
  <2>2. pc' # "finish"
    BY <1>2
  <2> QED BY <1>1, <1>2, <1>6, <2>1, <2>2, ServedKept DEF IInv
<1>11. Snapshots'
  <2>1. \A j \in JobId : status'[j] = "complete" => status[j] = "complete" \/ Current(j)
    BY <1>9 DEF Current
  <2>2. \A j \in JobId : status[j] = "complete" => status'[j] = "complete"
    BY <1>1, <1>4
  <2>3. \A j \in Used : Current(j)' => Current(j)
    BY <1>2 DEF Current
  <2> QED BY <1>2, <1>6, <2>1, <2>2, <2>3, DiskKept DEF IInv
<1>12. Sidecar' /\ Outcome'
  BY <1>2, <1>6 DEF IInv, Sidecar, Outcome
<1> QED BY <1>5, <1>6, <1>7, <1>8, <1>10, <1>11, <1>12 DEF IInv

\* A client cancels a job, or the scan takes a queued one out.
LEMMA DropJobKeeps ==
  ASSUME IInv, NEW c \in JobId, status[c] \in Live,
         NEW st \in {"cancelled", "superseded"}, st = "superseded" => status[c] = "queued",
         UNCHANGED <<kind, pruned, version, acked, carries, spec, results, diskVars, runnerVars>>,
         native' = native, status' = [status EXCEPT ![c] = st]
  PROVE  IInv'
<1>1. Types /\ Rows /\ CarriesFamilies /\ status \in [JobId -> Status]
  BY DEF IInv, Types
<1>2. UNCHANGED <<sidecar, gens, pending, pc, cur, seen, meta, built>>
  BY DEF diskVars, runnerVars
<1>3. /\ status'[c] = st /\ \A j \in JobId : j # c => status'[j] = status[j]
      /\ status' \in [JobId -> Status]
  BY <1>1 DEF Status
<1>4. Types'
  BY <1>1, <1>2, <1>3 DEF Types
<1>5. Rows' /\ CarriesFamilies' /\ Used' = Used
  <2>1. \A j \in JobId : status'[j] = "absent" <=> status[j] = "absent"
    BY <1>1, <1>3 DEF Live
  <2>2. acked' \in Nat /\ acked <= acked'
    BY <1>1, Numbers
  <2> QED BY <1>1, <2>1, <2>2, RowsKept
<1>6. Order' /\ Runner'
  <2>1. \A j \in JobId : status'[j] \in {"running", "queued", "complete"} => status[j] = status'[j]
    BY <1>3
  <2>2. Order'
    BY <1>2, <2>1 DEF IInv, Order, Live
  <2>3. pc \in Active => status'[cur] \in {"running", "cancelled"}
    <3> SUFFICES ASSUME pc \in Active, cur = c PROVE st = "cancelled"
      BY <1>3 DEF IInv, Runner
    <3>1. status[c] \in {"running", "cancelled"}
      BY DEF IInv, Runner
    <3> QED BY <3>1
  <2>4. Runner'
    BY <1>1, <1>2, <2>1, <2>3 DEF IInv, Runner, Job
  <2> QED BY <2>2, <2>4
<1>7. \A j \in JobId : status'[j] = "complete" <=> status[j] = "complete"
  BY <1>1, <1>3 DEF Live
<1>8. Shelf' /\ Published' /\ MaxOf(Served)' = MaxOf(Served) /\ Served' = Served /\ Latest' = Latest
  <2>1. \A j \in JobId : status'[j] = "complete" => j \in Used /\ Reached(spec[j].mark)
    BY <1>7 DEF IInv, Shelf, Used
  <2>2. pc' = "finish" => cur' \in Used /\ Reached(spec[cur'].mark)
    BY <1>2 DEF IInv, Shelf, Runner, Active, Used, Job
  <2> QED BY <1>1, <1>2, <1>5, <2>1, <2>2, ServedKept DEF IInv
<1>9. Snapshots'
  <2>1. \A j \in Used : Current(j)' => Current(j)
    BY <1>2, <1>8 DEF Current
  <2> QED BY <1>2, <1>5, <1>7, <2>1, DiskKept DEF IInv
<1>10. Sidecar'
  BY <1>2, <1>5 DEF IInv, Sidecar
<1>11. Outcome'
  BY <1>2, <1>5, <1>8 DEF IInv, Outcome, Job, ReservesOwn
<1> QED BY <1>4, <1>5, <1>6, <1>8, <1>9, <1>10, <1>11 DEF IInv

\* The sweep, the death of the process and its restart.
LEMMA ProcessKeeps ==
  ASSUME IInv, Sweep \/ Crash \/ Restart
  PROVE  IInv'
<1>1. /\ Types /\ Rows /\ CarriesFamilies /\ status \in [JobId -> Status]
      /\ UNCHANGED <<kind, version, acked, carries, spec, results, sidecar, gens, pending, native>>
      /\ acked \in Nat
  <2>1. /\ Types /\ Rows /\ CarriesFamilies /\ status \in [JobId -> Status]
        /\ UNCHANGED <<kind, version, acked, carries, spec, results, sidecar, gens, pending, native>>
    BY DEF IInv, Types, Sweep, Crash, Restart, storeVars, diskVars, countVars
  <2> QED BY <2>1, Numbers
<1>2. pc' # "finish" /\ pc' \in {"idle", "down"} /\ (pc' = "idle" => pc \in {"idle", "down"})
  BY DEF Sweep, Crash, Restart, runnerVars
<1>3. CASE Sweep
  <2>1. UNCHANGED <<status, pc, cur, seen, meta, built>>
    BY <1>3 DEF Sweep, runnerVars
  <2>2. pruned' \in Nat
    <3>1. pruned \in Nat /\ acked \in Nat /\ EventTail \in Nat
      BY <1>1, LanesAssumption DEF Types
    <3>2. pruned < acked - EventTail /\ pruned' = acked - EventTail
      BY <1>3 DEF Sweep, SweepFloor
    <3> QED BY <3>1, <3>2
  <2>3. Types'
    BY <1>1, <2>1, <2>2 DEF Types
  <2>4. Rows' /\ CarriesFamilies' /\ Used' = Used
    <3>1. acked' \in Nat /\ acked <= acked'
      BY <1>1
    <3> QED BY <1>1, <2>1, <3>1, RowsKept
  <2>5. Order' /\ Runner' /\ Sidecar' /\ Outcome'
    BY <1>1, <1>2, <2>1, <2>4 DEF IInv, Order, Runner, Sidecar, Outcome, Job, Active
  <2>6. Shelf' /\ Published'
    <3>1. \A j \in JobId : status'[j] = "complete" => j \in Used /\ Reached(spec[j].mark)
      BY <2>1 DEF IInv, Shelf, Used
    <3> QED BY <1>1, <1>2, <2>1, <2>4, <3>1, ServedKept DEF IInv
  <2>7. Snapshots'
    <3>1. \A j \in Used : Current(j)' => Current(j)
      BY <1>1, <1>2 DEF Current
    <3> QED BY <1>1, <2>1, <2>4, <3>1, DiskKept DEF IInv
  <2> QED BY <2>3, <2>4, <2>5, <2>6, <2>7 DEF IInv
<1>4. CASE Crash
  <2>1. /\ UNCHANGED <<status, pruned>> /\ pc' = "down" /\ cur' = None /\ seen' = Unseen
    BY <1>4 DEF Crash, storeVars
  <2>2. Types'
    BY <1>1, <2>1 DEF Types, Unseen
  <2>3. Rows' /\ CarriesFamilies' /\ Used' = Used
    <3>1. acked' \in Nat /\ acked <= acked'
      BY <1>1
    <3> QED BY <1>1, <2>1, <3>1, RowsKept
  <2>4. Order' /\ Runner' /\ Sidecar' /\ Outcome'
    BY <1>1, <2>1, <2>3 DEF IInv, Order, Runner, Sidecar, Outcome, Active
  <2>5. Shelf' /\ Published'
    <3>1. \A j \in JobId : status'[j] = "complete" => j \in Used /\ Reached(spec[j].mark)
      BY <2>1 DEF IInv, Shelf, Used
    <3> QED BY <1>1, <1>2, <2>1, <2>3, <3>1, ServedKept DEF IInv
  <2>6. Snapshots'
    <3>1. \A j \in Used : Current(j)' => Current(j)
      BY <1>1, <1>2 DEF Current
    <3> QED BY <1>1, <2>1, <2>3, <3>1, DiskKept DEF IInv
  <2> QED BY <2>2, <2>3, <2>4, <2>5, <2>6 DEF IInv
<1>5. CASE Restart
  <2>1. /\ UNCHANGED <<pruned, cur, seen>> /\ pc' = "idle"
        /\ status' = [j \in JobId |-> IF status[j] = "running" THEN "queued" ELSE status[j]]
    BY <1>5 DEF Restart
  <2>2. \A j \in JobId : status'[j] = IF status[j] = "running" THEN "queued" ELSE status[j]
    BY <2>1
  <2>3. status' \in [JobId -> Status]
    BY <1>1, <2>1 DEF Status
  <2>4. Types'
    BY <1>1, <2>1, <2>3 DEF Types
  <2>5. Rows' /\ CarriesFamilies' /\ Used' = Used
    <3>1. \A j \in JobId : status'[j] = "absent" <=> status[j] = "absent"
      BY <2>2
    <3>2. acked' \in Nat /\ acked <= acked'
      BY <1>1
    <3> QED BY <1>1, <3>1, <3>2, RowsKept
  <2>6. Order' /\ Runner' /\ Sidecar' /\ Outcome'
    <3>1. \A j \in JobId : /\ status'[j] # "running" /\ (status'[j] = "complete" <=> status[j] = "complete")
                           /\ status'[j] \in Live => status[j] \in Live
      BY <2>2 DEF Live
    <3>2. Order'
      BY <3>1 DEF IInv, Order
    <3> QED BY <1>1, <2>1, <2>5, <3>2 DEF IInv, Runner, Sidecar, Outcome, Active
  <2>7. \A j \in JobId : status'[j] = "complete" <=> status[j] = "complete"
    BY <2>2
  <2>8. Shelf' /\ Published'
    <3>1. \A j \in JobId : status'[j] = "complete" => j \in Used /\ Reached(spec[j].mark)
      BY <2>7 DEF IInv, Shelf, Used
    <3> QED BY <1>1, <1>2, <2>1, <2>5, <3>1, ServedKept DEF IInv
  <2>9. Snapshots'
    <3>1. \A j \in Used : Current(j)' => Current(j)
      BY <1>1, <2>1 DEF Current
    <3> QED BY <1>1, <2>5, <2>7, <3>1, DiskKept DEF IInv
  <2> QED BY <2>4, <2>5, <2>6, <2>8, <2>9 DEF IInv
<1> QED BY <1>3, <1>4, <1>5

\* A step of the running job that leaves the store alone.
LEMMA StoreKept ==
  ASSUME IInv, pc \in Active, pc' \in Active \ {"base", "finish"},
         UNCHANGED <<kind, version, acked, carries, status, spec, results, cur, seen>>
  PROVE  /\ Rows' /\ CarriesFamilies' /\ Used' = Used /\ Order' /\ Runner'
         /\ Shelf' /\ Published'
         /\ MaxOf(Served)' = MaxOf(Served) /\ Served' = Served /\ Latest' = Latest
<1>1. Rows' /\ CarriesFamilies' /\ Used' = Used
  <2>1. acked' \in Nat /\ acked <= acked'
    BY Numbers DEF IInv
  <2> QED BY <2>1, RowsKept DEF IInv
<1>2. pc # "down" /\ pc' # "down" /\ pc' # "idle" /\ pc' # "base" /\ pc' # "finish"
  BY DEF Active
<1>3. Order'
  BY <1>2 DEF IInv, Order
<1>4. Runner'
  BY <1>2 DEF IInv, Runner, Job
<1>5. \A j \in JobId : status'[j] = "complete" => j \in Used /\ Reached(spec[j].mark)
  BY DEF IInv, Shelf, Used
<1>6. /\ Shelf' /\ Published'
      /\ MaxOf(Served)' = MaxOf(Served) /\ Served' = Served /\ Latest' = Latest
  BY <1>1, <1>2, <1>5, ServedKept DEF IInv
<1> QED BY <1>1, <1>3, <1>4, <1>6

\* The runner starts the oldest queued job.
LEMMA BeginKeeps ==
  ASSUME IInv, Begin
  PROVE  IInv'
<1>1. PICK j \in JobId :
        /\ status[j] = "queued" /\ \A k \in 1 .. j - 1 : status[k] # "queued"
        /\ cur' = j /\ status' = [status EXCEPT ![j] = "running"]
        /\ pc' = IF ExecutorRoute(j) THEN "reconcile" ELSE "base"
  BY DEF Begin, Oldest
<1>2. /\ pc = "idle" /\ seen' = [low |-> pruned, top |-> Len(kind), at |-> version]
      /\ UNCHANGED <<kind, pruned, version, acked, carries, spec, results, sidecar, gens, pending>>
      /\ native' = native
  BY DEF Begin, diskVars, countVars
<1>3. /\ Types /\ Rows /\ CarriesFamilies /\ status \in [JobId -> Status]
      /\ Len(kind) \in Nat /\ pruned \in Nat /\ version \in Nat /\ acked \in Nat
  <2>1. Types /\ Rows /\ CarriesFamilies /\ status \in [JobId -> Status] /\ pruned \in Nat
    BY DEF IInv, Types
  <2> QED BY <2>1, Numbers
<1>4. /\ status'[j] = "running" /\ \A k \in JobId : k # j => status'[k] = status[k]
      /\ status' \in [JobId -> Status]
  BY <1>1, <1>3 DEF Status
<1>5. pc' \in {"reconcile", "base"} /\ pc' \in Active
  BY <1>1 DEF Active
<1>6. Types'
  <2>1. seen' \in [low : Nat, top : Nat, at : Nat]
    BY <1>2, <1>3
  <2> QED BY <1>1, <1>2, <1>3, <1>4, <1>5, <2>1 DEF Types
<1>7. Rows' /\ CarriesFamilies' /\ Used' = Used
  <2>1. \A k \in JobId : status'[k] = "absent" <=> status[k] = "absent"
    BY <1>1, <1>4
  <2>2. acked' \in Nat /\ acked <= acked'
    BY <1>2, <1>3
  <2> QED BY <1>2, <1>3, <2>1, <2>2, RowsKept
<1>8. /\ \A k \in JobId : status[k] # "running"
      /\ \A k \in JobId : status[k] = "complete" => k < j
      /\ \A k \in JobId : status'[k] = "queued" => status[k] = "queued" /\ j < k
  <2>1. \A k \in JobId : status[k] # "running"
    BY <1>2 DEF IInv, Order
  <2>2. \A k \in JobId : status[k] = "complete" => k < j
    BY <1>1 DEF IInv, Order, Live
  <2>3. \A k \in JobId : status'[k] = "queued" => status[k] = "queued" /\ k # j
    BY <1>4
  <2>4. \A k \in JobId : status[k] = "queued" /\ k # j => j < k
    BY <1>1 DEF JobId
  <2> QED BY <2>1, <2>2, <2>3, <2>4
<1>9. Order'
  <2>1. \A k \in JobId : status'[k] = "complete" => status[k] = "complete"
    BY <1>4
  <2>2. \A k \in JobId : status'[k] = "running" => k = j
    BY <1>4, <1>8
  <2>3. \A i, k \in JobId : status'[i] = "complete" /\ status'[k] \in Live => i < k
    <3> SUFFICES ASSUME NEW i \in JobId, NEW k \in JobId, status'[i] = "complete", status'[k] \in Live
                 PROVE  i < k
      OBVIOUS
    <3>1. CASE k = j
      BY <1>8, <2>1, <3>1
    <3>2. CASE k # j
      BY <1>4, <2>1, <3>2 DEF IInv, Order
    <3> QED BY <3>1, <3>2
  <2>4. pc' # "idle"
    BY <1>5
  <2> QED BY <1>1, <1>8, <2>2, <2>3, <2>4 DEF Order
<1>10. Runner'
  <2>1. j \in Used /\ spec[j].mark <= Len(kind)
    BY <1>1, <1>3 DEF Used, Rows
  <2>2. pc' = "base" => Plain(kind, Len(kind))
    BY <1>1, <1>3 DEF ExecutorRoute, CarriesFamilies
  <2>3. seen'.top = Len(kind)
    BY <1>2
  <2>4. \A k \in JobId : status'[k] = "complete" => k < j
    BY <1>4, <1>8
  <2> QED BY <1>1, <1>2, <1>3, <1>4, <1>8, <2>1, <2>2, <2>3, <2>4 DEF Runner, Job
<1>11. Snapshots'
  <2>1. \A k \in JobId : status'[k] = "complete" <=> status[k] = "complete"
    BY <1>1, <1>4
  <2>2. \A k \in Used : Current(k)' => Current(k)
    BY <1>2, <1>5 DEF Current
  <2> QED BY <1>2, <1>7, <2>1, <2>2, DiskKept DEF IInv
<1>12. Sidecar' /\ Outcome'
  BY <1>2, <1>5, <1>7 DEF IInv, Sidecar, Outcome
<1>13. Shelf' /\ Published'
  <2>1. \A k \in JobId : status'[k] = "complete" => k \in Used /\ Reached(spec[k].mark)
    BY <1>1, <1>4 DEF IInv, Shelf, Used
  <2>2. pc' # "finish"
    BY <1>5
  <2> QED BY <1>2, <1>3, <1>7, <2>1, <2>2, ServedKept DEF IInv
<1> QED BY <1>6, <1>7, <1>9, <1>10, <1>11, <1>12, <1>13 DEF IInv

\* The tree-only solve, and the dropped snapshot.
LEMMA SolveKeeps ==
  ASSUME IInv, BaseSolve \/ DropPending
  PROVE  IInv'
<1>1. /\ UNCHANGED <<kind, pruned, version, acked, carries, status, spec, results, native>>
      /\ UNCHANGED <<sidecar, gens, cur, seen, meta>>
      /\ pending' = pending \/ pending' = Nothing
      /\ pc \in Active /\ pc' \in Active \ {"base", "finish"} /\ pc' \in {"publish", "build"}
  BY DEF BaseSolve, DropPending, storeVars, diskVars, countVars, Active
<1>2. /\ Rows' /\ CarriesFamilies' /\ Used' = Used /\ Order' /\ Runner' /\ Shelf' /\ Published'
      /\ MaxOf(Served)' = MaxOf(Served)
  BY <1>1, StoreKept
<1>3. Types'
  BY <1>1 DEF IInv, Types
<1>4. Snapshots'
  <2>1. \A k \in Used : Current(k)' => Current(k)
    BY <1>1 DEF Current
  <2> QED BY <1>1, <1>2, <2>1, DiskKept DEF IInv
<1>5. Sidecar'
  BY <1>1 DEF IInv, Sidecar
<1>6. pc' = "publish" /\ version = Job.target =>
        Shown(kind, spec, built'.scene, built'.own, Job.mark, cur)
  <2> SUFFICES ASSUME pc' = "publish", version = Job.target
               PROVE  Shown(kind, spec, built'.scene, built'.own, Job.mark, cur)
    OBVIOUS
  <2>1. BaseSolve /\ pc = "base"
    BY DEF DropPending, BaseSolve
  <2>2. PICK window \in SUBSET Place :
          /\ {s \in TreeList : s > Job.base} \subseteq window
          /\ built' = Build(Compose(TreeList, window), Own(window))
    BY <2>1 DEF BaseSolve
  <2>3. built'.scene = Compose(TreeList, window) /\ built'.own = Own(window)
    BY <2>2 DEF Build
  <2>4. Shown(kind, spec, Compose(TreeList, window), Own(window), Job.mark, cur)
    BY <2>1, <2>2, BaseIsShown DEF IInv
  <2> QED BY <2>3, <2>4
<1>7. Outcome'
  <2>1. Job' = Job /\ pc' # "reserve"
    BY <1>1 DEF Job
  <2> QED BY <1>1, <1>6, <2>1 DEF Outcome
<1> QED BY <1>2, <1>3, <1>4, <1>5, <1>7 DEF IInv

\* The promotion: the snapshot of a completed job becomes a generation, the
\* sidecar names it, and the others are collected.
LEMMA PromoteKeeps ==
  ASSUME IInv, PromoteRename \/ PromoteFlip \/ PromoteCollect
  PROVE  IInv'
<1>1. /\ UNCHANGED <<kind, pruned, version, acked, carries, status, spec, results, native>>
      /\ UNCHANGED <<cur, seen, built>>
      /\ pc \in Active /\ pc' \in Active \ {"base", "finish"} /\ pc' \in {"flip", "collect", "build"}
  BY DEF PromoteRename, PromoteFlip, PromoteCollect, storeVars, countVars, Active
<1>2. /\ Rows' /\ CarriesFamilies' /\ Used' = Used /\ Order' /\ Runner' /\ Shelf' /\ Published'
      /\ MaxOf(Served)' = MaxOf(Served)
  BY <1>1, StoreKept
<1>3. Outcome'
  BY <1>1, <1>2 DEF IInv, Outcome
<1>4. \A k \in Used : Current(k)' => Current(k)
  BY <1>1 DEF Current
<1>5. Types /\ gens = [j \in JobId |-> gens[j]] /\ Sidecar
  BY DEF IInv, Types
<1>6. CASE PromoteRename
  <2> DEFINE p == pending.job
  <2>1. /\ p \in JobId /\ status[p] = "complete" /\ pending.covered = spec[p].mark
        /\ Kept(pending.snap, p)
        /\ Faithful(kind, Len(kind), spec, pending.snap.scene, pending.snap.owed, spec[p].mark, p)
    BY <1>6 DEF IInv, Snapshots, PromoteRename, Adoptable, Used
  <2>2. /\ gens' = [gens EXCEPT ![p] = pending.snap] /\ meta' = pending
        /\ pending' = Nothing /\ pc' = "flip" /\ sidecar' = sidecar
    BY <1>6 DEF PromoteRename
  <2> HIDE DEF p
  <2>3. /\ gens'[p] = pending.snap /\ gens' = [j \in JobId |-> gens'[j]]
        /\ \A j \in JobId : j # p => gens'[j] = gens[j]
    BY <1>5, <2>1, <2>2
  <2>4. Types'
    BY <1>1, <2>2, <2>3 DEF IInv, Types
  <2>5. Snapshots'
    <3>1. ASSUME NEW j \in JobId, gens'[j].is
          PROVE  /\ status'[j] = "complete" /\ Kept(gens[j], j)'
                 /\ Faithful(kind', Len(kind'), spec', gens'[j].scene, gens'[j].owed, spec'[j].mark, j)
      <4>1. CASE j = p
        BY <1>1, <2>1, <2>3, <4>1 DEF Kept
      <4>2. CASE j # p
        <5>1. gens'[j] = gens[j]
          BY <2>3, <4>2
        <5>2. /\ status[j] = "complete" /\ Kept(gens[j], j)
              /\ Faithful(kind, Len(kind), spec, gens[j].scene, gens[j].owed, spec[j].mark, j)
          BY <3>1, <5>1 DEF IInv, Snapshots
        <5> QED BY <1>1, <5>1, <5>2 DEF Kept
      <4> QED BY <4>1, <4>2
    <3>2. ~pending'.is
      BY <2>2 DEF Nothing
    <3> QED BY <3>1, <3>2 DEF Snapshots
  <2>6. Sidecar'
    <3>1. sidecar.gen # None => gens'[sidecar.gen].is /\ sidecar.covered = spec[sidecar.gen].mark
      BY <1>5, <2>1, <2>3 DEF Sidecar, Kept
    <3>2. meta'.job = p /\ gens'[p].is /\ meta'.covered = spec[p].mark
      BY <2>1, <2>2, <2>3 DEF Kept, p
    <3> QED BY <1>1, <1>5, <2>1, <2>2, <3>1, <3>2 DEF Sidecar
  <2> QED BY <1>2, <1>3, <2>4, <2>5, <2>6 DEF IInv
<1>7. CASE PromoteFlip
  <2>1. /\ sidecar' = [covered |-> meta.covered, gen |-> meta.job] /\ pc = "flip" /\ pc' = "collect"
        /\ UNCHANGED <<gens, pending, meta>>
    BY <1>7 DEF PromoteFlip
  <2>2. meta.job \in JobId /\ gens[meta.job].is /\ meta.covered = spec[meta.job].mark
    BY <1>5, <2>1 DEF Sidecar
  <2>3. sidecar'.gen = meta.job /\ sidecar'.covered = meta.covered
    BY <2>1
  <2>4. Types'
    BY <1>1, <2>1 DEF IInv, Types
  <2>5. Snapshots'
    BY <1>1, <1>2, <1>4, <2>1, DiskKept DEF IInv
  <2>6. meta.job # None
    BY <2>2 DEF JobId, None
  <2>7. Sidecar'
    BY <1>1, <2>1, <2>2, <2>3, <2>6 DEF Sidecar
  <2> QED BY <1>2, <1>3, <2>4, <2>5, <2>7 DEF IInv
<1>8. CASE PromoteCollect
  <2>1. /\ gens' = [j \in JobId |-> IF j = meta.job THEN gens[j] ELSE Nothing]
        /\ pc = "collect" /\ pc' = "build" /\ UNCHANGED <<sidecar, pending>>
    BY <1>8 DEF PromoteCollect
  <2>2. /\ gens' = [j \in JobId |-> gens'[j]]
        /\ \A j \in JobId : gens'[j].is => gens'[j] = gens[j] /\ gens[j].is
        /\ \A j \in JobId : j = meta.job => gens'[j] = gens[j]
    BY <2>1 DEF Nothing
  <2>3. Types'
    BY <1>1, <2>1, <2>2 DEF IInv, Types
  <2>4. Snapshots'
    <3>1. ASSUME NEW j \in JobId, gens'[j].is
          PROVE  /\ status'[j] = "complete" /\ Kept(gens[j], j)'
                 /\ Faithful(kind', Len(kind'), spec', gens'[j].scene, gens'[j].owed, spec'[j].mark, j)
      <4>1. gens'[j] = gens[j] /\ gens[j].is
        BY <2>2, <3>1
      <4>2. /\ status[j] = "complete" /\ Kept(gens[j], j)
            /\ Faithful(kind, Len(kind), spec, gens[j].scene, gens[j].owed, spec[j].mark, j)
        BY <4>1 DEF IInv, Snapshots
      <4> QED BY <1>1, <4>1, <4>2 DEF Kept
    <3>2. ASSUME pending'.is
          PROVE  /\ pending'.job \in Used' /\ pending'.covered = spec'[pending'.job].mark
                 /\ Kept(pending.snap, pending.job)'
                 /\ status'[pending'.job] = "complete" \/ Current(pending.job)' =>
                      Faithful(kind', Len(kind'), spec', pending'.snap.scene,
                               pending'.snap.owed, pending'.covered, pending'.job)
      <4> DEFINE j == pending.job
      <4>1. /\ j \in Used /\ pending.covered = spec[j].mark /\ Kept(pending.snap, j)
            /\ status[j] = "complete" \/ Current(j) =>
                 Faithful(kind, Len(kind), spec, pending.snap.scene, pending.snap.owed,
                          pending.covered, j)
        BY <2>1, <3>2 DEF IInv, Snapshots
      <4>2. Current(pending.job)' => Current(j)
        BY <1>1, <2>1 DEF Current
      <4> QED BY <1>1, <1>2, <2>1, <4>1, <4>2 DEF Kept
    <3> QED BY <3>1, <3>2 DEF Snapshots
  <2>5. Sidecar'
    <3>1. sidecar.gen = meta.job /\ meta.job \in JobId /\ gens[meta.job].is
          /\ meta.covered = spec[meta.job].mark
      BY <1>5, <2>1 DEF Sidecar
    <3>2. gens'[sidecar.gen] = gens[sidecar.gen]
      BY <2>2, <3>1
    <3> QED BY <1>1, <1>5, <2>1, <3>1, <3>2 DEF Sidecar
  <2> QED BY <1>2, <1>3, <2>3, <2>4, <2>5 DEF IInv
<1> QED BY <1>6, <1>7, <1>8

\* The snapshot of a batch that was executed, or that changed nothing, is staged.
LEMMA StageKeeps ==
  ASSUME IInv, pc = "build", pc' \in {"publish", "reserve"},
         UNCHANGED <<kind, pruned, version, acked, carries, status, spec, results, native>>,
         UNCHANGED <<sidecar, gens, cur, seen, meta>>,
         NEW scene, NEW owed, Stage(scene, owed),
         (version = Job.target \/ (pc' = "reserve" /\ MaxOf(Served) = Job.target)) =>
           Faithful(kind, Len(kind), spec, scene, owed, Job.mark, cur),
         Outcome'
  PROVE  IInv'
<1>1. pc \in Active /\ pc' \in Active \ {"base", "finish"}
  BY DEF Active
<1>2. /\ Rows' /\ CarriesFamilies' /\ Used' = Used /\ Order' /\ Runner' /\ Shelf' /\ Published'
      /\ MaxOf(Served)' = MaxOf(Served)
  BY <1>1, StoreKept
<1>3. Types'
  BY <1>1 DEF IInv, Types
<1>4. cur \in JobId /\ status[cur] # "complete" /\ cur \in Used
  BY <1>1 DEF IInv, Runner, Used
<1>5. /\ pending'.is /\ pending'.job = cur /\ pending'.covered = Job.mark
      /\ pending'.snap.is /\ pending'.snap.lane = Job.lane
      /\ pending'.snap.scene = scene /\ pending'.snap.owed = owed
  BY DEF Stage
<1>6. Snapshots'
  <2>1. ASSUME NEW j \in JobId, gens'[j].is
        PROVE  /\ status'[j] = "complete" /\ Kept(gens[j], j)'
               /\ Faithful(kind', Len(kind'), spec', gens'[j].scene, gens'[j].owed, spec'[j].mark, j)
    <3>1. /\ status[j] = "complete" /\ Kept(gens[j], j)
          /\ Faithful(kind, Len(kind), spec, gens[j].scene, gens[j].owed, spec[j].mark, j)
      BY <2>1 DEF IInv, Snapshots
    <3> QED BY <3>1 DEF Kept
  <2>2. pending'.job \in Used' /\ pending'.covered = spec'[pending'.job].mark
    BY <1>2, <1>4, <1>5 DEF Job
  <2>3. Kept(pending.snap, pending.job)'
    BY <1>5 DEF Kept, Job
  <2>4. Current(pending.job)' =>
          version = Job.target \/ (pc' = "reserve" /\ MaxOf(Served) = Job.target)
    BY <1>1, <1>2, <1>5 DEF Current, Job
  <2>5. status'[pending'.job] # "complete"
    BY <1>4, <1>5
  <2>6. Current(pending.job)' =>
          Faithful(kind', Len(kind'), spec', pending'.snap.scene, pending'.snap.owed,
                   pending'.covered, pending'.job)
    BY <1>5, <2>4
  <2> QED BY <2>1, <2>2, <2>3, <2>5, <2>6 DEF Snapshots
<1>7. Sidecar'
  BY <1>1 DEF IInv, Sidecar
<1> QED BY <1>2, <1>3, <1>6, <1>7 DEF IInv

\* The batch is executed.
LEMMA ExecuteKeeps ==
  ASSUME IInv, ExecuteAndStage
  PROVE  IInv'
<1> DEFINE w == Window
           scene == Apply(w.base, Replay(w))
<1>1. /\ UNCHANGED <<kind, pruned, version, acked, carries, status, spec, results, native>>
      /\ UNCHANGED <<sidecar, gens, cur, seen, meta>>
      /\ pc = "build" /\ pc' = "publish"
  BY DEF ExecuteAndStage, storeVars, countVars
<1>2. LedgerComplete(w.floor) /\ Stage(scene, {})
  BY DEF ExecuteAndStage
<1>3. PICK window \in SUBSET Place :
        /\ Written(Replay(w)) \cup w.owed \subseteq window
        /\ built' = Build(Compose(scene, window), Own(window))
  BY DEF ExecuteAndStage
<1>4. built'.scene = Compose(scene, window) /\ built'.own = Own(window)
  BY <1>3 DEF Build
<1>5. w = Window
  OBVIOUS
<1> HIDE DEF w
<1>6. version = Job.target =>
        /\ Faithful(kind, Len(kind), spec, scene, {}, Job.mark, cur)
        /\ Shown(kind, spec, built'.scene, built'.own, Job.mark, cur)
  <2> SUFFICES ASSUME version = Job.target
               PROVE  /\ Faithful(kind, Len(kind), spec, scene, {}, Job.mark, cur)
                      /\ Shown(kind, spec, built'.scene, built'.own, Job.mark, cur)
    OBVIOUS
  <2>1. Job.mark = Len(kind) /\ seen.top = Len(kind) /\ Len(kind) \in Nat
    BY <1>1, JobIsCurrent DEF IInv, Active
  <2>2. \A r \in Job.mark + 1 .. seen.top : kind[r] # "reset"
    BY <2>1
  <2>3. Faithful(kind, Len(kind), spec, scene, w.owed, Job.mark, cur)
    BY <1>1, <1>2, <1>5, <2>2, StagedIsFaithful DEF IInv
  <2>4. Faithful(kind, Len(kind), spec, scene, {}, Job.mark, cur)
    <3>1. \A p \in 1 .. Len(kind) : ~(p > Job.mark)
      BY <2>1
    <3> HIDE DEF scene
    <3> QED BY <2>3, <3>1 DEF Faithful
  <2>5. Shown(kind, spec, Compose(scene, window), Own(window), Job.mark, cur)
    BY <1>1, <1>2, <1>3, <1>5, ExecutedIsShown DEF IInv
  <2> QED BY <1>4, <2>4, <2>5
<1>7. Outcome'
  <2>1. Job' = Job
    BY <1>1 DEF Job
  <2> QED BY <1>1, <1>6, <2>1 DEF Outcome
<1> HIDE DEF scene
<1> QED BY <1>1, <1>2, <1>6, <1>7, StageKeeps

\* The batch changed nothing.
LEMMA NoopKeeps ==
  ASSUME IInv, ExecuteNoop
  PROVE  IInv'
<1> DEFINE w == Window
<1>1. /\ UNCHANGED <<kind, pruned, version, acked, carries, status, spec, results, native>>
      /\ UNCHANGED <<sidecar, gens, cur, seen, meta>>
      /\ pc = "build" /\ pc' = "reserve" /\ pc \in Active /\ pc' \in Active \ {"base", "finish"}
  BY DEF ExecuteNoop, storeVars, countVars, Active
<1>2. /\ LedgerComplete(w.floor) /\ NoOp(w) /\ Stage(w.base, w.owed)
      /\ built' = [is |-> TRUE, over |-> w.over, owed |-> w.owed]
  BY DEF ExecuteNoop
<1>3. w = Window
  OBVIOUS
<1> HIDE DEF w
<1>4. built'.over = w.over /\ built'.owed = w.owed
  BY <1>2
<1>5. Apply(w.base, Replay(w)) = w.base
  BY <1>2 DEF NoOp
<1>6. /\ cur \in Used /\ Job.mark <= seen.top /\ seen.top \in 0 .. Len(kind) /\ Len(kind) \in Nat
      /\ Job.mark \in Nat /\ (version = Job.target => Job.mark = Len(kind) /\ seen.top = Len(kind))
  BY <1>1, JobIsCurrent DEF IInv
<1>7. version = Job.target \/ MaxOf(Served) = Job.target =>
        \A r \in Job.mark + 1 .. seen.top : kind[r] # "reset"
  <2>1. CASE version = Job.target
    BY <1>6, <2>1
  <2>2. CASE version # Job.target /\ MaxOf(Served) = Job.target
    <3> SUFFICES ASSUME NEW r \in Job.mark + 1 .. seen.top, kind[r] = "reset" PROVE FALSE
      BY <2>2
    <3>1. r \in 1 .. Len(kind)
      BY <1>6
    <3>2. Served # {} /\ r <= Latest.mark
      BY <3>1, NoResetSince DEF IInv
    <3>3. MaxOf(Served) \in Served /\ Latest = results[MaxOf(Served)]
      BY <3>2, LatestFacts DEF IInv
    <3>4. Latest.mark = Job.mark
      BY <1>6, <2>2, <3>3 DEF IInv, Shelf, Job
    <3> QED BY <1>6, <3>2, <3>4
  <2> QED BY <2>1, <2>2
<1>8. version = Job.target \/ MaxOf(Served) = Job.target =>
        Faithful(kind, Len(kind), spec, w.base, w.owed, Job.mark, cur)
  BY <1>1, <1>2, <1>3, <1>5, <1>7, StagedIsFaithful DEF IInv
<1>9. Outcome'
  <2>1. Job' = Job /\ Served' = Served /\ Latest' = Latest
    BY <1>1, StoreKept DEF Job
  <2> SUFFICES ASSUME version = Job.target, Served # {}
               PROVE  Shown(kind, spec, Latest.scene, ReservesOwn', Job.mark, cur)
    BY <1>1, <2>1 DEF Outcome
  <2>2. ReservesOwn' <=> Latest.own /\ w.over = Latest.job /\ w.owed = {}
    BY <1>4, <2>1 DEF ReservesOwn
  <2> DEFINE own == ReservesOwn'
  <2>3. own <=> Latest.own /\ w.over = Latest.job /\ w.owed = {}
    BY <2>2
  <2> HIDE DEF own
  <2>4. Shown(kind, spec, Latest.scene, own, Job.mark, cur)
    BY <1>1, <1>2, <1>3, <2>3, NoopIsShown DEF IInv
  <2> QED BY <2>4 DEF own
<1> QED BY <1>1, <1>2, <1>8, <1>9, StageKeeps

\* The runner serves the job's version, which has a result already or gets one.
LEMMA ServeKeeps ==
  ASSUME IInv, pc \in {"publish", "reserve"}, pc' = "finish",
         UNCHANGED <<kind, pruned, version, carries, status, spec, diskVars, cur, seen,
                     meta, built, native>>,
         acked' \in {acked, Job.mark}, acked <= acked',
         version = Job.target \/ (pc = "reserve" /\ MaxOf(Served) = Job.target),
         NEW res,
         \/ results' = results /\ Job.target \in Served
         \/ /\ results' = [results EXCEPT ![version] = res]
            /\ version = Job.target /\ version \notin Served
            /\ res.is = TRUE /\ res.job = cur /\ res.mark = Job.mark
            /\ Shown(kind, spec, res.scene, res.own, Job.mark, cur)
  PROVE  IInv'
<1>1. /\ Types /\ Rows /\ CarriesFamilies /\ pc \in Active /\ UNCHANGED <<sidecar, gens, pending>>
  BY DEF IInv, diskVars, Active
<1>2. /\ cur \in Used /\ cur \in JobId /\ Job.mark \in Nat /\ Len(kind) \in Nat
      /\ Job.mark <= Len(kind) /\ (version = Job.target => Job.mark = Len(kind))
      /\ version \in Nat /\ acked \in 0 .. Len(kind) /\ version \in Versions
  <2>1. /\ cur \in Used /\ cur \in JobId /\ Job.mark \in Nat /\ Len(kind) \in Nat
        /\ Job.mark <= seen.top /\ seen.top \in 0 .. Len(kind)
        /\ version = Job.target => Job.mark = Len(kind)
    BY <1>1, JobIsCurrent DEF IInv
  <2>2. version \in Nat /\ version \in Versions /\ acked \in 0 .. Len(kind)
    BY <1>1, Numbers DEF Types
  <2> HIDE DEF Job
  <2> QED BY <2>1, <2>2
<1>3. acked' \in 0 .. Len(kind)
  BY <1>2
<1>4. Rows' /\ CarriesFamilies' /\ Used' = Used
  BY <1>1, <1>3, RowsKept
<1>5. /\ Job' = Job /\ pc' \in Active /\ pc' \notin {"idle", "down", "base"}
      /\ pc \notin {"idle", "down"}
  BY DEF Job, Active
<1>6. Order' /\ Runner'
  BY <1>5 DEF IInv, Order, Runner, Active
<1>7. Snapshots'
  <2>1. \A j \in Used : Current(j)' => Current(j)
    <3> SUFFICES ASSUME NEW j \in Used, Current(j)' PROVE Current(j)
      OBVIOUS
    <3>1. version = spec[j].target \/ cur = j
      BY DEF Current
    <3> QED BY <3>1 DEF Current, Job
  <2> QED BY <1>1, <1>4, <2>1, DiskKept DEF IInv
<1>8. Sidecar' /\ Outcome'
  BY <1>1, <1>4 DEF IInv, Sidecar, Outcome
<1> DEFINE Now(m) == m = 0 \/ \E v \in Served' : results'[v].mark >= m
<1>9. /\ results' = [v \in Versions |-> results'[v]] /\ Served \subseteq Served'
      /\ \A v \in Served : results'[v] = results[v] /\ v \in Nat /\ v <= version
      /\ \A v \in Served' : v \in Served \/ (v = version /\ v \notin Served)
      /\ \A v \in Served' : v \notin Served =>
           /\ v = version /\ version = Job.target
           /\ results'[v].job = cur /\ results'[v].mark = Job.mark
           /\ Shown(kind, spec, results'[v].scene, results'[v].own, Job.mark, cur)
      /\ Now(Job.mark)
  <2>1. results = [v \in Versions |-> results[v]] /\ DOMAIN results = Versions
    BY <1>1 DEF Types
  <2>2. \A v \in Served : v \in Versions /\ v \in Nat /\ v <= version
    BY <2>1 DEF Served, Versions, IInv, Shelf
  <2>3. CASE results' = results /\ Job.target \in Served
    <3>1. Served' = Served
      BY <2>3 DEF Served
    <3>2. results[Job.target].mark = Job.mark
      BY <1>2, <2>3 DEF IInv, Shelf, Job
    <3>3. Job.mark >= Job.mark
      BY <1>2
    <3>4. Now(Job.mark)
      BY <2>3, <3>1, <3>2, <3>3
    <3> QED BY <2>1, <2>2, <2>3, <3>1, <3>4
  <2>4. CASE /\ results' = [results EXCEPT ![version] = res]
             /\ version = Job.target /\ version \notin Served
             /\ res.is = TRUE /\ res.job = cur /\ res.mark = Job.mark
             /\ Shown(kind, spec, res.scene, res.own, Job.mark, cur)
    <3>1. /\ results' = [v \in Versions |-> results'[v]] /\ results'[version] = res
          /\ \A v \in Versions : v # version => results'[v] = results[v]
          /\ DOMAIN results' = Versions
      BY <1>2, <2>1, <2>4
    <3>2. \A v \in Served : results'[v] = results[v]
      BY <2>2, <2>4, <3>1
    <3>3. \A v \in Served' : v \in Versions /\ results'[v].is
      BY <3>1 DEF Served
    <3>4. \A v \in Served' : v \in Served \/ v = version
      BY <2>1, <3>1, <3>3 DEF Served
    <3>5. Served \subseteq Served' /\ version \in Served'
      BY <1>2, <2>2, <2>4, <3>1, <3>2 DEF Served
    <3>6. Job.mark >= Job.mark
      BY <1>2
    <3>7. Now(Job.mark)
      BY <2>4, <3>1, <3>5, <3>6
    <3> QED BY <2>2, <2>4, <3>1, <3>2, <3>4, <3>5, <3>7
  <2> QED BY <2>3, <2>4
<1>10. \A m : Reached(m) => Now(m)
  BY <1>9 DEF Reached
<1>11. Types'
  <2>1. UNCHANGED <<sidecar, gens>>
    BY <1>1
  <2> QED BY <1>1, <1>3, <1>5, <1>9, <2>1 DEF Types
<1>12. Published'
  <2> SUFFICES ASSUME NEW v \in Served'
               PROVE  Shown(kind, spec, results'[v].scene, results'[v].own, results'[v].mark,
                            results'[v].job)
    BY DEF Published
  <2>1. CASE v \in Served
    BY <1>9, <2>1 DEF IInv, Published
  <2>2. CASE v \notin Served
    BY <1>9, <2>2
  <2> QED BY <2>1, <2>2
<1> HIDE DEF Now
<1>13. Shelf'
  <2>1. ASSUME NEW v \in Served'
        PROVE  /\ v <= version /\ results'[v].mark \in 0 .. Len(kind)
               /\ results'[v].job \in Used \cup {None}
               /\ results'[v].job = None => results'[v].scene = {}
               /\ results'[v].job # None => spec[results'[v].job].target = v
               /\ \A j \in Used : spec[j].target = v => results'[v].mark = spec[j].mark
               /\ \A u \in Served' : u < v => results'[u].mark <= results'[v].mark
    <3>1. CASE v \in Served
      <4>1. /\ v <= version /\ results[v].mark \in 0 .. Len(kind)
            /\ results[v].job \in Used \cup {None}
            /\ results[v].job = None => results[v].scene = {}
            /\ results[v].job # None => spec[results[v].job].target = v
            /\ \A j \in Used : spec[j].target = v => results[v].mark = spec[j].mark
            /\ \A u \in Served : u < v => results[u].mark <= results[v].mark
        BY <3>1 DEF IInv, Shelf
      <4>2. results'[v] = results[v] /\ v \in Nat
        BY <1>9, <3>1
      <4>3. \A u \in Served' : u < v => u \in Served /\ results'[u] = results[u]
        BY <1>2, <1>9, <4>1, <4>2
      <4> QED BY <4>1, <4>2, <4>3
    <3>2. CASE v \notin Served
      <4>1. /\ v = version /\ version = Job.target /\ results'[v].job = cur
            /\ results'[v].mark = Job.mark
        BY <1>9, <3>2
      <4>2. Job.mark = Len(kind) /\ cur # None /\ spec[cur].target = v
        BY <1>2, <4>1 DEF Job, JobId, None
      <4>3. \A j \in Used : spec[j].target = v => Job.mark = spec[j].mark
        BY <1>1, <4>1, <4>2 DEF Rows
      <4>4. \A u \in Served' : u < v => results'[u].mark <= Len(kind)
        <5> SUFFICES ASSUME NEW u \in Served', u < v PROVE results'[u].mark <= Len(kind)
          OBVIOUS
        <5>1. u \in Served
          BY <1>2, <1>9, <4>1
        <5>2. results[u].mark \in 0 .. Len(kind) /\ results'[u] = results[u]
          BY <1>9, <5>1 DEF IInv, Shelf
        <5> QED BY <1>2, <5>2
      <4>5. /\ results'[v].mark \in 0 .. Len(kind) /\ results'[v].job \in Used \cup {None}
            /\ results'[v].job # None /\ v <= version
        BY <1>2, <4>1, <4>2
      <4>6. \A j \in Used : spec[j].target = v => results'[v].mark = spec[j].mark
        BY <4>1, <4>3
      <4>7. \A u \in Served' : u < v => results'[u].mark <= results'[v].mark
        BY <4>1, <4>2, <4>4
      <4> QED BY <4>1, <4>2, <4>5, <4>6, <4>7
    <3> QED BY <3>1, <3>2
  <2>2. \A r \in 1 .. Len(kind) : kind[r] = "reset" => Now(r)
    BY <1>10 DEF IInv, Shelf
  <2>3. \A j \in JobId : status[j] = "complete" => Now(spec[j].mark)
    BY <1>10 DEF IInv, Shelf
  <2>4. Now(acked')
    BY <1>9, <1>10 DEF IInv, Shelf
  <2>5. Now(Job'.mark)
    BY <1>5, <1>9
  <2> QED BY <1>4, <2>1, <2>2, <2>3, <2>4, <2>5 DEF Shelf, Reached, Now
<1> QED BY <1>4, <1>6, <1>7, <1>8, <1>11, <1>12, <1>13 DEF IInv

\* The result is published and the ledger acknowledged.
LEMMA PublishKeeps ==
  ASSUME IInv, Publish
  PROVE  IInv'
<1> DEFINE res == Row(cur, Job.mark, built.scene, built.own)
<1>1. /\ pc = "publish" /\ pc' = "finish" /\ version = Job.target
      /\ UNCHANGED <<kind, pruned, version, carries, status, spec, diskVars, cur, seen,
                     meta, built, native>>
  BY DEF Publish, countVars
<1>2. /\ res.is = TRUE /\ res.job = cur /\ res.mark = Job.mark /\ res.scene = built.scene
      /\ res.own = built.own
  BY DEF Row
<1>3. \/ /\ ~results[version].is /\ results' = [results EXCEPT ![version] = res]
         /\ acked' = MaxOf({acked, Job.mark})
      \/ results[version].is /\ results' = results /\ acked' = acked
  BY DEF Publish
<1> HIDE DEF res
<1>4. Shown(kind, spec, res.scene, res.own, Job.mark, cur)
  BY <1>1, <1>2 DEF IInv, Outcome
<1>5. acked' \in {acked, Job.mark} /\ acked <= acked'
  <2> DEFINE m == Job.mark
             S == {acked, m}
  <2>1. m \in Nat /\ m <= Len(kind) /\ Len(kind) \in Nat /\ acked \in 0 .. Len(kind)
    <3>1. m \in Nat /\ Len(kind) \in Nat /\ m = Len(kind)
      BY <1>1, JobIsCurrent DEF IInv, Active
    <3> QED BY <3>1 DEF IInv, Types
  <2> HIDE DEF m
  <2>2. S \in SUBSET (0 .. Len(kind)) /\ (acked' = acked \/ acked' = MaxOf(S))
    BY <1>3, <2>1 DEF m
  <2> HIDE DEF S
  <2>3. MaxOf(S) \in S \cup {0} /\ \A x \in S : x <= MaxOf(S)
    BY <2>1, <2>2, MaxOfFacts
  <2> QED BY <2>1, <2>2, <2>3 DEF S, m
<1>6. \/ results' = results /\ Job.target \in Served
      \/ results' = [results EXCEPT ![version] = res] /\ version \notin Served
  <2>1. version \in DOMAIN results
    BY Numbers DEF IInv, Types
  <2> QED BY <1>1, <1>3, <2>1 DEF Served
<1> QED BY <1>1, <1>2, <1>4, <1>5, <1>6, ServeKeeps

\* The latest result is served again.
LEMMA ReserveKeeps ==
  ASSUME IInv, Reserve
  PROVE  IInv'
<1> DEFINE res == Row(cur, Job.mark, Latest.scene, ReservesOwn)
<1>1. /\ pc = "reserve" /\ pc' = "finish" /\ Served # {} /\ acked' = acked
      /\ \/ MaxOf(Served) = Job.target /\ results' = results
         \/ /\ MaxOf(Served) # Job.target /\ version = Job.target
            /\ results' = [results EXCEPT ![version] = res]
      /\ UNCHANGED <<kind, pruned, version, carries, status, spec, diskVars, cur, seen,
                     meta, built, native>>
  BY DEF Reserve, ReservesOwn, countVars
<1>2. /\ res.is = TRUE /\ res.job = cur /\ res.mark = Job.mark /\ res.scene = Latest.scene
      /\ res.own = ReservesOwn
  BY DEF Row
<1> HIDE DEF res
<1>3. version = Job.target => Shown(kind, spec, res.scene, res.own, Job.mark, cur)
  BY <1>1, <1>2 DEF IInv, Outcome
<1>4. acked' \in {acked, Job.mark} /\ acked <= acked'
  BY <1>1, Numbers DEF IInv
<1>5. MaxOf(Served) \in Served /\ \A v \in Served : v <= MaxOf(Served) /\ v <= version
  BY <1>1, LatestFacts DEF IInv, Shelf
<1>6. \/ results' = results /\ MaxOf(Served) = Job.target /\ Job.target \in Served
      \/ /\ results' = [results EXCEPT ![version] = res] /\ version = Job.target
         /\ version \notin Served
  <2>1. version \in Served => version = MaxOf(Served)
    <3>1. version \in Nat /\ MaxOf(Served) \in Nat
      <4>1. DOMAIN results = Versions
        BY DEF IInv, Types
      <4> QED BY <1>5, <4>1, Numbers DEF IInv, Served, Versions
    <3> QED BY <1>5, <3>1
  <2> QED BY <1>1, <1>5, <2>1
<1> QED BY <1>1, <1>2, <1>3, <1>4, <1>6, ServeKeeps

-----------------------------------------------------------------------------
(* The theorems.                                                           *)

LEMMA NextKeeps ==
  ASSUME IInv, [Next]_vars
  PROVE  IInv'
<1>1. CASE \E k \in {"tree", "on", "off"} : Commit(k)
  BY <1>1, CommitKeeps
<1>2. CASE Reset
  BY <1>2, ResetKeeps
<1>3. CASE \E l \in {"exact", "reconcile"}, span \in BOOLEAN : NativeCommit(l, span)
  BY <1>3, NativeKeeps
<1>4. CASE \E j \in JobId : Cancel(j)
  <2>1. PICK j \in JobId : Cancel(j)
    BY <1>4
  <2>2. /\ status[j] \in Live /\ status' = [status EXCEPT ![j] = "cancelled"] /\ native' = native
        /\ UNCHANGED <<kind, pruned, version, acked, carries, spec, results, diskVars, runnerVars>>
    BY <2>1 DEF Cancel
  <2> QED BY <2>2, DropJobKeeps
<1>5. CASE Skip
  <2>1. PICK j \in JobId : Oldest(j) /\ status' = [status EXCEPT ![j] = "superseded"]
    BY <1>5 DEF Skip
  <2>2. status[j] = "queued" /\ status[j] \in Live
    BY <2>1 DEF Oldest, Live
  <2>3. /\ UNCHANGED <<kind, pruned, version, acked, carries, spec, results, diskVars, runnerVars>>
        /\ native' = native
    BY <1>5 DEF Skip, countVars
  <2> QED BY <2>1, <2>2, <2>3, DropJobKeeps
<1>6. CASE Sweep \/ Crash \/ Restart
  BY <1>6, ProcessKeeps
<1>7. CASE Begin
  BY <1>7, BeginKeeps
<1>8. CASE BaseSolve \/ DropPending
  BY <1>8, SolveKeeps
<1>9. CASE PromoteRename \/ PromoteFlip \/ PromoteCollect
  BY <1>9, PromoteKeeps
<1>10. CASE Refuse \/ Tripped \/ PublishRefused \/ ReserveRefused \/ FinishJob
  <2>1. /\ pc \in Active /\ native' = native
        /\ UNCHANGED <<kind, pruned, version, acked, carries, spec, results, diskVars, meta>>
    BY <1>10 DEF Refuse, Tripped, PublishRefused, ReserveRefused, FinishJob, Active, countVars
  <2>2. PICK st \in {"superseded", "failed", "complete"} :
          Abandon(st) /\ (st = "complete" => pc = "finish")
    BY <1>10 DEF Refuse, Tripped, PublishRefused, ReserveRefused, FinishJob
  <2> QED BY <2>1, <2>2, AbandonKeeps
<1>11. CASE ExecuteAndStage
  BY <1>11, ExecuteKeeps
<1>12. CASE ExecuteNoop
  BY <1>12, NoopKeeps
<1>13. CASE Publish
  BY <1>13, PublishKeeps
<1>14. CASE Reserve
  BY <1>14, ReserveKeeps
<1>15. CASE UNCHANGED vars
  <2>1. /\ UNCHANGED <<kind, pruned, version, acked, carries, status, spec, results>>
        /\ UNCHANGED <<sidecar, gens, pending, pc, cur, seen, meta, built, native>>
    BY <1>15 DEF vars, storeVars, diskVars, runnerVars, countVars
  <2>2. Used' = Used /\ NextJob' = NextJob /\ Job' = Job
    BY <2>1 DEF Used, NextJob, Job
  <2>3. Types' /\ Rows' /\ Order' /\ Runner' /\ CarriesFamilies'
    BY <2>1, <2>2 DEF IInv, Types, Rows, Order, Runner, CarriesFamilies
  <2>4. Served' = Served /\ Latest' = Latest /\ MaxOf(Served)' = MaxOf(Served)
    BY <2>1 DEF Served, Latest, MaxOf
  <2>5. Shelf' /\ Published' /\ Outcome' /\ Sidecar'
    BY <2>1, <2>2, <2>4 DEF IInv, Shelf, Reached, Published, Outcome, ReservesOwn, Sidecar
  <2>6. Snapshots'
    <3>1. \A j \in Used : Current(j)' => Current(j)
      BY <2>1, <2>4 DEF Current
    <3> QED BY <2>1, <2>2, <3>1, DiskKept DEF IInv
  <2> QED BY <2>3, <2>5, <2>6 DEF IInv
<1> QED BY <1>1, <1>2, <1>3, <1>4, <1>5, <1>6, <1>7, <1>8, <1>9, <1>10, <1>11, <1>12, <1>13,
           <1>14, <1>15 DEF Next

THEOREM Invariance == Spec => []IInv
<1>1. Init => IInv
  BY InitInvariant
<1>2. IInv /\ [Next]_vars => IInv'
  BY NextKeeps
<1> QED BY <1>1, <1>2, PTL DEF Spec

\* What is served holds nothing that a reset dropped; unless a result was served
\* again that its job had not started from, it has every tree, and is exactly
\* the scene of its ledger position while one lane does the work.
THEOREM ServedSceneSound == Spec => []ServedSceneIsSound
<1>1. IInv => ServedSceneIsSound
  <2> SUFFICES ASSUME IInv, NEW v \in Served, NEW r, r = results[v]
               PROVE  /\ r.scene \ {Cell} \subseteq Trees(r.mark)
                      /\ Cell \in r.scene => \E s \in 1 .. r.mark :
                           kind[s] = "on" /\ \A i \in s .. r.mark : kind[i] # "reset"
                      /\ r.own => Trees(r.mark) \subseteq r.scene
                      /\ r.own /\ OneLane(r.job) => r.scene = Truth(r.mark)
    BY DEF ServedSceneIsSound
  <2>1. Shown(kind, spec, r.scene, r.own, r.mark, r.job)
    BY DEF IInv, Published
  <2>2. /\ Trees(r.mark) = TreesOf(kind, r.mark) /\ (Painted(r.mark) <=> PaintOf(kind, r.mark))
        /\ OneLane(r.job) <=> SameLane(spec, r.job)
    BY TreeListIs DEF Painted, PaintOf, OneLane, SameLane
  <2>3. Truth(r.mark) = TreesOf(kind, r.mark) \cup {c \in {Cell} : PaintOf(kind, r.mark)}
    BY <2>2 DEF Truth
  <2>4. r.own /\ OneLane(r.job) => r.scene = Truth(r.mark)
    <3> SUFFICES ASSUME r.own, OneLane(r.job) PROVE r.scene = Truth(r.mark)
      OBVIOUS
    <3>1. /\ r.scene \ {Cell} \subseteq TreesOf(kind, r.mark)
          /\ TreesOf(kind, r.mark) \subseteq r.scene
          /\ Cell \in r.scene <=> PaintOf(kind, r.mark)
      BY <2>1, <2>2 DEF Shown
    <3> QED BY <2>3, <3>1
  <2> QED BY <2>1, <2>2, <2>4 DEF Shown, OnceOn
<1> QED BY <1>1, Invariance, PTL

\* The generation the coverage sidecar names is there, belongs to a job that is
\* durably complete, and has every tree up to the coverage and no tree above it
\* but those its job still owes a solve.
THEOREM CoverageDurable == Spec => []CoverageIsDurable
<1>1. IInv => CoverageIsDurable
  <2> SUFFICES ASSUME IInv, sidecar.gen # None, NEW g, g = gens[sidecar.gen]
               PROVE  /\ status[sidecar.gen] = "complete"
                      /\ sidecar.covered = spec[sidecar.gen].mark
                      /\ g.is
                      /\ Trees(sidecar.covered) \subseteq g.scene
                      /\ g.scene \ (g.owed \cup {Cell}) \subseteq Trees(sidecar.covered)
    BY DEF CoverageIsDurable
  <2>1. /\ sidecar.gen \in JobId /\ g.is /\ sidecar.covered = spec[sidecar.gen].mark
    BY DEF IInv, Sidecar
  <2>2. /\ status[sidecar.gen] = "complete"
        /\ Faithful(kind, Len(kind), spec, g.scene, g.owed, sidecar.covered, sidecar.gen)
    BY <2>1 DEF IInv, Snapshots
  <2>3. Trees(sidecar.covered) = TreesOf(kind, sidecar.covered)
    BY TreeListIs
  <2>4. sidecar.covered \in Nat /\ Len(kind) \in Nat
    BY <2>1, Numbers DEF IInv, Types, Mint
  <2>5. \A p \in g.scene \ (g.owed \cup {Cell}) : p \in TreesOf(kind, sidecar.covered)
    <3> SUFFICES ASSUME NEW p \in g.scene \ (g.owed \cup {Cell})
                 PROVE  p \in TreesOf(kind, sidecar.covered)
      OBVIOUS
    <3>1. /\ p \in 1 .. Len(kind)
          /\ p <= sidecar.covered => p \in TreesOf(kind, sidecar.covered)
          /\ p > sidecar.covered => p \in g.owed
      BY <2>2 DEF Faithful
    <3> QED BY <2>4, <3>1
  <2> QED BY <2>1, <2>2, <2>3, <2>5 DEF Faithful
<1> QED BY <1>1, Invariance, PTL

==============================================================================
