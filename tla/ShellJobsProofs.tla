--------------------------- MODULE ShellJobsProofs --------------------------
(***************************************************************************)
(* Proofs about ShellJobs, for any number of processes, jobs, lines and    *)
(* keys: until something spoils it the table agrees with the kernel.       *)
(***************************************************************************)
EXTENDS ShellJobs, TLAPS, WellFoundedInduction, FiniteSetTheorems

-----------------------------------------------------------------------------
(* The table as a sequence. *)

States == {"RUNNING", "STOPPED"}
Entries == [pid : Pids, job_id : Nat, name : Names \cup {0}, state : States]
Unique(s) == \A k, l \in DOMAIN s : s[k].pid = s[l].pid => k = l

\* The least number of a set: an induction is a search for the least counterexample.
LEMMA LeastNumber ==
    ASSUME NEW T, T \subseteq Nat, T # {}
    PROVE  \E n \in T : \A m \in T : n <= m
<1>1. PICK n \in T : \A m \in T : <<m, n>> \notin OpToRel(<, Nat)
  BY WFMin, NatLessThanWellFounded, Zenon
<1>2. \A m \in T : ~(m < n)
  BY <1>1, Zenon DEF OpToRel
<1> QED BY <1>2

\* The recursion of Kept has a solution: the loop of check_jobs.
LEMMA KeptUnfold ==
    ASSUME NEW p, Len(jobs) \in Nat
    PROVE  Kept(p) = [n \in 0 .. Len(jobs) |->
                        IF n = 0 THEN <<>>
                        ELSE IF jobs[n].pid = p THEN Kept(p)[n - 1] ELSE Append(Kept(p)[n - 1], jobs[n])]
<1> DEFINE Loop(f, n) == IF jobs[n].pid = p THEN f[n - 1] ELSE Append(f[n - 1], jobs[n])
           Keeps(f, n) == f = [m \in 0 .. n |-> IF m = 0 THEN <<>> ELSE Loop(f, m)]
           Bad == {n \in Nat : ~ \E f : Keeps(f, n)}
<1>1. Bad = {}
  <2> SUFFICES ASSUME Bad # {} PROVE FALSE
    OBVIOUS
  <2>1. PICK n \in Nat : n \in Bad /\ \A m \in Bad : n <= m
    BY LeastNumber
  <2>2. CASE n = 0
    <3> DEFINE f == [m \in 0 .. 0 |-> <<>>]
    <3>1. Keeps(f, 0)
      OBVIOUS
    <3> QED BY <3>1, <2>1, <2>2
  <2>3. CASE n # 0
    <3>1. PICK f : Keeps(f, n - 1)
      <4> HIDE DEF Keeps
      <4>1. n - 1 \in Nat
        BY <2>3
      <4> HIDE DEF Bad
      <4>2. n - 1 \notin Bad
        BY <2>1, <4>1
      <4> QED BY <4>1, <4>2 DEF Bad
    <3> DEFINE g == [m \in 0 .. n |-> IF m = n THEN Loop(f, n) ELSE f[m]]
    <3>2. n \notin 0 .. n - 1 /\ n - 1 \in 0 .. n - 1 /\ n - 1 # n /\ n \in 0 .. n
          /\ 0 .. n = (0 .. n - 1) \cup {n}
          /\ \A m \in 0 .. n - 1 : m \in 0 .. n /\ m # n /\ (m # 0 => m - 1 \in 0 .. n /\ m - 1 # n)
      BY <2>3
    <3>3. g = [m \in 0 .. n |-> IF m = n THEN Loop(f, n) ELSE f[m]]
      OBVIOUS
    <3> HIDE DEF g
    <3>4. \A m \in 0 .. n - 1 : g[m] = f[m] /\ (m # 0 => g[m - 1] = f[m - 1])
      BY <3>2, <3>3
    <3>5. \A m \in 0 .. n - 1 : f[m] = IF m = 0 THEN <<>> ELSE Loop(f, m)
      BY <3>1
    <3>6. \A m \in 0 .. n - 1 : g[m] = IF m = 0 THEN <<>> ELSE Loop(g, m)
      BY <3>4, <3>5
    <3>7. g[n] = Loop(g, n)
      <4>1. g[n] = Loop(f, n) /\ g[n - 1] = f[n - 1]
        BY <3>2, <3>3
      <4> QED BY <4>1
    <3>8. Keeps(g, n)
      BY <2>3, <3>2, <3>3, <3>6, <3>7
    <3> HIDE DEF Keeps
    <3> QED BY <3>8, <2>1
  <2> QED BY <2>2, <2>3
<1>2. \E f : Keeps(f, Len(jobs))
  BY <1>1
<1>3. Kept(p) = CHOOSE f : Keeps(f, Len(jobs))
  BY DEF Kept
<1> HIDE DEF Keeps
<1>4. Keeps(Kept(p), Len(jobs))
  BY <1>2, <1>3
<1> QED BY <1>4 DEF Keeps

\* Taking a process out of the table leaves the other entries, once each.
LEMMA WithoutFacts ==
    ASSUME jobs \in Seq(Entries), NEW p
    PROVE  /\ Without(p) \in Seq(Entries) /\ Len(Without(p)) <= Len(jobs)
           /\ \A k \in DOMAIN Without(p) :
                Without(p)[k].pid # p /\ \E l \in DOMAIN jobs : Without(p)[k] = jobs[l]
           /\ \A l \in DOMAIN jobs : jobs[l].pid # p => \E k \in DOMAIN Without(p) : Without(p)[k] = jobs[l]
           /\ Unique(jobs) => Unique(Without(p))
<1> DEFINE f == Kept(p)
           Good(n) == /\ f[n] \in Seq(Entries) /\ Len(f[n]) <= n
                      /\ \A k \in 1 .. Len(f[n]) :
                            f[n][k].pid # p /\ \E l \in 1 .. n : f[n][k] = jobs[l]
                      /\ \A l \in 1 .. n : jobs[l].pid # p => \E k \in 1 .. Len(f[n]) : f[n][k] = jobs[l]
                      /\ Unique(jobs) => \A k, l \in 1 .. Len(f[n]) : f[n][k].pid = f[n][l].pid => k = l
           Bad == {n \in 0 .. Len(jobs) : ~Good(n)}
<1>0. Len(jobs) \in Nat /\ DOMAIN jobs = 1 .. Len(jobs) /\ \A n \in 1 .. Len(jobs) : jobs[n] \in Entries
  OBVIOUS
<1>1. f = [n \in 0 .. Len(jobs) |->
             IF n = 0 THEN <<>> ELSE IF jobs[n].pid = p THEN f[n - 1] ELSE Append(f[n - 1], jobs[n])]
  BY <1>0, KeptUnfold
<1> HIDE DEF f
<1>2. Good(0)
  <2>1. f[0] = <<>>
    BY <1>0, <1>1
  <2> QED BY <2>1
<1>3. ASSUME NEW n \in 1 .. Len(jobs), Good(n - 1)
      PROVE  Good(n)
  <2>0. n \in Nat /\ n - 1 \in Nat /\ n - 1 \in 0 .. Len(jobs) /\ n \in 0 .. Len(jobs) /\ n # 0 /\ n \in DOMAIN jobs
        /\ 1 .. n = (1 .. n - 1) \cup {n} /\ n \notin 1 .. n - 1 /\ 1 .. n - 1 \subseteq DOMAIN jobs
    BY <1>0
  <2>1. CASE jobs[n].pid = p
    <3>1. f[n] = f[n - 1]
      BY <1>1, <2>0, <2>1
    <3>2. Len(f[n - 1]) \in Nat /\ Len(f[n - 1]) <= n
      BY <1>3, <2>0
    <3> QED BY <1>3, <2>0, <2>1, <3>1, <3>2
  <2>2. CASE jobs[n].pid # p
    <3>0. PICK s \in Seq(Entries) : s = f[n - 1]
      BY <1>3
    <3>1. f[n] = Append(s, jobs[n]) /\ jobs[n] \in Entries
      BY <1>0, <1>1, <2>0, <2>2, <3>0
    <3>2. /\ Len(s) \in Nat /\ Len(s) <= n - 1 /\ Len(f[n]) = Len(s) + 1 /\ f[n] \in Seq(Entries)
          /\ \A k \in 1 .. Len(s) : f[n][k] = s[k]
          /\ f[n][Len(s) + 1] = jobs[n]
      BY <1>3, <3>0, <3>1
    <3>3. 1 .. Len(f[n]) = (1 .. Len(s)) \cup {Len(s) + 1} /\ Len(s) + 1 \notin 1 .. Len(s)
          /\ Len(f[n]) <= n
      BY <2>0, <3>2
    <3>4. /\ \A k \in 1 .. Len(s) : s[k].pid # p /\ \E l \in 1 .. n - 1 : s[k] = jobs[l]
          /\ \A l \in 1 .. n - 1 : jobs[l].pid # p => \E k \in 1 .. Len(s) : s[k] = jobs[l]
          /\ Unique(jobs) => \A k, l \in 1 .. Len(s) : s[k].pid = s[l].pid => k = l
      BY <1>3, <3>0
    <3>5. \A k \in 1 .. Len(f[n]) : f[n][k].pid # p /\ \E l \in 1 .. n : f[n][k] = jobs[l]
      BY <2>0, <2>2, <3>2, <3>3, <3>4, SMTT(20)
    <3>6. \A l \in 1 .. n : jobs[l].pid # p => \E k \in 1 .. Len(f[n]) : f[n][k] = jobs[l]
      <4> SUFFICES ASSUME NEW l \in 1 .. n, jobs[l].pid # p
                   PROVE  \E k \in 1 .. Len(f[n]) : f[n][k] = jobs[l]
        OBVIOUS
      <4>1. CASE l = n
        BY <4>1, <3>2, <3>3
      <4>2. CASE l # n
        <5>1. PICK k \in 1 .. Len(s) : s[k] = jobs[l]
          BY <2>0, <3>4, <4>2
        <5> QED BY <3>2, <3>3, <5>1
      <4> QED BY <4>1, <4>2
    <3>7. ASSUME Unique(jobs)
          PROVE  \A k, l \in 1 .. Len(f[n]) : f[n][k].pid = f[n][l].pid => k = l
      <4>1. \A k \in 1 .. Len(s) : s[k].pid # jobs[n].pid
        BY <2>0, <3>4, <3>7 DEF Unique
      <4> QED BY <3>2, <3>3, <3>4, <3>7, <4>1
    <3> QED BY <3>2, <3>3, <3>5, <3>6, <3>7
  <2> QED BY <2>1, <2>2
<1>4. Bad = {}
  <2> SUFFICES ASSUME Bad # {} PROVE FALSE
    OBVIOUS
  <2> HIDE DEF Good
  <2>1. PICK n \in Bad : \A m \in Bad : n <= m
    <3>1. Bad \subseteq Nat
      OBVIOUS
    <3> HIDE DEF Bad
    <3> QED BY <3>1, LeastNumber
  <2>2. n # 0 /\ n \in 1 .. Len(jobs)
    BY <1>2, <2>1
  <2>3. n - 1 \in 0 .. Len(jobs) /\ n - 1 \notin Bad
    BY <2>1, <2>2
  <2> QED BY <1>3, <2>1, <2>2, <2>3
<1>5. Good(Len(jobs))
  <2>1. Len(jobs) \in 0 .. Len(jobs)
    BY <1>0
  <2> HIDE DEF Good
  <2> QED BY <2>1, <1>4
<1>6. Without(p) = f[Len(jobs)]
  BY DEF Without, f
<1>7. DOMAIN Without(p) = 1 .. Len(Without(p)) /\ Len(Without(p)) \in Nat
  BY <1>5, <1>6
<1> QED
  <2> DEFINE w == Without(p)
  <2> HIDE DEF w
  <2>1. /\ w \in Seq(Entries) /\ Len(w) <= Len(jobs)
        /\ \A k \in 1 .. Len(w) : w[k].pid # p /\ \E l \in 1 .. Len(jobs) : w[k] = jobs[l]
        /\ \A l \in 1 .. Len(jobs) : jobs[l].pid # p => \E k \in 1 .. Len(w) : w[k] = jobs[l]
        /\ Unique(jobs) => \A k, l \in 1 .. Len(w) : w[k].pid = w[l].pid => k = l
    BY <1>5, <1>6 DEF w
  <2>2. DOMAIN w = 1 .. Len(w)
    BY <1>7 DEF w
  <2>3. /\ w \in Seq(Entries) /\ Len(w) <= Len(jobs)
        /\ \A k \in DOMAIN w : w[k].pid # p /\ \E l \in DOMAIN jobs : w[k] = jobs[l]
        /\ \A l \in DOMAIN jobs : jobs[l].pid # p => \E k \in DOMAIN w : w[k] = jobs[l]
        /\ Unique(jobs) => Unique(w)
    BY <1>0, <2>1, <2>2 DEF Unique
  <2> QED BY <2>3 DEF w

\* The table with one state changed.
WithState(k, s) == [jobs EXCEPT ![k].state = s]

\* Every entry but that one is as it was.
LEMMA ChangedFacts ==
    ASSUME jobs \in Seq(Entries), NEW k, NEW s \in States
    PROVE  /\ WithState(k, s) \in Seq(Entries) /\ Len(WithState(k, s)) = Len(jobs)
           /\ DOMAIN WithState(k, s) = DOMAIN jobs
           /\ \A l \in DOMAIN jobs : /\ WithState(k, s)[l].pid = jobs[l].pid
                                    /\ WithState(k, s)[l].state = IF l = k THEN s ELSE jobs[l].state
<1> DEFINE t == WithState(k, s)
<1>1. t = [l \in DOMAIN jobs |-> IF l = k THEN [jobs[l] EXCEPT !.state = s] ELSE jobs[l]]
  BY DEF WithState
<1>2. Len(jobs) \in Nat /\ DOMAIN jobs = 1 .. Len(jobs) /\ \A l \in DOMAIN jobs : jobs[l] \in Entries
  OBVIOUS
<1> HIDE DEF t
<1>3. \A l \in DOMAIN jobs : /\ t[l] \in Entries /\ t[l].pid = jobs[l].pid
                            /\ t[l].state = IF l = k THEN s ELSE jobs[l].state
  BY <1>1, <1>2 DEF Entries
<1>4. t \in [1 .. Len(jobs) -> Entries]
  BY <1>1, <1>2, <1>3
<1>5. t \in Seq(Entries) /\ Len(t) = Len(jobs)
  BY <1>2, <1>4
<1> QED BY <1>1, <1>3, <1>5 DEF t

\* remove_job takes out the entry of its index.
LEMMA RemovedFacts ==
    ASSUME jobs \in Seq(Entries), NEW k \in DOMAIN jobs
    PROVE  /\ remove_job(k) \in Seq(Entries) /\ Len(remove_job(k)) = Len(jobs) - 1
           /\ DOMAIN remove_job(k) = 1 .. Len(jobs) - 1
           /\ \A l \in 1 .. Len(jobs) - 1 : remove_job(k)[l] = IF l < k THEN jobs[l] ELSE jobs[l + 1]
<1>1. remove_job(k) = SubSeq(jobs, 1, k - 1) \o SubSeq(jobs, k + 1, Len(jobs))
  BY DEF remove_job, RemoveAt
<1>2. k \in 1 .. Len(jobs) /\ Len(jobs) \in Nat
  OBVIOUS
<1>3. /\ SubSeq(jobs, 1, k - 1) \in Seq(Entries) /\ Len(SubSeq(jobs, 1, k - 1)) = k - 1
      /\ \A l \in 1 .. k - 1 : SubSeq(jobs, 1, k - 1)[l] = jobs[l]
  BY <1>2
<1>4. /\ SubSeq(jobs, k + 1, Len(jobs)) \in Seq(Entries) /\ Len(SubSeq(jobs, k + 1, Len(jobs))) = Len(jobs) - k
      /\ \A l \in 1 .. Len(jobs) - k : SubSeq(jobs, k + 1, Len(jobs))[l] = jobs[l + k]
  BY <1>2
<1>5. PICK s \in Seq(Entries), t \in Seq(Entries) :
         s = SubSeq(jobs, 1, k - 1) /\ t = SubSeq(jobs, k + 1, Len(jobs))
  BY <1>3, <1>4
<1>6. /\ Len(s) = k - 1 /\ Len(t) = Len(jobs) - k /\ remove_job(k) = s \o t
      /\ \A l \in 1 .. k - 1 : s[l] = jobs[l]
      /\ \A l \in 1 .. Len(jobs) - k : t[l] = jobs[l + k]
  BY <1>1, <1>3, <1>4, <1>5
<1>7. s \o t \in Seq(Entries) /\ Len(s \o t) = Len(jobs) - 1 /\ DOMAIN (s \o t) = 1 .. Len(jobs) - 1
  <2>1. s \o t \in Seq(Entries)
    BY <1>5
  <2>2. Len(s \o t) = Len(s) + Len(t) /\ DOMAIN (s \o t) = 1 .. Len(s \o t)
    BY <1>5, <2>1
  <2>3. k - 1 + (Len(jobs) - k) = Len(jobs) - 1
    BY <1>2
  <2> QED BY <1>6, <2>1, <2>2, <2>3
<1>8. ASSUME NEW l \in 1 .. Len(jobs) - 1
      PROVE  (s \o t)[l] = IF l < k THEN jobs[l] ELSE jobs[l + 1]
  <2>1. CASE l < k
    <3>1. l \in 1 .. k - 1 /\ l \in 1 .. Len(s) + Len(t) /\ l <= Len(s)
      BY <1>2, <1>6, <2>1
    <3>2. (s \o t)[l] = s[l]
      BY <3>1
    <3> QED BY <1>6, <2>1, <3>1, <3>2
  <2>2. CASE ~(l < k)
    <3>0. k \in Int /\ l \in Int /\ Len(jobs) \in Int /\ l <= Len(jobs) - 1 /\ l >= k
      BY <1>2, <2>2
    <3>1. l - (k - 1) \in 1 .. Len(jobs) - k /\ l \in 1 .. Len(s) + Len(t) /\ ~(l <= Len(s))
          /\ l - (k - 1) + k = l + 1 /\ l - Len(s) = l - (k - 1)
      BY <1>6, <3>0, SMTT(20)
    <3>2. (s \o t)[l] = t[l - Len(s)]
      BY <3>1
    <3> QED BY <1>6, <2>2, <3>1, <3>2
  <2> QED BY <2>1, <2>2
<1> QED BY <1>6, <1>7, <1>8

\* Whatever its index is, what is left is a table, and no longer.
LEMMA RemovedType ==
    ASSUME jobs \in Seq(Entries), NEW k
    PROVE  remove_job(k) \in Seq(Entries) /\ Len(remove_job(k)) <= Len(jobs)
<1>1. CASE k \in DOMAIN jobs
  BY <1>1, RemovedFacts
<1>2. CASE k \notin DOMAIN jobs
  <2>1. remove_job(k) = SubSeq(jobs, 1, Len(jobs) - 1)
    BY <1>2 DEF remove_job, Front
  <2> QED BY <2>1
<1> QED BY <1>1, <1>2


-----------------------------------------------------------------------------
(* The inductive invariant. *)

\* The kernel's news: a dead process stays until it is waited for, one that was
\* continued runs.  Processes are created in the order of their pids.
NewsOK == \A p \in Pids : /\ proc[p] = "dead" => report[p] = "dead"
                          /\ report[p] = "continued" => proc[p] = "running"
                          /\ proc[p] = "unused" => report[p] = "none"
ForksOK == \A p, q \in Pids : p < q /\ proc[p] = "unused" => proc[q] = "unused"
StartedOK == \A p \in started : proc[p] # "unused"
KernelOK == NewsOK /\ ForksOK /\ StartedOK

\* Who is in the foreground is neither listed nor started with "&".
Foreign(p) == Listed(p) = {} /\ p \notin started
ForegroundOK ==
    /\ fg_pid \in Pids => shell \in {"wait", "restore", "resume", "killed", "suspended"}
    /\ shell = "wait" => fg_pid = target /\ target \in Pids /\ Child(target) /\ Foreign(target)
    /\ shell = "pipe" => \A p \in members : Foreign(p)
    /\ shell \in {"resume", "fg_wait"} => at \in DOMAIN jobs /\ jobs[at].pid = target

\* The table, wherever the shell is: one entry for each child started with "&".
ListedOK ==
    /\ Unique(jobs)
    /\ \A k \in DOMAIN jobs : Child(jobs[k].pid)
    /\ shell # "overrun" => \A p \in started : Child(p) => Listed(p) # {}

PipeOK == shell = "pipe" => waits >= 1

TableOK == spoiled = {} => ForegroundOK /\ ListedOK /\ RunningJobsRun

JobsInv == TypeOK /\ KernelOK /\ PipeOK /\ TableOK

\* The table and its entries.
LEMMA TableType ==
    ASSUME TypeOK
    PROVE  /\ jobs \in Seq(Entries) /\ Len(jobs) \in Nat /\ DOMAIN jobs = 1 .. Len(jobs)
           /\ \A k \in DOMAIN jobs : /\ jobs[k] \in Entries /\ jobs[k].pid \in Pids
                                    /\ jobs[k].state \in States
<1>1. jobs \in Seq(Entries)
  BY DEF TypeOK, Entries, States
<1>2. Len(jobs) \in Nat /\ DOMAIN jobs = 1 .. Len(jobs) /\ \A k \in DOMAIN jobs : jobs[k] \in Entries
  BY <1>1
<1> QED BY <1>1, <1>2 DEF Entries

-----------------------------------------------------------------------------
(* Steps of processes and signals. *)

Moves == {"unused", "running", "stopped", "dead", "reaped"}
News == {"none", "stopped", "continued", "dead"}
Runs(p) == proc[p] = "running" \/ report[p] # "none"

\* What a signal, a stop or an end does at most: nobody is created, waited for or
\* forgotten, and who does not run any more is in the news.
Alike ==
    /\ proc' \in [Pids -> Moves] /\ report' \in [Pids -> News] /\ NewsOK'
    /\ \A p \in Pids : /\ proc'[p] = "unused" <=> proc[p] = "unused"
                       /\ Child(p) <=> Child(p)'
                       /\ Runs(p) => Runs(p)'

\* A signal to a process of the shell is such a step.
LEMMA SignalAlike ==
    ASSUME TypeOK, KernelOK, NEW p \in Pids, NEW sig, Signalled(p, sig)
    PROVE  Alike
<1>0. proc \in [Pids -> Moves] /\ report \in [Pids -> News] /\ NewsOK
  BY DEF TypeOK, KernelOK, Moves, News
<1>1. \/ proc' = proc /\ report' = report
      \/ proc[p] \in {"running", "stopped"} /\ Becomes(p, "dead", "dead")
      \/ proc[p] = "running" /\ Becomes(p, "stopped", "stopped")
      \/ proc[p] = "stopped" /\ Becomes(p, "running", "continued")
  BY DEF Signalled, Dies
<1>2. CASE proc' = proc /\ report' = report
  BY <1>0, <1>2 DEF Alike, NewsOK, Child, Runs
<1>3. ASSUME NEW state \in {"dead", "stopped", "running"}, NEW status \in {"dead", "stopped", "continued"},
             proc[p] \in {"running", "stopped"}, Becomes(p, state, status),
             <<state, status>> \in {<<"dead", "dead">>, <<"stopped", "stopped">>, <<"running", "continued">>}
      PROVE  Alike
  BY <1>0, <1>3 DEF Alike, NewsOK, Child, Runs, Becomes, Moves, News
<1> QED BY <1>1, <1>2, <1>3

\* The end of a process.
LEMMA DeathAlike ==
    ASSUME TypeOK, KernelOK, NEW p \in Pids, proc[p] \in {"running", "stopped"}, Dies(p)
    PROVE  Alike
BY SignalAlike DEF Signalled

\* The signals of handle_eof.
LEMMA LogOutAlike ==
    ASSUME TypeOK, KernelOK, LogOut
    PROVE  Alike
<1>0. proc \in [Pids -> Moves] /\ report \in [Pids -> News] /\ NewsOK
  BY DEF TypeOK, KernelOK, Moves, News
<1> DEFINE killed == {p \in Pids : Listed(p) # {} /\ proc[p] \in {"running", "stopped"}}
<1>1. /\ proc' = [p \in Pids |-> IF p \in killed THEN "dead" ELSE proc[p]]
      /\ report' = [p \in Pids |-> IF p \in killed THEN "dead" ELSE report[p]]
  BY DEF LogOut
<1>2. \A p \in killed : proc[p] \in {"running", "stopped"}
  OBVIOUS
<1> HIDE DEF killed
<1> QED BY <1>0, <1>1, <1>2 DEF Alike, NewsOK, Child, Runs, Moves, News

\* A continued job runs, or its end is in the news.
LEMMA ResumedRuns ==
    ASSUME TypeOK, KernelOK, NEW p \in Pids, Child(p), Resume(p)
    PROVE  Alike /\ Runs(p)'
<1>1. Alike
  BY SignalAlike DEF Resume
<1>2. Runs(p)'
  <2>1. CASE proc[p] = "stopped"
    BY <2>1 DEF Resume, Signalled, Becomes, Runs, TypeOK
  <2>2. CASE proc[p] # "stopped"
    BY <2>2 DEF Resume, Signalled, Runs, Child, KernelOK, NewsOK
  <2> QED BY <2>1, <2>2
<1> QED BY <1>1, <1>2

\* Such a step keeps what the kernel promises.
LEMMA KernelKept ==
    ASSUME TypeOK, KernelOK, Alike, UNCHANGED started
    PROVE  KernelOK'
BY DEF KernelOK, Alike, ForksOK, StartedOK, TypeOK

\* It keeps an untouched table exact.
LEMMA TableStands ==
    ASSUME TypeOK, Alike, UNCHANGED <<jobs, started>>, ListedOK, RunningJobsRun, spoiled = {},
           shell = "overrun" => shell' = "overrun"
    PROVE  ListedOK' /\ RunningJobsRun'
<1>0. \A k \in DOMAIN jobs : jobs[k].pid \in Pids
  BY TableType
<1>1. \A p : Listed(p)' = Listed(p)
  BY DEF Listed
<1>2. ListedOK'
  BY <1>0, <1>1 DEF ListedOK, Unique, Alike, TypeOK
<1>3. RunningJobsRun'
  BY <1>0 DEF RunningJobsRun, Alike, Runs
<1> QED BY <1>2, <1>3

\* Nothing but the shell's own place changes.
LEMMA SameProcesses ==
    ASSUME TypeOK, KernelOK, UNCHANGED <<proc, report>>
    PROVE  Alike
BY DEF TypeOK, KernelOK, NewsOK, Alike, Child, Runs, Moves, News

-----------------------------------------------------------------------------
(* What the processes do. *)

\* A program that ends or stops, the command of a subshell that ends.
LEMMA ProcessStep ==
    ASSUME JobsInv, NEW p \in Pids, Exits(p) \/ InnerExits(p) \/ StopsAtTerminal(p)
    PROVE  JobsInv'
<1> USE DEF JobsInv
<1>1. Rest /\ UNCHANGED started /\ inner' \subseteq inner
  BY DEF Exits, InnerExits, StopsAtTerminal
<1>2. Alike
  <2>1. CASE Exits(p)
    BY <2>1, DeathAlike DEF Exits
  <2>2. CASE InnerExits(p)
    BY <2>2, SameProcesses DEF InnerExits
  <2>3. CASE StopsAtTerminal(p)
    <3>1. Signalled(p, "STOP")
      BY <2>3 DEF StopsAtTerminal, Signalled
    <3> QED BY <3>1, SignalAlike
  <2> QED BY <2>1, <2>2, <2>3
<1>3. TypeOK'
  BY <1>1, <1>2 DEF TypeOK, Rest, Alike, Moves, News, table, signals, waiting
<1>4. KernelOK'
  BY <1>1, <1>2, KernelKept
<1>5. PipeOK'
  BY <1>1 DEF PipeOK, Rest, waiting
<1>6. ASSUME spoiled' = {}
      PROVE  ForegroundOK' /\ ListedOK' /\ RunningJobsRun'
  <2>1. spoiled = {} /\ ForegroundOK /\ ListedOK /\ RunningJobsRun
    BY <1>1, <1>6 DEF TableOK, Rest
  <2>2. ListedOK' /\ RunningJobsRun'
    BY <1>1, <1>2, <2>1, TableStands DEF Rest, table
  <2>3. ForegroundOK'
    BY <1>1, <1>2, <2>1 DEF ForegroundOK, Foreign, Listed, Rest, table, signals, waiting, Alike
  <2> QED BY <2>2, <2>3
<1> QED BY <1>3, <1>4, <1>5, <1>6 DEF TableOK

-----------------------------------------------------------------------------
(* The main loop. *)

\* check_jobs reads one status: an ended job leaves the table.
LEMMA CheckJobStep ==
    ASSUME JobsInv, NEW p \in Pids, CheckJob(p)
    PROVE  JobsInv'
<1> USE DEF JobsInv
<1>0. /\ shell = "check" /\ report[p] # "none" /\ shell' = shell /\ spoiled' = spoiled /\ started' = started
      /\ inner' = inner /\ UNCHANGED <<next_job_id, signals, waiting>>
  BY DEF CheckJob
<1>t. jobs \in Seq(Entries) /\ Len(jobs) \in Nat /\ DOMAIN jobs = 1 .. Len(jobs)
      /\ \A k \in DOMAIN jobs : jobs[k] \in Entries /\ jobs[k].pid \in Pids /\ jobs[k].state \in States
  BY TableType
<1>u. proc \in [Pids -> Moves] /\ report \in [Pids -> News]
  BY DEF TypeOK, Moves, News
<1>w. PipeOK'
  BY <1>0 DEF PipeOK
<1>1. CASE report[p] = "dead"
  <2>1. jobs' = Without(p) /\ proc' = [proc EXCEPT ![p] = "reaped"] /\ report' = [report EXCEPT ![p] = "none"]
    BY <1>1 DEF CheckJob, Reap, Becomes
  <2>2. /\ jobs' \in Seq(Entries) /\ Len(jobs') <= Len(jobs)
        /\ \A k \in DOMAIN jobs' : jobs'[k].pid # p /\ \E l \in DOMAIN jobs : jobs'[k] = jobs[l]
        /\ \A l \in DOMAIN jobs : jobs[l].pid # p => \E k \in DOMAIN jobs' : jobs'[k] = jobs[l]
        /\ Unique(jobs) => Unique(jobs')
    BY <1>t, <2>1, WithoutFacts
  <2>3. Len(jobs') \in Nat
    BY <2>2
  <2>4. TypeOK'
    <3>1. Len(jobs') <= JobsMax
      BY <1>t, <2>2, <2>3, JobsAssumption DEF TypeOK
    <3>2. proc' \in [Pids -> Moves] /\ report' \in [Pids -> News]
      BY <1>u, <2>1 DEF Moves, News
    <3> QED BY <1>0, <2>2, <3>1, <3>2 DEF TypeOK, Entries, States, Moves, News, signals, waiting
  <2>5. KernelOK'
    BY <1>0, <1>u, <2>1 DEF KernelOK, NewsOK, ForksOK, StartedOK, TypeOK
  <2>6. ASSUME spoiled' = {}
        PROVE  ForegroundOK' /\ ListedOK' /\ RunningJobsRun'
    <3>1. ForegroundOK /\ ListedOK /\ RunningJobsRun
      BY <1>0, <2>6 DEF TableOK
    <3>2. \A k \in DOMAIN jobs' : Child(jobs[k].pid)'
      BY <1>t, <1>u, <2>1, <2>2, <3>1 DEF ListedOK, Child
    <3>3. ASSUME NEW q \in started', Child(q)'
          PROVE  Listed(q)' # {}
      <4>1. q \in Pids /\ q # p /\ Child(q)
        BY <1>0, <1>u, <2>1, <3>3 DEF TypeOK, Child
      <4>2. PICK l \in DOMAIN jobs : jobs[l].pid = q
        BY <1>0, <3>1, <3>3, <4>1 DEF ListedOK, Listed
      <4> QED BY <2>2, <4>1, <4>2 DEF Listed
    <3>4. ListedOK'
      BY <2>2, <3>1, <3>2, <3>3 DEF ListedOK
    <3>5. RunningJobsRun'
      BY <1>t, <1>u, <2>1, <2>2, <2>6, <3>1, <1>0 DEF RunningJobsRun
    <3>6. ForegroundOK'
      BY <1>0, <3>1 DEF ForegroundOK, signals
    <3> QED BY <3>4, <3>5, <3>6
  <2> QED BY <1>w, <2>4, <2>5, <2>6 DEF TableOK
<1>2. CASE report[p] # "dead"
  <2> DEFINE to == StateFor(report[p])
  <2>1. /\ jobs' = [k \in DOMAIN jobs |-> IF jobs[k].pid = p THEN [jobs[k] EXCEPT !.state = to] ELSE jobs[k]]
        /\ report' = [report EXCEPT ![p] = "none"] /\ proc' = proc
    BY <1>2 DEF CheckJob, ReadStatus
  <2>2. to \in States /\ (to = "RUNNING" => proc[p] = "running")
    BY DEF StateFor, States, KernelOK, NewsOK
  <2> HIDE DEF to
  <2>3. /\ DOMAIN jobs' = DOMAIN jobs
        /\ \A k \in DOMAIN jobs : /\ jobs'[k] \in Entries /\ jobs'[k].pid = jobs[k].pid
                                  /\ jobs'[k].state = IF jobs[k].pid = p THEN to ELSE jobs[k].state
    BY <1>t, <2>1, <2>2 DEF Entries
  <2>4. jobs' \in Seq(Entries) /\ Len(jobs') = Len(jobs)
    BY <1>t, <2>1, <2>3
  <2>5. TypeOK'
    <3>1. report' \in [Pids -> News]
      BY <1>u, <2>1 DEF News
    <3> QED BY <1>0, <2>1, <2>4, <3>1 DEF TypeOK, Entries, States, News, signals, waiting
  <2>6. KernelOK'
    BY <1>0, <1>2, <1>u, <2>1 DEF KernelOK, NewsOK, ForksOK, StartedOK, TypeOK
  <2>7. ASSUME spoiled' = {}
        PROVE  ForegroundOK' /\ ListedOK' /\ RunningJobsRun'
    <3>1. ForegroundOK /\ ListedOK /\ RunningJobsRun
      BY <1>0, <2>7 DEF TableOK
    <3>2. \A q : Listed(q)' = Listed(q)
      BY <2>3 DEF Listed
    <3>3. ListedOK'
      BY <1>0, <1>t, <2>1, <2>3, <3>1, <3>2 DEF ListedOK, Unique, Child
    <3>4. RunningJobsRun'
      BY <1>0, <1>t, <1>u, <2>1, <2>2, <2>3, <2>7, <3>1 DEF RunningJobsRun
    <3>5. ForegroundOK'
      BY <1>0, <3>1 DEF ForegroundOK, signals
    <3> QED BY <3>3, <3>4, <3>5
  <2> QED BY <1>w, <2>5, <2>6, <2>7 DEF TableOK
<1> QED BY <1>1, <1>2

\* Steps in which only the shell's own place, its handlers and fg_pid change.
LEMMA QuietStep ==
    ASSUME JobsInv, Checked \/ IgnoreAgain \/ WaitForJob \/ OtherLine \/ CtrlCIgnored \/ CtrlCKills
           \/ CtrlZSuspends
    PROVE  JobsInv'
<1> USE DEF JobsInv
<1>0. /\ UNCHANGED <<table, waiting, world, spoiled>> /\ shell # "overrun"
      /\ shell' \in {"check", "prompt", "fg_wait", "killed", "suspended", shell}
      /\ fg_pid' \in {NoPid, ShellPid, fg_pid}
      /\ {on_int', on_tstp'} \subseteq {"ignore", "handler", "default"}
  BY DEF Checked, IgnoreAgain, WaitForJob, OtherLine, CtrlCIgnored, CtrlCKills, CtrlZSuspends, signals,
         InstallHandlers, Alive, TypeOK
<1>1. TypeOK'
  BY <1>0 DEF TypeOK, table, waiting, world
<1>2. Alike
  BY <1>0, SameProcesses DEF world
<1>3. KernelOK'
  BY <1>0, <1>2, KernelKept DEF world
<1>4. PipeOK'
  BY <1>0 DEF PipeOK, waiting
<1>5. ASSUME spoiled' = {}
      PROVE  ForegroundOK' /\ ListedOK' /\ RunningJobsRun'
  <2>1. spoiled = {} /\ ForegroundOK /\ ListedOK /\ RunningJobsRun
    BY <1>0, <1>5 DEF TableOK
  <2>2. ListedOK' /\ RunningJobsRun'
    BY <1>0, <1>2, <2>1, TableStands DEF world, table
  <2>3. /\ shell' \in {"wait", "pipe", "resume"} => shell' = shell
        /\ shell' = "fg_wait" => shell \in {"resume", "fg_wait"}
        /\ fg_pid' \in Pids => fg_pid' = fg_pid /\ shell' \in {shell, "killed", "suspended"}
        /\ shell' = "wait" => fg_pid' = fg_pid
    BY <1>0, <2>1, JobsAssumption DEF Checked, IgnoreAgain, WaitForJob, OtherLine, CtrlCIgnored,
       CtrlCKills, CtrlZSuspends, signals, ForegroundOK
  <2>4. ForegroundOK'
    BY <1>0, <2>1, <2>3 DEF ForegroundOK, Foreign, Listed, Child, table, waiting, world
  <2> QED BY <2>2, <2>4
<1> QED BY <1>1, <1>3, <1>4, <1>5 DEF TableOK

\* The program in the foreground ends or stops.
LEMMA WaitOverStep ==
    ASSUME JobsInv, WaitOver
    PROVE  JobsInv'
<1> USE DEF JobsInv
<1>0. /\ shell = "wait" /\ shell' = "restore" /\ report[target] \in {"dead", "stopped"}
      /\ UNCHANGED <<table, signals, waiting, inner, started, spoiled>>
      /\ report' = [report EXCEPT ![target] = "none"]
      /\ IF report[target] = "dead" THEN proc' = [proc EXCEPT ![target] = "reaped"] ELSE proc' = proc
  BY DEF WaitOver, Reap, ReadStatus, Becomes
<1>u. proc \in [Pids -> Moves] /\ report \in [Pids -> News]
  BY DEF TypeOK, Moves, News
<1>v. /\ proc' \in [Pids -> Moves] /\ report' \in [Pids -> News]
      /\ \A q \in Pids : q # target => proc'[q] = proc[q] /\ report'[q] = report[q]
      /\ target \in Pids => /\ report'[target] = "none"
                            /\ proc'[target] = IF report[target] = "dead" THEN "reaped" ELSE proc[target]
  BY <1>0, <1>u DEF Moves, News
<1>1. TypeOK'
  BY <1>0, <1>v DEF TypeOK, Moves, News, table, signals, waiting
<1>2. KernelOK'
  <2>1. target \in Pids => proc[target] # "unused" \/ proc'[target] \in {"reaped", "unused"}
    BY <1>v
  <2>2. NewsOK'
    BY <1>0, <1>v DEF KernelOK, NewsOK
  <2>3. ForksOK'
    BY <1>0, <1>v DEF KernelOK, ForksOK, NewsOK
  <2>4. StartedOK'
    BY <1>0, <1>v DEF KernelOK, StartedOK, TypeOK
  <2> QED BY <2>2, <2>3, <2>4 DEF KernelOK
<1>3. PipeOK'
  BY <1>0 DEF PipeOK
<1>4. ASSUME spoiled' = {}
      PROVE  ForegroundOK' /\ ListedOK' /\ RunningJobsRun'
  <2>1. spoiled = {} /\ ForegroundOK /\ ListedOK /\ RunningJobsRun
    BY <1>0, <1>4 DEF TableOK
  <2>2. target \in Pids /\ Foreign(target)
    BY <1>0, <2>1 DEF ForegroundOK
  <2>3. jobs' = jobs /\ \A q : Listed(q)' = Listed(q)
    BY <1>0 DEF Listed, table
  <2>4. \A k \in DOMAIN jobs : jobs[k].pid \in Pids /\ jobs[k].pid # target
    BY <2>2, TableType DEF Foreign, Listed
  <2>5. ListedOK'
    BY <1>0, <1>v, <2>1, <2>2, <2>3, <2>4 DEF ListedOK, Child, Foreign, TypeOK
  <2>6. RunningJobsRun'
    BY <1>v, <2>1, <2>3, <2>4 DEF RunningJobsRun
  <2>7. ForegroundOK'
    BY <1>0, <2>1 DEF ForegroundOK, signals
  <2> QED BY <2>5, <2>6, <2>7
<1> QED BY <1>1, <1>2, <1>3, <1>4 DEF TableOK

\* The end of any child ends one wait of a pipeline.
LEMMA PipeWaitStep ==
    ASSUME JobsInv, PipeWait
    PROVE  JobsInv'
<1> USE DEF JobsInv
<1>0. PICK p \in Pids : /\ report[p] = "dead" /\ Reap(p)
                        /\ spoiled' = IF p \in members THEN spoiled ELSE spoiled \cup {"theft"}
  BY DEF PipeWait
<1>1. /\ shell = "pipe" /\ waits' = waits - 1 /\ shell' = IF waits' = 0 THEN "check" ELSE "pipe"
      /\ waits \in 1 .. 2 /\ UNCHANGED <<table, signals, target, at, i, members, inner, started>>
  BY DEF PipeWait, OneWaitLess, PipeOK, TypeOK
<1>u. proc \in [Pids -> Moves] /\ report \in [Pids -> News]
  BY DEF TypeOK, Moves, News
<1>v. /\ proc' = [proc EXCEPT ![p] = "reaped"] /\ report' = [report EXCEPT ![p] = "none"]
      /\ proc' \in [Pids -> Moves] /\ report' \in [Pids -> News]
      /\ proc'[p] = "reaped" /\ report'[p] = "none"
      /\ \A q \in Pids : q # p => proc'[q] = proc[q] /\ report'[q] = report[q]
  BY <1>0, <1>u DEF Reap, Becomes, Moves, News
<1>2. TypeOK'
  BY <1>0, <1>1, <1>v DEF TypeOK, Moves, News, table, signals
<1>3. KernelOK'
  <2>1. NewsOK'
    BY <1>v DEF KernelOK, NewsOK
  <2>2. ForksOK'
    BY <1>0, <1>v DEF KernelOK, ForksOK, NewsOK
  <2>3. StartedOK'
    BY <1>1, <1>v DEF KernelOK, StartedOK, TypeOK
  <2> QED BY <2>1, <2>2, <2>3 DEF KernelOK
<1>4. PipeOK'
  BY <1>1 DEF PipeOK
<1>5. ASSUME spoiled' = {}
      PROVE  ForegroundOK' /\ ListedOK' /\ RunningJobsRun'
  <2>1. spoiled = {} /\ p \in members /\ ForegroundOK /\ ListedOK /\ RunningJobsRun
    BY <1>0, <1>5 DEF TableOK
  <2>2. Foreign(p)
    BY <1>1, <2>1 DEF ForegroundOK
  <2>3. jobs' = jobs /\ \A q : Listed(q)' = Listed(q)
    BY <1>1 DEF Listed, table
  <2>4. \A k \in DOMAIN jobs : jobs[k].pid \in Pids /\ jobs[k].pid # p
    BY <2>2, TableType DEF Foreign, Listed
  <2>5. ListedOK'
    BY <1>1, <1>v, <2>1, <2>2, <2>3, <2>4 DEF ListedOK, Child, Foreign, TypeOK
  <2>6. RunningJobsRun'
    BY <1>v, <2>1, <2>3, <2>4 DEF RunningJobsRun
  <2>7. ForegroundOK'
    BY <1>1, <2>1, <2>3 DEF ForegroundOK, signals, Foreign
  <2> QED BY <2>5, <2>6, <2>7
<1> QED BY <1>2, <1>3, <1>4, <1>5 DEF TableOK

\* What is typed in the place of the unknown status spoils the table.
LEMMA GarbageType ==
    ASSUME TypeOK, GarbageStatus
    PROVE  /\ jobs' \in Seq(Entries) /\ Len(jobs') <= JobsMax
           /\ spoiled' # {} /\ spoiled' \subseteq {"theft", "index", "status", "late", "twice"}
<1>1. jobs \in Seq(Entries) /\ Len(jobs) \in Nat /\ DOMAIN jobs = 1 .. Len(jobs)
      /\ Len(jobs) <= JobsMax /\ JobsMax \in Nat
  BY TableType, JobsAssumption DEF TypeOK
<1>2. remove_job(i) \in Seq(Entries) /\ Len(remove_job(i)) <= Len(jobs)
  BY <1>1, RemovedType
<1>3. WithState(at, "STOPPED") \in Seq(Entries) /\ Len(WithState(at, "STOPPED")) = Len(jobs)
  BY <1>1, ChangedFacts DEF States
<1>4. Len(remove_job(i)) \in Nat
  BY <1>2
<1>5. Len(remove_job(i)) <= JobsMax
  BY <1>1, <1>2, <1>4
<1>6. jobs' = WithState(at, "STOPPED") \/ jobs' = remove_job(i)
  BY DEF GarbageStatus, WithState
<1>7. spoiled' # {} /\ spoiled' \subseteq {"theft", "index", "status", "late", "twice"}
  BY DEF GarbageStatus, TypeOK
<1> QED BY <1>1, <1>2, <1>3, <1>5, <1>6, <1>7

\* The end of do_fg.
LEMMA FgOverStep ==
    ASSUME JobsInv, FgOver
    PROVE  JobsInv'
<1> USE DEF JobsInv
<1>0. /\ shell = "fg_wait" /\ shell' = "check" /\ fg_pid' = NoPid
      /\ UNCHANGED <<next_job_id, on_int, on_tstp, waiting, inner, started>>
  BY DEF FgOver, LeaveFg
<1>t. jobs \in Seq(Entries) /\ Len(jobs) \in Nat /\ DOMAIN jobs = 1 .. Len(jobs)
      /\ Len(jobs) <= JobsMax /\ JobsMax \in Nat
      /\ \A k \in DOMAIN jobs : jobs[k] \in Entries /\ jobs[k].pid \in Pids /\ jobs[k].state \in States
  BY TableType, JobsAssumption DEF TypeOK
<1>u. proc \in [Pids -> Moves] /\ report \in [Pids -> News] /\ NoPid \notin Pids
  BY JobsAssumption DEF TypeOK, Moves, News
<1>w. PipeOK' /\ ForegroundOK'
  BY <1>0, <1>u DEF PipeOK, ForegroundOK
<1>1. CASE report[target] = "stopped" /\ ReadStatus(target) /\ AfterStop
  <2>1. /\ report' = [report EXCEPT ![target] = "none"] /\ proc' = proc /\ spoiled' = spoiled
        /\ jobs' = WithState(at, "STOPPED")
    BY <1>1 DEF ReadStatus, AfterStop, WithState
  <2>2. /\ DOMAIN jobs' = DOMAIN jobs /\ jobs' \in Seq(Entries) /\ Len(jobs') = Len(jobs)
        /\ \A k \in DOMAIN jobs : /\ jobs'[k].pid = jobs[k].pid
                                  /\ jobs'[k].state = IF k = at THEN "STOPPED" ELSE jobs[k].state
    BY <1>t, <2>1, ChangedFacts DEF States
  <2>3. /\ report' \in [Pids -> News]
        /\ \A q \in Pids : q # target => report'[q] = report[q]
        /\ target \in Pids => report'[target] = "none"
    BY <1>u, <2>1 DEF News
  <2>4. TypeOK'
    BY <1>0, <1>t, <2>1, <2>2, <2>3 DEF TypeOK, Entries, States, News, waiting
  <2>5. KernelOK'
    <3>1. \A q \in Pids : report'[q] \in {report[q], "none"} /\ (proc[q] = "dead" => report'[q] = report[q])
      BY <1>1, <2>3 DEF KernelOK, NewsOK
    <3> QED BY <1>0, <2>1, <3>1 DEF KernelOK, NewsOK, ForksOK, StartedOK
  <2>6. ASSUME spoiled' = {}
        PROVE  ListedOK' /\ RunningJobsRun'
    <3>1. spoiled = {} /\ ForegroundOK /\ ListedOK /\ RunningJobsRun
      BY <2>1, <2>6 DEF TableOK
    <3>2. at \in DOMAIN jobs /\ jobs[at].pid = target
      BY <1>0, <3>1 DEF ForegroundOK
    <3>3. \A q : Listed(q)' = Listed(q)
      BY <2>2 DEF Listed
    <3>4. ListedOK'
      BY <1>0, <2>1, <2>2, <3>1, <3>3 DEF ListedOK, Unique, Child
    <3>5. \A k \in DOMAIN jobs : k # at => jobs[k].pid # target
      BY <3>1, <3>2 DEF ListedOK, Unique
    <3>6. RunningJobsRun'
      BY <1>t, <2>1, <2>2, <2>3, <3>1, <3>5 DEF RunningJobsRun
    <3> QED BY <3>4, <3>6
  <2> QED BY <1>w, <2>4, <2>5, <2>6 DEF TableOK
<1>2. CASE report[target] = "dead" /\ Reap(target) /\ AfterEnd
  <2>1. /\ report' = [report EXCEPT ![target] = "none"] /\ proc' = [proc EXCEPT ![target] = "reaped"]
        /\ jobs' = remove_job(i) /\ spoiled' = IF i = at THEN spoiled ELSE spoiled \cup {"index"}
    BY <1>2 DEF Reap, Becomes, AfterEnd
  <2>2. /\ proc' \in [Pids -> Moves] /\ report' \in [Pids -> News]
        /\ \A q \in Pids : q # target => proc'[q] = proc[q] /\ report'[q] = report[q]
        /\ target \in Pids => proc'[target] = "reaped" /\ report'[target] = "none"
    BY <1>u, <2>1 DEF Moves, News
  <2>3. jobs' \in Seq(Entries) /\ Len(jobs') \in Nat /\ Len(jobs') <= JobsMax
    <3>1. jobs' \in Seq(Entries) /\ Len(jobs') <= Len(jobs)
      BY <1>t, <2>1, RemovedType
    <3>2. Len(jobs') \in Nat
      BY <3>1
    <3> QED BY <1>t, <3>1, <3>2
  <2>4. TypeOK'
    BY <1>0, <2>1, <2>2, <2>3 DEF TypeOK, Entries, States, Moves, News, waiting
  <2>5. KernelOK'
    <3>1. NewsOK'
      BY <2>2 DEF KernelOK, NewsOK
    <3>2. ForksOK'
      BY <1>2, <2>2 DEF KernelOK, ForksOK, NewsOK
    <3>3. StartedOK'
      BY <1>0, <2>2 DEF KernelOK, StartedOK, TypeOK
    <3> QED BY <3>1, <3>2, <3>3 DEF KernelOK
  <2>6. ASSUME spoiled' = {}
        PROVE  ListedOK' /\ RunningJobsRun'
    <3>1. spoiled = {} /\ i = at /\ ForegroundOK /\ ListedOK /\ RunningJobsRun
      BY <2>1, <2>6 DEF TableOK
    <3>2. at \in DOMAIN jobs /\ jobs[at].pid = target /\ target \in Pids
      BY <1>0, <1>t, <3>1 DEF ForegroundOK
    <3>3. /\ DOMAIN jobs' = 1 .. Len(jobs) - 1
          /\ \A l \in 1 .. Len(jobs) - 1 : jobs'[l] = IF l < at THEN jobs[l] ELSE jobs[l + 1]
      BY <1>t, <2>1, <3>1, <3>2, RemovedFacts
    <3>4. at \in Int /\ \A l \in 1 .. Len(jobs) - 1 : l \in Int /\ l \in DOMAIN jobs /\ l + 1 \in DOMAIN jobs
      BY <1>t, <3>2
    <3>5. \A k \in DOMAIN jobs : k # at => k \in Int /\ jobs[k].pid # target /\ jobs[k].pid \in Pids
      BY <1>t, <3>1, <3>2 DEF ListedOK, Unique
    <3>6. \A l \in DOMAIN jobs' : \E k \in DOMAIN jobs : k # at /\ jobs'[l] = jobs[k]
      <4> SUFFICES ASSUME NEW l \in 1 .. Len(jobs) - 1
                   PROVE  \E k \in DOMAIN jobs : k # at /\ jobs'[l] = jobs[k]
        BY <3>3
      <4>1. CASE l < at
        BY <3>3, <3>4, <4>1
      <4>2. CASE ~(l < at)
        <5>1. l + 1 # at
          BY <3>4, <4>2
        <5> QED BY <3>3, <3>4, <4>2, <5>1
      <4> QED BY <4>1, <4>2
    <3>7. \A k \in DOMAIN jobs : k # at => \E l \in DOMAIN jobs' : jobs'[l] = jobs[k]
      <4> SUFFICES ASSUME NEW k \in DOMAIN jobs, k # at
                   PROVE  \E l \in 1 .. Len(jobs) - 1 : jobs'[l] = jobs[k]
        BY <3>3
      <4>1. k \in Int /\ 1 <= k /\ k <= Len(jobs) /\ at \in 1 .. Len(jobs)
        BY <1>t, <3>2
      <4>2. CASE k < at
        <5>1. k \in 1 .. Len(jobs) - 1
          BY <1>t, <4>1, <4>2
        <5> QED BY <3>3, <4>2, <5>1
      <4>3. CASE k > at
        <5>1. k - 1 \in 1 .. Len(jobs) - 1 /\ ~(k - 1 < at) /\ k - 1 + 1 = k
          BY <1>t, <4>1, <4>3
        <5> QED BY <3>3, <5>1
      <4> QED BY <4>1, <4>2, <4>3
    <3>8. Unique(jobs')
      <4> SUFFICES ASSUME NEW k \in 1 .. Len(jobs) - 1, NEW l \in 1 .. Len(jobs) - 1, jobs'[k].pid = jobs'[l].pid
                   PROVE  k = l
        BY <3>3 DEF Unique
      <4>1. \A m, n \in DOMAIN jobs : jobs[m].pid = jobs[n].pid => m = n
        BY <3>1 DEF ListedOK, Unique
      <4>2. (IF k < at THEN k ELSE k + 1) = IF l < at THEN l ELSE l + 1
        <5> DEFINE kk == IF k < at THEN k ELSE k + 1
                   ll == IF l < at THEN l ELSE l + 1
        <5>1. kk \in DOMAIN jobs /\ ll \in DOMAIN jobs /\ jobs'[k] = jobs[kk] /\ jobs'[l] = jobs[ll]
          BY <3>3, <3>4
        <5> QED BY <4>1, <5>1
      <4> QED BY <3>4, <4>2
    <3>9. ListedOK'
      <4>1. \A k \in DOMAIN jobs' : Child(jobs[k].pid)'
        BY <2>2, <3>1, <3>5, <3>6 DEF ListedOK, Child
      <4>2. \A q \in started : Child(q)' => q # target /\ q \in Pids /\ Child(q)
        BY <2>2, <3>2 DEF Child, TypeOK
      <4>3. \A q \in started : Child(q)' => Listed(q)' # {}
        BY <1>0, <3>1, <3>2, <3>7, <4>2 DEF ListedOK, Listed
      <4> QED BY <1>0, <3>8, <4>1, <4>3 DEF ListedOK
    <3>10. RunningJobsRun'
      BY <2>2, <2>6, <3>1, <3>5, <3>6 DEF RunningJobsRun
    <3> QED BY <3>9, <3>10
  <2> QED BY <1>w, <2>4, <2>5, <2>6 DEF TableOK
<1>3. CASE ~Child(target) /\ UNCHANGED <<proc, report>> /\ GarbageStatus
  <2>1. jobs' \in Seq(Entries) /\ Len(jobs') <= JobsMax
        /\ spoiled' # {} /\ spoiled' \subseteq {"theft", "index", "status", "late", "twice"}
    BY <1>3, GarbageType
  <2>2. TypeOK'
    BY <1>0, <1>3, <2>1 DEF TypeOK, Entries, States, waiting
  <2>3. KernelOK'
    BY <1>0, <1>3, SameProcesses, KernelKept
  <2> QED BY <1>w, <2>1, <2>2, <2>3 DEF TableOK
<1> QED BY <1>1, <1>2, <1>3 DEF FgOver

-----------------------------------------------------------------------------
(* The user's lines. *)

\* A job at the end of the table.
LEMMA AppendFacts ==
    ASSUME jobs \in Seq(Entries), NEW e \in Entries
    PROVE  /\ Append(jobs, e) \in Seq(Entries) /\ Len(Append(jobs, e)) = Len(jobs) + 1
           /\ DOMAIN Append(jobs, e) = DOMAIN jobs \cup {Len(jobs) + 1}
           /\ Len(jobs) + 1 \notin DOMAIN jobs /\ Append(jobs, e)[Len(jobs) + 1] = e
           /\ \A k \in DOMAIN jobs : Append(jobs, e)[k] = jobs[k]
           /\ Unique(jobs) /\ (\A k \in DOMAIN jobs : jobs[k].pid # e.pid) => Unique(Append(jobs, e))
<1>1. Len(jobs) \in Nat /\ DOMAIN jobs = 1 .. Len(jobs)
  OBVIOUS
<1>2. /\ Append(jobs, e) \in Seq(Entries) /\ Len(Append(jobs, e)) = Len(jobs) + 1
      /\ Append(jobs, e)[Len(jobs) + 1] = e
      /\ \A k \in DOMAIN jobs : Append(jobs, e)[k] = jobs[k]
  OBVIOUS
<1>3. DOMAIN Append(jobs, e) = 1 .. Len(jobs) + 1
  BY <1>2
<1>4. 1 .. Len(jobs) + 1 = DOMAIN jobs \cup {Len(jobs) + 1} /\ Len(jobs) + 1 \notin DOMAIN jobs
  BY <1>1
<1> QED BY <1>2, <1>3, <1>4 DEF Unique

\* A process that is created takes the next pid: nobody lists it or started it.
LEMMA NewIsForeign ==
    ASSUME TypeOK, KernelOK, NEW p \in Pids, proc[p] = "unused"
    PROVE  /\ p \notin started
           /\ (\A k \in DOMAIN jobs : Child(jobs[k].pid)) => Listed(p) = {}
BY DEF KernelOK, StartedOK, Child, Listed

\* "&": a new job.
LEMMA StartStep ==
    ASSUME JobsInv, StartInBackground
    PROVE  JobsInv'
<1> USE DEF JobsInv
<1>0. PICK p \in NextPid, n \in Names :
         /\ proc' = [proc EXCEPT ![p] = "running"]
         /\ inner' = inner \cup {p} /\ started' = started \cup {p}
         /\ IF Len(jobs) < JobsMax
            THEN jobs' = Append(jobs, Job(p, n, "RUNNING")) /\ shell' = "check"
            ELSE UNCHANGED jobs /\ shell' = "overrun"
  BY DEF StartInBackground
<1>1. /\ shell = "prompt" /\ next_job_id' = next_job_id + 1
      /\ UNCHANGED <<signals, waiting, report, spoiled>>
  BY DEF StartInBackground, Line
<1>2. p \in Pids /\ proc[p] = "unused" /\ \A q \in 1 .. p - 1 : proc[q] # "unused"
  BY DEF NextPid
<1>t. jobs \in Seq(Entries) /\ Len(jobs) \in Nat /\ DOMAIN jobs = 1 .. Len(jobs)
      /\ Len(jobs) <= JobsMax /\ JobsMax \in Nat
      /\ \A k \in DOMAIN jobs : jobs[k] \in Entries /\ jobs[k].pid \in Pids /\ jobs[k].state \in States
  BY TableType, JobsAssumption DEF TypeOK
<1>v. /\ proc \in [Pids -> Moves] /\ proc' \in [Pids -> Moves] /\ proc'[p] = "running"
      /\ \A q \in Pids : q # p => proc'[q] = proc[q]
  BY <1>0, <1>2 DEF TypeOK, Moves
<1> DEFINE e == Job(p, n, "RUNNING")
<1>e. e \in Entries /\ e.pid = p /\ e.state = "RUNNING"
  BY <1>2 DEF TypeOK, Entries, States, Job
<1>f. /\ Append(jobs, e) \in Seq(Entries) /\ Len(Append(jobs, e)) = Len(jobs) + 1
      /\ DOMAIN Append(jobs, e) = DOMAIN jobs \cup {Len(jobs) + 1}
      /\ Len(jobs) + 1 \notin DOMAIN jobs /\ Append(jobs, e)[Len(jobs) + 1] = e
      /\ \A k \in DOMAIN jobs : Append(jobs, e)[k] = jobs[k]
      /\ Unique(jobs) /\ (\A k \in DOMAIN jobs : jobs[k].pid # e.pid) => Unique(Append(jobs, e))
  BY <1>e, <1>t, AppendFacts
<1>g. \/ Len(jobs) < JobsMax /\ jobs' = Append(jobs, e) /\ shell' = "check"
      \/ jobs' = jobs /\ shell' = "overrun"
  BY <1>0
<1> HIDE DEF e
<1>3. TypeOK'
  <2>1. jobs' \in Seq(Entries) /\ Len(jobs') <= JobsMax
    BY <1>f, <1>g, <1>t
  <2> QED BY <1>0, <1>1, <1>2, <1>g, <1>v, <2>1 DEF TypeOK, Entries, States, Moves, signals, waiting
<1>4. KernelOK'
  <2>1. NewsOK'
    BY <1>1, <1>2, <1>v DEF KernelOK, NewsOK
  <2>2. ForksOK'
    <3> SUFFICES ASSUME NEW q \in Pids, NEW r \in Pids, q < r, proc'[q] = "unused"
                 PROVE  proc'[r] = "unused"
      BY DEF ForksOK
    <3>1. q # p /\ proc[q] = "unused" /\ proc[r] = "unused"
      BY <1>v DEF KernelOK, ForksOK
    <3>2. p <= q
      BY <1>2, <3>1 DEF Pids
    <3>3. r # p
      BY <3>2 DEF Pids
    <3> QED BY <1>v, <3>1, <3>3
  <2>3. StartedOK'
    BY <1>0, <1>v DEF KernelOK, StartedOK, TypeOK
  <2> QED BY <2>1, <2>2, <2>3 DEF KernelOK
<1>5. PipeOK'
  BY <1>g DEF PipeOK
<1>6. ASSUME spoiled' = {}
      PROVE  ForegroundOK' /\ ListedOK' /\ RunningJobsRun'
  <2>1. spoiled = {} /\ ForegroundOK /\ ListedOK /\ RunningJobsRun
    BY <1>1, <1>6 DEF TableOK
  <2>2. p \notin started /\ \A k \in DOMAIN jobs : jobs[k].pid # p
    BY <1>2, <2>1, NewIsForeign DEF ListedOK, Listed
  <2>3. ForegroundOK'
    BY <1>1, <1>g, <2>1 DEF ForegroundOK, signals
  <2>4. \A k \in DOMAIN jobs : jobs[k].pid \in Pids /\ jobs[k].pid # p /\ proc'[jobs[k].pid] = proc[jobs[k].pid]
    BY <1>t, <1>v, <2>2
  <2>5. CASE jobs' = jobs /\ shell' = "overrun"
    <3>1. ListedOK'
      BY <2>1, <2>4, <2>5 DEF ListedOK, Child
    <3>2. RunningJobsRun'
      BY <1>1, <2>1, <2>4, <2>5 DEF RunningJobsRun
    <3> QED BY <2>3, <3>1, <3>2
  <2>6. CASE jobs' = Append(jobs, e) /\ shell' = "check"
    <3>1. Unique(jobs')
      BY <1>e, <1>f, <2>1, <2>2, <2>6 DEF ListedOK
    <3>2. \A k \in DOMAIN jobs' : Child(jobs[k].pid)'
      BY <1>e, <1>f, <1>v, <2>1, <2>4, <2>6 DEF ListedOK, Child
    <3>3. ASSUME NEW q \in started', Child(q)'
          PROVE  Listed(q)' # {}
      <4>1. CASE q = p
        BY <1>e, <1>f, <2>6, <4>1 DEF Listed
      <4>2. CASE q # p
        <5>1. q \in started /\ q \in Pids /\ Child(q)
          BY <1>0, <1>v, <3>3, <4>2 DEF TypeOK, Child
        <5>2. PICK k \in DOMAIN jobs : jobs[k].pid = q
          BY <1>1, <2>1, <5>1 DEF ListedOK, Listed
        <5> QED BY <1>f, <2>6, <5>2 DEF Listed
      <4> QED BY <4>1, <4>2
    <3>4. ListedOK'
      BY <3>1, <3>2, <3>3 DEF ListedOK
    <3>5. RunningJobsRun'
      BY <1>1, <1>e, <1>f, <1>v, <2>1, <2>4, <2>6 DEF RunningJobsRun
    <3> QED BY <2>3, <3>4, <3>5
  <2> QED BY <1>g, <2>5, <2>6
<1> QED BY <1>3, <1>4, <1>5, <1>6 DEF TableOK

\* A program in the foreground.
LEMMA RunStep ==
    ASSUME JobsInv, RunProgram
    PROVE  JobsInv'
<1> USE DEF JobsInv
<1>0. PICK p \in NextPid : /\ proc' = [proc EXCEPT ![p] = "running"]
                           /\ fg_pid' = p /\ target' = p
  BY DEF RunProgram
<1>1. /\ shell = "prompt" /\ shell' = "wait" /\ on_int' = "handler" /\ on_tstp' = "handler"
      /\ UNCHANGED <<table, at, i, members, waits, report, inner, started, spoiled>>
  BY DEF RunProgram, Line, InstallHandlers
<1>2. p \in Pids /\ proc[p] = "unused" /\ \A q \in 1 .. p - 1 : proc[q] # "unused"
  BY DEF NextPid
<1>v. /\ proc \in [Pids -> Moves] /\ proc' \in [Pids -> Moves] /\ proc'[p] = "running"
      /\ \A q \in Pids : q # p => proc'[q] = proc[q]
  BY <1>0, <1>2 DEF TypeOK, Moves
<1>3. TypeOK'
  BY <1>0, <1>1, <1>2, <1>v DEF TypeOK, Moves, table
<1>4. KernelOK'
  <2>1. NewsOK'
    BY <1>1, <1>2, <1>v DEF KernelOK, NewsOK
  <2>2. ForksOK'
    <3> SUFFICES ASSUME NEW q \in Pids, NEW r \in Pids, q < r, proc'[q] = "unused"
                 PROVE  proc'[r] = "unused"
      BY DEF ForksOK
    <3>1. q # p /\ proc[q] = "unused" /\ proc[r] = "unused"
      BY <1>v DEF KernelOK, ForksOK
    <3>2. p <= q
      BY <1>2, <3>1 DEF Pids
    <3>3. r # p
      BY <3>2 DEF Pids
    <3> QED BY <1>v, <3>1, <3>3
  <2>3. StartedOK'
    BY <1>1, <1>v DEF KernelOK, StartedOK, TypeOK
  <2> QED BY <2>1, <2>2, <2>3 DEF KernelOK
<1>5. PipeOK'
  BY <1>1 DEF PipeOK
<1>6. ASSUME spoiled' = {}
      PROVE  ForegroundOK' /\ ListedOK' /\ RunningJobsRun'
  <2>1. spoiled = {} /\ ForegroundOK /\ ListedOK /\ RunningJobsRun
    BY <1>1, <1>6 DEF TableOK
  <2>2. Foreign(p)
    BY <1>2, <2>1, NewIsForeign DEF ListedOK, Foreign
  <2>3. \A k \in DOMAIN jobs : jobs[k].pid \in Pids /\ jobs[k].pid # p
    BY <2>2, TableType DEF Foreign, Listed
  <2>4. jobs' = jobs /\ \A q : Listed(q)' = Listed(q)
    BY <1>1 DEF Listed, table
  <2>5. ListedOK'
    BY <1>1, <1>v, <2>1, <2>2, <2>3, <2>4 DEF ListedOK, Child, Foreign, TypeOK
  <2>6. RunningJobsRun'
    BY <1>1, <1>v, <2>1, <2>3, <2>4 DEF RunningJobsRun
  <2>7. ForegroundOK'
    BY <1>0, <1>1, <1>2, <1>v, <2>2, <2>4 DEF ForegroundOK, Foreign, Child
  <2> QED BY <2>5, <2>6, <2>7
<1> QED BY <1>3, <1>4, <1>5, <1>6 DEF TableOK

\* A pipeline of two programs.
LEMMA PipelineStep ==
    ASSUME JobsInv, Pipeline
    PROVE  JobsInv'
<1> USE DEF JobsInv
<1>0. PICK p \in NextPid : /\ p + 1 \in Pids /\ members' = {p, p + 1}
                           /\ proc' = [proc EXCEPT ![p] = "running", ![p + 1] = "running"]
  BY DEF Pipeline
<1>1. /\ shell = "prompt" /\ shell' = "pipe" /\ waits' = 2
      /\ UNCHANGED <<table, signals, target, at, i, report, inner, started, spoiled>>
  BY DEF Pipeline, Line
<1>2. p \in Pids /\ proc[p] = "unused" /\ \A q \in 1 .. p - 1 : proc[q] # "unused"
  BY DEF NextPid
<1>3. p \in Int /\ p + 1 \in Pids /\ p < p + 1 /\ proc[p + 1] = "unused"
  BY <1>0, <1>2 DEF Pids, KernelOK, ForksOK
<1>v. /\ proc \in [Pids -> Moves] /\ proc' \in [Pids -> Moves]
      /\ proc'[p] = "running" /\ proc'[p + 1] = "running"
      /\ \A q \in Pids : q # p /\ q # p + 1 => proc'[q] = proc[q]
  BY <1>0, <1>2, <1>3 DEF TypeOK, Moves
<1>4. TypeOK'
  BY <1>0, <1>1, <1>2, <1>3, <1>v DEF TypeOK, Moves, table, signals
<1>5. KernelOK'
  <2>1. NewsOK'
    BY <1>1, <1>2, <1>3, <1>v DEF KernelOK, NewsOK
  <2>2. ForksOK'
    <3> SUFFICES ASSUME NEW q \in Pids, NEW r \in Pids, q < r, proc'[q] = "unused"
                 PROVE  proc'[r] = "unused"
      BY DEF ForksOK
    <3>1. q # p /\ q # p + 1 /\ proc[q] = "unused" /\ proc[r] = "unused"
      BY <1>v DEF KernelOK, ForksOK
    <3>2. q \in Int /\ r \in Int /\ p <= q
      BY <1>2, <1>3, <3>1 DEF Pids
    <3>3. r # p /\ r # p + 1
      BY <1>3, <3>1, <3>2
    <3> QED BY <1>v, <3>1, <3>3
  <2>3. StartedOK'
    BY <1>1, <1>v DEF KernelOK, StartedOK, TypeOK
  <2> QED BY <2>1, <2>2, <2>3 DEF KernelOK
<1>6. PipeOK'
  BY <1>1 DEF PipeOK
<1>7. ASSUME spoiled' = {}
      PROVE  ForegroundOK' /\ ListedOK' /\ RunningJobsRun'
  <2>1. spoiled = {} /\ ForegroundOK /\ ListedOK /\ RunningJobsRun
    BY <1>1, <1>7 DEF TableOK
  <2>2. Foreign(p) /\ Foreign(p + 1)
    BY <1>2, <1>3, <2>1, NewIsForeign DEF ListedOK, Foreign
  <2>3. \A k \in DOMAIN jobs : jobs[k].pid \in Pids /\ jobs[k].pid # p /\ jobs[k].pid # p + 1
    BY <2>2, TableType DEF Foreign, Listed
  <2>4. jobs' = jobs /\ \A q : Listed(q)' = Listed(q)
    BY <1>1 DEF Listed, table
  <2>5. ListedOK'
    BY <1>1, <1>v, <2>1, <2>2, <2>3, <2>4 DEF ListedOK, Child, Foreign, TypeOK
  <2>6. RunningJobsRun'
    BY <1>1, <1>v, <2>1, <2>3, <2>4 DEF RunningJobsRun
  <2>7. ForegroundOK'
    BY <1>0, <1>1, <2>1, <2>2, <2>4 DEF ForegroundOK, Foreign, signals
  <2> QED BY <2>5, <2>6, <2>7
<1> QED BY <1>4, <1>5, <1>6, <1>7 DEF TableOK

\* Steps that leave the table as it is: ping, the end of input, Ctrl-C at the
\* program in the foreground, a key at the prompt.
LEMMA SignalStep ==
    ASSUME JobsInv, Ping \/ EndOfInput \/ KeyAtPrompt \/ CtrlC
    PROVE  JobsInv'
<1> USE DEF JobsInv
<1>0. /\ UNCHANGED <<table, fg_pid, target, at, i, members, inner, started, spoiled>> /\ shell # "overrun"
      /\ {on_int', on_tstp'} \subseteq {"ignore", "handler", "default"}
      /\ shell' \in {"check", "exited", "restore", shell, "pipe"} /\ waits' \in 0 .. 2
  <2>1. Ping \/ EndOfInput => shell = "prompt" /\ UNCHANGED <<table, signals, waiting, inner, started, spoiled>>
        /\ shell' \in {"check", "exited"}
    BY DEF Ping, EndOfInput, LogOut, Line
  <2>2. KeyAtPrompt => shell = "prompt" /\ UNCHANGED <<table, fg_pid, waiting, inner, started, spoiled>>
        /\ shell' = "exited" /\ {on_int', on_tstp'} \subseteq {on_int, on_tstp, "default"}
    BY DEF KeyAtPrompt, LogOut
  <2>3. CtrlC => /\ Alive /\ UNCHANGED <<table, fg_pid, on_tstp, target, at, i, members, inner, started, spoiled>>
                 /\ on_int' = "default" /\ shell' \in {"restore", "check", "pipe", shell}
                 /\ waits' \in 0 .. 2
    BY DEF CtrlC, Interrupted, OneWaitLess, PipeOK, TypeOK
  <2> QED BY <2>1, <2>2, <2>3 DEF TypeOK, Alive, waiting, signals
<1>1. Alike
  <2>1. CASE Ping
    <3>1. PICK p \in Pids, sig \in {"KILL", "STOP", "CONT"} : Signalled(p, sig)
      BY <2>1 DEF Ping
    <3> QED BY <3>1, SignalAlike
  <2>2. CASE EndOfInput \/ KeyAtPrompt
    BY <2>2, LogOutAlike DEF EndOfInput, KeyAtPrompt
  <2>3. CASE CtrlC
    <3>1. CASE UNCHANGED <<proc, report>>
      BY <3>1, SameProcesses
    <3>2. CASE fg_pid \in Pids /\ proc[fg_pid] = "running" /\ Dies(fg_pid)
      BY <3>2, DeathAlike
    <3> QED BY <2>3, <3>1, <3>2 DEF CtrlC
  <2> QED BY <2>1, <2>2, <2>3
<1>2. TypeOK'
  BY <1>0, <1>1 DEF TypeOK, Alike, Moves, News, table
<1>3. KernelOK'
  BY <1>0, <1>1, KernelKept
<1>4. PipeOK'
  <2>1. Ping \/ EndOfInput \/ KeyAtPrompt => shell' # "pipe"
    BY DEF Ping, EndOfInput, KeyAtPrompt, LogOut
  <2>2. CtrlC /\ shell' = "pipe" => waits' \in 1 .. 2
    BY <1>0 DEF CtrlC, Interrupted, OneWaitLess, PipeOK, TypeOK
  <2> QED BY <2>1, <2>2 DEF PipeOK
<1>5. ASSUME spoiled' = {}
      PROVE  ForegroundOK' /\ ListedOK' /\ RunningJobsRun'
  <2>1. spoiled = {} /\ ForegroundOK /\ ListedOK /\ RunningJobsRun
    BY <1>0, <1>5 DEF TableOK
  <2>2. ListedOK' /\ RunningJobsRun'
    BY <1>0, <1>1, <2>1, TableStands DEF table
  <2>3. /\ shell' \in {"pipe", "resume", "fg_wait", "wait"} => shell' = shell /\ shell # "wait"
        /\ shell \in {"wait", "restore", "resume"} => shell' \in {"restore", "resume"}
        /\ shell \notin {"killed", "suspended"}
    <3>1. Ping \/ EndOfInput \/ KeyAtPrompt => shell = "prompt" /\ shell' \in {"check", "exited"}
      BY DEF Ping, EndOfInput, KeyAtPrompt, LogOut, Line
    <3>2. CtrlC => /\ Alive
                   /\ \/ shell = "wait" /\ shell' = "restore"
                      \/ shell = "pipe" /\ shell' \in {"check", "pipe"}
                      \/ shell \notin {"wait", "pipe"} /\ shell' = shell
      BY DEF CtrlC, Interrupted, OneWaitLess
    <3> QED BY <3>1, <3>2 DEF Alive
  <2>4. ForegroundOK'
    BY <1>0, <2>1, <2>3 DEF ForegroundOK, Foreign, Listed, table
  <2> QED BY <2>2, <2>4
<1> QED BY <1>2, <1>3, <1>4, <1>5 DEF TableOK

\* fg up to its waitpid.
LEMMA BringStep ==
    ASSUME JobsInv, NEW command, BringToForeground(command)
    PROVE  JobsInv'
<1> USE DEF JobsInv
<1>t. jobs \in Seq(Entries) /\ Len(jobs) \in Nat /\ DOMAIN jobs = 1 .. Len(jobs)
      /\ Len(jobs) <= JobsMax /\ JobsMax \in Nat
      /\ \A k \in DOMAIN jobs : jobs[k] \in Entries /\ jobs[k].pid \in Pids /\ jobs[k].state \in States
  BY TableType, JobsAssumption DEF TypeOK
<1>0. PICK c \in Chosen(command) :
         /\ at' = c[1] /\ i' = c[2] /\ target' = jobs[c[1]].pid
         /\ IF jobs[c[1]].state = "STOPPED"
            THEN /\ fg_pid' = target' /\ InstallHandlers /\ Resume(target')
                 /\ jobs' = [jobs EXCEPT ![c[1]].state = "RUNNING"]
            ELSE UNCHANGED <<signals, proc, report, jobs>>
  BY DEF BringToForeground
<1>1. /\ shell = "prompt" /\ shell' = "resume" /\ jobs # <<>> /\ command \in {"fg", "fg_last"}
      /\ UNCHANGED <<next_job_id, members, waits, inner, started, spoiled>>
  BY DEF BringToForeground, Line
<1>2. c[1] \in DOMAIN jobs /\ c[2] \in 0 .. JobsMax
  <2>0. Len(jobs) # 0
    BY <1>1, <1>t
  <2>1. CASE command = "fg_last"
    <3>1. PICK n \in 1 .. JobsMax : c = <<Len(jobs), n>>
      BY <2>1 DEF Chosen
    <3> QED BY <1>t, <2>0, <3>1
  <2>2. CASE command # "fg_last"
    <3>1. PICK k \in UNION {ById(id) : id \in 1 .. next_job_id - 1} : c = <<k, k>>
      BY <2>2 DEF Chosen
    <3>2. k \in DOMAIN jobs
      BY <3>1 DEF ById
    <3> QED BY <1>t, <3>1, <3>2
  <2> QED BY <2>1, <2>2
<1> DEFINE k == c[1]
<1>3. /\ at' = k /\ k \in DOMAIN jobs /\ target' = jobs[k].pid /\ target' \in Pids /\ i' \in 0 .. JobsMax
      /\ \/ /\ jobs[k].state = "STOPPED" /\ fg_pid' = target' /\ on_int' = "handler" /\ on_tstp' = "handler"
            /\ Resume(target') /\ jobs' = WithState(k, "RUNNING")
         \/ UNCHANGED <<signals, proc, report, jobs>>
  BY <1>0, <1>2, <1>t DEF InstallHandlers, WithState
<1> HIDE DEF k
<1>4. /\ DOMAIN jobs' = DOMAIN jobs /\ jobs' \in Seq(Entries) /\ Len(jobs') = Len(jobs)
      /\ \A l \in DOMAIN jobs : /\ jobs'[l].pid = jobs[l].pid
                                /\ jobs'[l].state # jobs[l].state => l = k /\ jobs[k].state = "STOPPED"
  <2>1. /\ WithState(k, "RUNNING") \in Seq(Entries) /\ Len(WithState(k, "RUNNING")) = Len(jobs)
        /\ DOMAIN WithState(k, "RUNNING") = DOMAIN jobs
        /\ \A l \in DOMAIN jobs :
              /\ WithState(k, "RUNNING")[l].pid = jobs[l].pid
              /\ WithState(k, "RUNNING")[l].state = IF l = k THEN "RUNNING" ELSE jobs[l].state
    BY <1>t, ChangedFacts DEF States
  <2> QED BY <1>3, <1>t, <2>1
<1>5. Alike
  <2>1. PICK p \in Pids : p = target'
    BY <1>3
  <2>2. CASE Resume(p)
    BY <2>1, <2>2, SignalAlike DEF Resume
  <2>3. CASE UNCHANGED <<proc, report>>
    BY <2>3, SameProcesses
  <2> QED BY <1>3, <2>1, <2>2, <2>3
<1>6. TypeOK'
  BY <1>1, <1>3, <1>4, <1>5, <1>t DEF TypeOK, Alike, Entries, States, Moves, News, signals
<1>7. KernelOK'
  BY <1>1, <1>5, KernelKept
<1>8. PipeOK'
  BY <1>1 DEF PipeOK
<1>9. ASSUME spoiled' = {}
      PROVE  ForegroundOK' /\ ListedOK' /\ RunningJobsRun'
  <2>1. spoiled = {} /\ ForegroundOK /\ ListedOK /\ RunningJobsRun
    BY <1>1, <1>9 DEF TableOK
  <2>2. \A q : Listed(q)' = Listed(q)
    BY <1>4 DEF Listed
  <2>3. ListedOK'
    BY <1>1, <1>4, <1>5, <1>t, <2>1, <2>2 DEF ListedOK, Unique, Alike, TypeOK
  <2>4. jobs[k].state = "STOPPED" => Runs(jobs[k].pid)' \/ jobs' = jobs
    <3>1. PICK p \in Pids : p = jobs[k].pid /\ Child(p)
      BY <1>3, <2>1 DEF ListedOK
    <3>2. CASE Resume(p)
      BY <1>4, <3>1, <3>2, ResumedRuns, <1>3
    <3> QED BY <1>3, <3>1, <3>2
  <2>5. RunningJobsRun'
    BY <1>3, <1>4, <1>5, <1>t, <2>1, <2>4 DEF RunningJobsRun, Alike, Runs
  <2>6. ForegroundOK'
    BY <1>1, <1>3, <1>4 DEF ForegroundOK
  <2> QED BY <2>3, <2>5, <2>6
<1> QED BY <1>6, <1>7, <1>8, <1>9 DEF TableOK

\* bg.
LEMMA BgStep ==
    ASSUME JobsInv, do_bg
    PROVE  JobsInv'
<1> USE DEF JobsInv
<1>t. jobs \in Seq(Entries) /\ Len(jobs) \in Nat /\ DOMAIN jobs = 1 .. Len(jobs)
      /\ Len(jobs) <= JobsMax /\ JobsMax \in Nat
      /\ \A k \in DOMAIN jobs : jobs[k] \in Entries /\ jobs[k].pid \in Pids /\ jobs[k].state \in States
  BY TableType, JobsAssumption DEF TypeOK
<1>0. PICK k \in DOMAIN jobs : /\ jobs[k].state = "STOPPED" /\ Resume(jobs[k].pid)
                               /\ jobs' = WithState(k, "RUNNING")
  BY DEF do_bg, WithState
<1>1. /\ shell = "prompt" /\ shell' = "check"
      /\ UNCHANGED <<next_job_id, signals, waiting, inner, started, spoiled>>
  BY DEF do_bg, Line
<1>2. /\ DOMAIN jobs' = DOMAIN jobs /\ jobs' \in Seq(Entries) /\ Len(jobs') = Len(jobs)
      /\ \A l \in DOMAIN jobs : /\ jobs'[l].pid = jobs[l].pid
                                /\ jobs'[l].state = IF l = k THEN "RUNNING" ELSE jobs[l].state
  BY <1>0, <1>t, ChangedFacts DEF States
<1>3. Alike
  BY <1>0, <1>t, SignalAlike DEF Resume
<1>4. TypeOK'
  BY <1>1, <1>2, <1>3, <1>t DEF TypeOK, Alike, Entries, States, Moves, News, signals, waiting
<1>5. KernelOK'
  BY <1>1, <1>3, KernelKept
<1>6. PipeOK'
  BY <1>1 DEF PipeOK
<1>7. ASSUME spoiled' = {}
      PROVE  ForegroundOK' /\ ListedOK' /\ RunningJobsRun'
  <2>1. spoiled = {} /\ ForegroundOK /\ ListedOK /\ RunningJobsRun
    BY <1>1, <1>7 DEF TableOK
  <2>2. \A q : Listed(q)' = Listed(q)
    BY <1>2 DEF Listed
  <2>3. ListedOK'
    BY <1>1, <1>2, <1>3, <1>t, <2>1, <2>2 DEF ListedOK, Unique, Alike, TypeOK
  <2>4. Runs(jobs[k].pid)' \/ jobs' = jobs
    <3>1. PICK p \in Pids : p = jobs[k].pid /\ Child(p) /\ Resume(p)
      BY <1>0, <1>t, <2>1 DEF ListedOK
    <3>2. Runs(p)'
      BY <3>1, ResumedRuns
    <3>3. proc'[p] = "running" \/ report'[p] # "none"
      BY <3>2 DEF Runs
    <3>4. jobs'[k].pid = p /\ jobs[k].pid = p
      BY <1>2, <3>1
    <3> QED BY <3>2, <3>4 DEF Runs
  <2>5. RunningJobsRun'
    BY <1>2, <1>3, <1>t, <2>1, <2>4 DEF RunningJobsRun, Alike, Runs
  <2>6. ForegroundOK'
    BY <1>1, <2>1 DEF ForegroundOK, signals
  <2> QED BY <2>3, <2>5, <2>6
<1> QED BY <1>4, <1>5, <1>6, <1>7 DEF TableOK

\* activities puts the same jobs in another order.
LEMMA ActivitiesStep ==
    ASSUME JobsInv, Activities
    PROVE  JobsInv'
<1> USE DEF JobsInv
<1>t. jobs \in Seq(Entries) /\ Len(jobs) \in Nat /\ DOMAIN jobs = 1 .. Len(jobs)
      /\ Len(jobs) <= JobsMax /\ JobsMax \in Nat
      /\ \A k \in DOMAIN jobs : jobs[k] \in Entries /\ jobs[k].pid \in Pids /\ jobs[k].state \in States
  BY TableType, JobsAssumption DEF TypeOK
<1>0. PICK f \in Bijection(DOMAIN jobs, DOMAIN jobs) : jobs' = [k \in DOMAIN jobs |-> jobs[f[k]]]
  BY DEF Activities
<1>1. /\ shell = "prompt" /\ shell' = "check"
      /\ UNCHANGED <<next_job_id, signals, waiting, world, spoiled>>
  BY DEF Activities, Line
<1>2. /\ \A k \in DOMAIN jobs : f[k] \in DOMAIN jobs
      /\ \A k, l \in DOMAIN jobs : f[k] = f[l] => k = l
      /\ \A l \in DOMAIN jobs : \E k \in DOMAIN jobs : f[k] = l
  BY DEF Bijection, Injection, Surjection, IsInjective
<1>3. DOMAIN jobs' = DOMAIN jobs /\ \A k \in DOMAIN jobs : jobs'[k] = jobs[f[k]]
  BY <1>0
<1>4. jobs' \in [1 .. Len(jobs) -> Entries]
  BY <1>0, <1>2, <1>t
<1>5. jobs' \in Seq(Entries) /\ Len(jobs') = Len(jobs)
  BY <1>4, <1>t
<1>6. Alike
  BY <1>1, SameProcesses DEF world
<1>7. TypeOK'
  BY <1>1, <1>5, <1>t DEF TypeOK, Entries, States, signals, waiting, world
<1>8. KernelOK'
  BY <1>1, <1>6, KernelKept DEF world
<1>9. PipeOK'
  BY <1>1 DEF PipeOK
<1>10. ASSUME spoiled' = {}
       PROVE  ForegroundOK' /\ ListedOK' /\ RunningJobsRun'
  <2>1. spoiled = {} /\ ForegroundOK /\ ListedOK /\ RunningJobsRun
    BY <1>1, <1>10 DEF TableOK
  <2>2. Unique(jobs')
    <3> SUFFICES ASSUME NEW k \in DOMAIN jobs, NEW l \in DOMAIN jobs, jobs'[k].pid = jobs'[l].pid
                 PROVE  k = l
      BY <1>3 DEF Unique
    <3>1. f[k] \in DOMAIN jobs /\ f[l] \in DOMAIN jobs /\ jobs[f[k]].pid = jobs[f[l]].pid
      BY <1>2, <1>3
    <3>2. f[k] = f[l]
      BY <2>1, <3>1 DEF ListedOK, Unique
    <3> QED BY <1>2, <3>2
  <2>3. ASSUME NEW k \in DOMAIN jobs'
        PROVE  Child(jobs[k].pid)'
    <3>1. k \in DOMAIN jobs /\ f[k] \in DOMAIN jobs /\ jobs'[k] = jobs[f[k]]
      BY <1>2, <1>3
    <3>2. Child(jobs[f[k]].pid)
      BY <2>1, <3>1 DEF ListedOK
    <3> QED BY <1>1, <3>1, <3>2 DEF Child, world
  <2>4. ASSUME NEW q, Listed(q) # {}
        PROVE  Listed(q)' # {}
    <3>1. PICK l \in DOMAIN jobs : jobs[l].pid = q
      BY <2>4 DEF Listed
    <3>2. PICK k \in DOMAIN jobs : f[k] = l
      BY <1>2
    <3>3. k \in DOMAIN jobs' /\ jobs'[k].pid = q
      BY <1>3, <3>1, <3>2
    <3> QED BY <3>3 DEF Listed
  <2>5. ListedOK'
    BY <1>1, <2>1, <2>2, <2>3, <2>4 DEF ListedOK, Child, world
  <2>6. RunningJobsRun'
    <3> SUFFICES ASSUME NEW k \in DOMAIN jobs, jobs'[k].state = "RUNNING"
                 PROVE  proc'[jobs'[k].pid] = "running" \/ report'[jobs'[k].pid] # "none"
      BY <1>3 DEF RunningJobsRun
    <3>1. f[k] \in DOMAIN jobs /\ jobs'[k] = jobs[f[k]]
      BY <1>2, <1>3
    <3>2. proc[jobs[f[k]].pid] = "running" \/ report[jobs[f[k]].pid] # "none"
      BY <2>1, <3>1 DEF RunningJobsRun
    <3> QED BY <1>1, <3>1, <3>2 DEF world
  <2>7. ForegroundOK'
    BY <1>1, <2>1 DEF ForegroundOK, signals
  <2> QED BY <2>5, <2>6, <2>7
<1> QED BY <1>7, <1>8, <1>9, <1>10 DEF TableOK

-----------------------------------------------------------------------------
(* The keys. *)

\* Ctrl-Z lists the program in the foreground as stopped.
LEMMA CtrlZStep ==
    ASSUME JobsInv, CtrlZ
    PROVE  JobsInv'
<1> USE DEF JobsInv
<1>t. jobs \in Seq(Entries) /\ Len(jobs) \in Nat /\ DOMAIN jobs = 1 .. Len(jobs)
      /\ Len(jobs) <= JobsMax /\ JobsMax \in Nat
      /\ \A k \in DOMAIN jobs : jobs[k] \in Entries /\ jobs[k].pid \in Pids /\ jobs[k].state \in States
  BY TableType, JobsAssumption DEF TypeOK
<1>0. /\ Alive /\ on_tstp' = "default" /\ ListForeground /\ UNCHANGED <<on_int, target, at, i, members, world>>
      /\ \/ shell = "wait" /\ shell' = "restore" /\ waits' = waits
         \/ shell = "pipe" /\ waits' = waits - 1 /\ shell' = IF waits' = 0 THEN "check" ELSE "pipe"
         \/ shell \notin {"wait", "pipe", "prompt", "fg_wait"} /\ shell' = shell /\ waits' = waits
  BY DEF CtrlZ, Interrupted, OneWaitLess
<1>1. waits' \in 0 .. 2 /\ PipeOK'
  BY <1>0 DEF PipeOK, TypeOK
<1> DEFINE e == Job(fg_pid, 0, "STOPPED")
<1>2. \/ UNCHANGED <<table, fg_pid, spoiled>> /\ fg_pid \notin Pids
      \/ /\ fg_pid \in Pids /\ fg_pid' = NoPid
         /\ \/ UNCHANGED table
            \/ RoomForOne /\ jobs' = Append(jobs, e) /\ next_job_id' = next_job_id + 1
         /\ spoiled' = spoiled \cup (IF shell = "restore" THEN {"late"} ELSE {})
                               \cup (IF shell = "resume" THEN {"twice"} ELSE {})
  BY <1>0 DEF ListForeground
<1>3. fg_pid \in Pids => e \in Entries /\ e.pid = fg_pid /\ e.state = "STOPPED"
  BY DEF TypeOK, Entries, States, Job
<1>4. fg_pid \in Pids =>
      /\ Append(jobs, e) \in Seq(Entries) /\ Len(Append(jobs, e)) = Len(jobs) + 1
      /\ DOMAIN Append(jobs, e) = DOMAIN jobs \cup {Len(jobs) + 1}
      /\ Len(jobs) + 1 \notin DOMAIN jobs /\ Append(jobs, e)[Len(jobs) + 1] = e
      /\ \A k \in DOMAIN jobs : Append(jobs, e)[k] = jobs[k]
      /\ Unique(jobs) /\ (\A k \in DOMAIN jobs : jobs[k].pid # e.pid) => Unique(Append(jobs, e))
  BY <1>3, <1>t, AppendFacts
<1> HIDE DEF e
<1>5. TypeOK'
  <2>1. jobs' \in Seq(Entries) /\ Len(jobs') <= JobsMax /\ next_job_id' \in Nat
    <3>1. CASE UNCHANGED table
      BY <1>t, <3>1 DEF table, TypeOK
    <3>2. CASE /\ fg_pid \in Pids /\ RoomForOne
               /\ jobs' = Append(jobs, e) /\ next_job_id' = next_job_id + 1
      BY <1>4, <1>t, <3>2 DEF RoomForOne, TypeOK
    <3> QED BY <1>2, <3>1, <3>2
  <2>2. spoiled' \subseteq {"theft", "index", "status", "late", "twice"} /\ fg_pid' \in Pids \cup {NoPid, ShellPid}
    BY <1>2 DEF TypeOK
  <2> QED BY <1>0, <1>1, <2>1, <2>2 DEF TypeOK, Entries, States, world
<1>6. KernelOK'
  BY <1>0, SameProcesses, KernelKept DEF world
<1>7. ASSUME spoiled' = {}
      PROVE  ForegroundOK' /\ ListedOK' /\ RunningJobsRun'
  <2>1. spoiled = {} /\ ForegroundOK /\ ListedOK /\ RunningJobsRun
    BY <1>2, <1>7 DEF TableOK
  <2>2. shell' # "overrun" /\ shell # "overrun" /\ shell \notin {"killed", "suspended"}
    BY <1>0 DEF Alive
  <2>3. CASE UNCHANGED <<table, fg_pid, spoiled>> /\ fg_pid \notin Pids
    <3>1. ListedOK' /\ RunningJobsRun'
      BY <1>0, <2>1, <2>2, <2>3, SameProcesses, TableStands DEF table, world
    <3>2. ForegroundOK'
      BY <1>0, <2>1, <2>3 DEF ForegroundOK, Foreign, Listed, table, world
    <3> QED BY <3>1, <3>2
  <2>4. CASE fg_pid \in Pids /\ fg_pid' = NoPid
    <3>1. shell = "wait" /\ shell' = "restore" /\ NoPid \notin Pids
      BY <1>0, <1>2, <1>7, <2>1, <2>2, <2>4, JobsAssumption DEF ForegroundOK
    <3>2. Child(fg_pid) /\ Foreign(fg_pid)
      BY <2>1, <3>1 DEF ForegroundOK
    <3>3. ForegroundOK'
      BY <2>4, <3>1 DEF ForegroundOK
    <3>4. CASE UNCHANGED table
      <4>1. ListedOK' /\ RunningJobsRun'
        BY <1>0, <2>1, <2>2, <3>4, SameProcesses, TableStands DEF table, world
      <4> QED BY <3>3, <4>1
    <3>5. CASE jobs' = Append(jobs, e)
      <4>1. \A k \in DOMAIN jobs : jobs[k].pid # fg_pid
        BY <3>2 DEF Foreign, Listed
      <4>2. Unique(jobs')
        BY <1>3, <1>4, <2>1, <2>4, <3>5, <4>1 DEF ListedOK
      <4>3. \A k \in DOMAIN jobs' : Child(jobs[k].pid)'
        BY <1>0, <1>3, <1>4, <2>1, <2>4, <3>2, <3>5 DEF ListedOK, Child, world
      <4>4. \A q : Listed(q) # {} => Listed(q)' # {}
        BY <1>4, <2>4, <3>5 DEF Listed
      <4>5. ListedOK'
        BY <1>0, <2>1, <2>2, <4>2, <4>3, <4>4 DEF ListedOK, Child, world
      <4>6. RunningJobsRun'
        BY <1>0, <1>3, <1>4, <2>1, <2>4, <3>5 DEF RunningJobsRun, world
      <4> QED BY <3>3, <4>5, <4>6
    <3> QED BY <1>2, <2>4, <3>4, <3>5
  <2> QED BY <1>2, <2>3, <2>4
<1> QED BY <1>1, <1>5, <1>6, <1>7 DEF TableOK

\* A key while do_fg waits.
LEMMA KeyInFgStep ==
    ASSUME JobsInv, KeyInFg
    PROVE  JobsInv'
<1> USE DEF JobsInv
<1>0. /\ shell' = "check" /\ fg_pid' = NoPid /\ GarbageStatus
      /\ {on_int', on_tstp'} \subseteq {on_int, on_tstp, "default"}
      /\ UNCHANGED <<next_job_id, waiting, world>>
  BY DEF KeyInFg, LeaveFg
<1>1. jobs' \in Seq(Entries) /\ Len(jobs') <= JobsMax
      /\ spoiled' # {} /\ spoiled' \subseteq {"theft", "index", "status", "late", "twice"}
  BY <1>0, GarbageType
<1>2. TypeOK'
  BY <1>0, <1>1 DEF TypeOK, Entries, States, waiting, world
<1>3. KernelOK'
  BY <1>0, SameProcesses, KernelKept DEF world
<1>4. PipeOK'
  BY <1>0 DEF PipeOK
<1> QED BY <1>1, <1>2, <1>3, <1>4 DEF TableOK

-----------------------------------------------------------------------------
(* The theorems. *)

\* The empty table of the start is exact.
LEMMA InitInv == Init => JobsInv
<1> SUFFICES ASSUME Init PROVE JobsInv
  OBVIOUS
<1>1. jobs = <<>> /\ DOMAIN jobs = {} /\ Len(jobs) = 0 /\ jobs \in Seq(Entries)
  BY DEF Init
<1>2. TypeOK
  BY <1>1, JobsAssumption DEF Init, TypeOK, Entries, States
<1>3. KernelOK
  BY DEF Init, KernelOK, NewsOK, ForksOK, StartedOK
<1>4. PipeOK /\ TableOK
  BY <1>1, JobsAssumption DEF Init, PipeOK, TableOK, ForegroundOK, ListedOK, RunningJobsRun, Unique
<1> QED BY <1>2, <1>3, <1>4 DEF JobsInv

\* Every step of the shell, the user, the keys and the processes keeps the invariant.
LEMMA NextInv == JobsInv /\ [Next]_vars => JobsInv'
<1> SUFFICES ASSUME JobsInv, [Next]_vars PROVE JobsInv'
  OBVIOUS
<1>1. CASE Proceeds
  BY <1>1, CheckJobStep, QuietStep, WaitOverStep, PipeWaitStep, FgOverStep DEF Proceeds
<1>2. CASE Types
  BY <1>2, QuietStep, StartStep, RunStep, PipelineStep, BringStep, BgStep, SignalStep, ActivitiesStep DEF Types
<1>3. CASE Keys
  BY <1>3, QuietStep, SignalStep, CtrlZStep, KeyInFgStep DEF Keys
<1>4. CASE Processes
  BY <1>4, ProcessStep DEF Processes
<1>5. CASE UNCHANGED vars
  <2>1. /\ TypeOK' = TypeOK /\ KernelOK' = KernelOK /\ PipeOK' = PipeOK
        /\ spoiled' = spoiled /\ ForegroundOK' = ForegroundOK /\ ListedOK' = ListedOK
        /\ RunningJobsRun' = RunningJobsRun
    BY <1>5 DEF vars, table, signals, waiting, world, bounds, TypeOK, KernelOK, NewsOK, ForksOK, StartedOK,
       PipeOK, ForegroundOK, Foreign, ListedOK, Unique, Listed, Child, RunningJobsRun
  <2> QED BY <2>1 DEF JobsInv, TableOK
<1> QED BY <1>1, <1>2, <1>3, <1>4, <1>5 DEF Next

\* It holds always.
LEMMA InvAlways == Spec => []JobsInv
BY InitInv, NextInv, PTL DEF Spec

\* Every variable stays within its values: the table never grows beyond its array,
\* whatever is typed, stopped or interrupted.
THEOREM TypeCorrect == Spec => []TypeOK
<1>1. JobsInv => TypeOK
  BY DEF JobsInv
<1> QED BY <1>1, InvAlways, PTL

\* Until something spoils it, at the prompt and in check_jobs the table has one entry
\* for each child started with "&" and none for a process that was waited for.
THEOREM TableIsExact == Spec => []TableExact
<1>1. JobsInv => TableExact
  <2> SUFFICES ASSUME JobsInv, spoiled = {}, shell \in {"check", "prompt"}, NEW p \in Pids
               PROVE  /\ Cardinality(Listed(p)) <= 1
                      /\ Listed(p) # {} => Child(p)
                      /\ p \in started /\ Child(p) => Listed(p) # {}
    BY DEF TableExact
  <2>1. ListedOK
    BY DEF JobsInv, TableOK
  <2>2. Listed(p) = {} \/ \E k : Listed(p) = {k}
    <3>1. \A k, l \in Listed(p) : k = l
      BY <2>1 DEF ListedOK, Unique, Listed
    <3> QED BY <3>1
  <2>3. Cardinality(Listed(p)) <= 1
    <3>1. CASE Listed(p) = {}
      <4>1. Cardinality(Listed(p)) = 0
        BY <3>1, FS_EmptySet, Zenon
      <4> QED BY <4>1
    <3>2. ASSUME NEW k, Listed(p) = {k}
          PROVE  Cardinality(Listed(p)) <= 1
      <4>1. Cardinality({k}) = 1
        BY FS_Singleton, Zenon
      <4> QED BY <3>2, <4>1
    <3> QED BY <2>2, <3>1, <3>2
  <2> QED BY <2>1, <2>3 DEF ListedOK, Listed
<1> QED BY <1>1, InvAlways, PTL

\* Until then a job listed as running does run, unless the kernel's news of it is unread.
THEOREM RunningJobsDoRun == Spec => []RunningJobsRun
<1>1. JobsInv => RunningJobsRun
  BY DEF JobsInv, TableOK, RunningJobsRun
<1> QED BY <1>1, InvAlways, PTL
=============================================================================
