---------------------------- MODULE BakeryProofs ----------------------------
(***************************************************************************)
(* Theorems about Bakery, for any number of arrivals, chefs and seats: its *)
(* types; its two mutexes, of which payment_mutex protects the register in *)
(* all circumstances and `lock' its sections until a thread releases it    *)
(* for another one; and what it counts: each cake asked for is baked once, *)
(* and until `lock' is stolen the two counters are the numbers of the      *)
(* customers they stand for.  When nobody has to stand, also: `lock' is    *)
(* not stolen and every pointer is good until the shutdown, and the        *)
(* threads implement BakeryService.                                        *)
(***************************************************************************)
EXTENDS BakeryRefinement, TLAPS, FiniteSetTheorems, WellFoundedInduction

Local == [q : Queues, node : Customers \cup {None}, reg : Int]
QueueType == [head : Customers \cup {None}, tail : Customers \cup {None}, size : Int]

\* While main handles an arrival there is one.
ArrivalPending == pc[Main] \in {"arrive", "admit", "count", "create", "created"} => cur <= Arrivals

TypeInv == TypeOK /\ ArrivalPending

(***************************************************************************)
(* The kinds of steps keep the types.                                      *)
(***************************************************************************)

\* The labels that AfterLock relates.
LEMMA AfterLockLabels ==
    /\ DOMAIN AfterLock = {"lock", "chef_wake", "standing_wake", "sit_lock", "join_lock",
                           "pay_lock", "leave_lock", "arrive", "close"}
    /\ \A l \in DOMAIN AfterLock : AfterLock[l] \in {"check", "my_turn", "sit", "push", "leave",
                                                     "admit", "shutdown"}
    /\ \A l \in DOMAIN AfterLock : AfterLock[l] = "admit" => l = "arrive"
BY DEF AfterLock

\* A step that only moves one thread.
LEMMA JumpsType ==
    ASSUME TypeInv, NEW t \in Threads, NEW from, NEW to \in Labels, Jumps(t, from, to),
           t = Main => to \notin {"arrive", "admit", "count", "create", "created"}
    PROVE  TypeInv'
BY DEF TypeInv, TypeOK, ArrivalPending, Jumps, Goto, mutexes, counters, lists, control

\* A step that changes the locals of one thread.
LEMMA SetsType ==
    ASSUME TypeInv, NEW t \in Threads, NEW from, NEW to \in Labels, NEW locals \in Local,
           Sets(t, from, to, locals),
           t = Main => to = "count" /\ from = "admit"
    PROVE  TypeInv'
BY DEF TypeInv, TypeOK, ArrivalPending, Sets, At, Goto, Local, mutexes, counters, lists, control

\* A step of the semaphores.
LEMMA SignalsType ==
    ASSUME TypeInv, NEW t \in Threads, NEW from, NEW to \in Labels,
           NEW semaphores \in [Semaphores -> [Customers -> Nat]],
           Signals(t, from, to, semaphores), t # Main
    PROVE  TypeInv'
BY DEF TypeInv, TypeOK, ArrivalPending, Signals, Goto, mutexes, counters, lists, control

\* A step that releases `lock'.
LEMMA UnlocksType ==
    ASSUME TypeInv, NEW t \in Threads, NEW from, NEW to \in Labels,
           Unlocks(t, from, to), t # Main
    PROVE  TypeInv'
BY DEF TypeInv, TypeOK, ArrivalPending, Unlocks, Release, Goto, counters, lists, control

\* A step on a queue.
LEMMA LinksType ==
    ASSUME TypeInv, NEW t \in Threads, NEW from, NEW to \in Labels,
           NEW queues \in [Queues -> QueueType],
           NEW nexts \in [Customers -> Customers \cup {None}], NEW size \in Int,
           Links(t, from, to, queues, nexts, size), t # Main
    PROVE  TypeInv'
<1>1. loc' \in [Threads -> Local]
  BY ZenonT(30) DEF TypeInv, TypeOK, Links, Local
<1>2. pc' \in [Threads -> Labels] /\ ArrivalPending'
  BY DEF TypeInv, TypeOK, ArrivalPending, Links, Goto, control
<1>3. UNCHANGED <<lock, payment_mutex, stolen, current_customers, sofa_occupied, sem,
                  shutdown_flag, cur, process, spurious>>
  BY DEF Links, mutexes, counters, control
<1> QED BY <1>1, <1>2, <1>3 DEF TypeInv, TypeOK, Links, QueueType, Local

\* A broadcast moves the threads it wakes from label to label.
LEMMA BroadcastType ==
    ASSUME TypeInv, NEW t \in Threads, NEW to \in Labels, NEW cvs, BroadcastAndGoto(t, to, cvs)
    PROVE  /\ pc' \in [Threads -> Labels]
           /\ pc'[t] = to
           /\ t # Main => pc'[Main] = pc[Main] \/ pc'[Main] \in {"chef_wake", "standing_wake"}
<1>1. {"chef_wake", "standing_wake"} \subseteq Labels
  BY AfterLockLabels DEF Labels
<1>2. Main \in Threads
  BY DEF Threads
<1> QED BY <1>1, <1>2 DEF TypeInv, TypeOK, BroadcastAndGoto, Woken

\* What the locals and the queues of a thread hold.
LEMMA LocalTypes ==
    ASSUME TypeInv, NEW t \in Threads
    PROVE  /\ loc[t] \in Local
           /\ loc[t].q \in Queues /\ loc[t].node \in Customers \cup {None} /\ loc[t].reg \in Int
           /\ \A q \in Queues : /\ queue[q] \in QueueType
                                /\ queue[q].head \in Customers \cup {None}
                                /\ queue[q].tail \in Customers \cup {None}
                                /\ queue[q].size \in Int
BY DEF TypeInv, TypeOK, Local, QueueType

(***************************************************************************)
(* Every action keeps the types.                                           *)
(***************************************************************************)

\* The labels that are written out in the actions.
LEMMA LabelFacts ==
    /\ Pushing \subseteq Labels /\ Popping \subseteq Labels /\ Locked \subseteq Labels
    /\ {"top", "lock", "check", "pick", "fell", "chef_cv", "popped", "register", "accept", "serve",
        "await_start", "bake", "exit"} \subseteq Labels
    /\ {"refused", "enters", "peek_queue", "standing_cv", "sit_lock", "join_lock", "await_served",
        "await_bake", "pay_lock", "await_payment", "leave_lock", "free", "gone"} \subseteq Labels
    /\ {"arrive", "join", "close", "join_chefs", "chef_wake", "standing_wake"} \subseteq Labels
BY AfterLockLabels DEF Labels, Locked

\* The sets of threads and their identifiers.
LEMMA ThreadFacts ==
    /\ Main \in Threads /\ Customers \subseteq Threads /\ Chefs \subseteq Threads
    /\ \A t \in Customers \cup Chefs : t # Main
    /\ None \notin Threads
BY BakeryAssumption DEF Threads

\* q_push keeps the types.
LEMMA QPushType ==
    ASSUME TypeInv, NEW t \in Customers, QPush(t)
    PROVE  TypeInv'
<1> DEFINE q == loc[t].q  x == loc[t].node
<1> USE LocalTypes, LabelFacts, ThreadFacts
<1>0. /\ t \in Threads /\ t # Main /\ q \in Queues
      /\ queue \in [Queues -> QueueType] /\ next \in [Customers -> Customers \cup {None}]
  BY DEF TypeInv, TypeOK, QueueType
<1>1. CASE Links(t, "push", IF queue[q].tail = None THEN "link_first" ELSE "load_tail",
                 queue, [next EXCEPT ![t] = None], loc[t].reg)
  BY <1>0, <1>1, LinksType DEF Pushing
<1>2. CASE Links(t, "link_first", "push_size", [queue EXCEPT ![q].head = t, ![q].tail = t],
                 next, queue[q].size)
  <2>1. [queue EXCEPT ![q].head = t, ![q].tail = t] \in [Queues -> QueueType]
    BY <1>0 DEF QueueType
  <2> QED BY <1>0, <1>2, <2>1, LinksType DEF Pushing
<1>3. CASE Sets(t, "load_tail", "link_next", [loc[t] EXCEPT !.node = queue[q].tail])
  <2>1. [loc[t] EXCEPT !.node = queue[q].tail] \in Local
    BY <1>0 DEF Local
  <2> QED BY <1>0, <1>3, <2>1, SetsType DEF Pushing
<1>4. CASE Alive(x) /\ Links(t, "link_next", "link_tail", queue, [next EXCEPT ![x] = t], loc[t].reg)
  <2>1. [next EXCEPT ![x] = t] \in [Customers -> Customers \cup {None}]
    BY <1>0
  <2> QED BY <1>0, <1>4, <2>1, LinksType DEF Pushing
<1>5. CASE Links(t, "link_tail", "push_size", [queue EXCEPT ![q].tail = t], next, queue[q].size)
  <2>1. [queue EXCEPT ![q].tail = t] \in [Queues -> QueueType]
    BY <1>0 DEF QueueType
  <2> QED BY <1>0, <1>5, <2>1, LinksType DEF Pushing
<1>6. CASE Links(t, "push_size", "pushed", [queue EXCEPT ![q].size = loc[t].reg + 1],
                 next, loc[t].reg)
  <2>1. [queue EXCEPT ![q].size = loc[t].reg + 1] \in [Queues -> QueueType]
    BY <1>0 DEF QueueType
  <2> QED BY <1>0, <1>6, <2>1, LinksType DEF Pushing
<1> QED BY <1>1, <1>2, <1>3, <1>4, <1>5, <1>6 DEF QPush

\* q_pop keeps the types.
LEMMA QPopType ==
    ASSUME TypeInv, NEW t \in Customers \cup Chefs, QPop(t)
    PROVE  TypeInv'
<1> DEFINE q == loc[t].q  x == loc[t].node
<1> USE LocalTypes, LabelFacts, ThreadFacts
<1>0. /\ t \in Threads /\ t # Main /\ q \in Queues
      /\ queue \in [Queues -> QueueType] /\ next \in [Customers -> Customers \cup {None}]
      /\ AfterPop(t) \in Labels
  BY DEF TypeInv, TypeOK, QueueType, AfterPop, Locked
<1>1. CASE Sets(t, "pop", IF queue[q].head = None THEN AfterPop(t) ELSE "pop_head",
                [loc[t] EXCEPT !.node = queue[q].head])
  <2>1. [loc[t] EXCEPT !.node = queue[q].head] \in Local
    BY <1>0 DEF Local
  <2> QED BY <1>0, <1>1, <2>1, SetsType DEF Popping
<1>2. CASE Alive(x) /\ Links(t, "pop_head", "pop_tail", [queue EXCEPT ![q].head = next[x]],
                             next, loc[t].reg)
  <2>1. x \in Customers
    BY <1>0, <1>2 DEF Alive
  <2>2. [queue EXCEPT ![q].head = next[x]] \in [Queues -> QueueType]
    BY <1>0, <2>1 DEF QueueType
  <2> QED BY <1>0, <1>2, <2>2, LinksType DEF Popping
<1>3. CASE Alive(x) /\ Links(t, "pop_tail", "pop_size",
                             [queue EXCEPT ![q].tail = IF queue[q].head = None THEN None ELSE @],
                             [next EXCEPT ![x] = None], queue[q].size)
  <2>1. [queue EXCEPT ![q].tail = IF queue[q].head = None THEN None ELSE @]
          \in [Queues -> QueueType]
    BY <1>0 DEF QueueType
  <2>2. [next EXCEPT ![x] = None] \in [Customers -> Customers \cup {None}]
    BY <1>0
  <2> QED BY <1>0, <1>3, <2>1, <2>2, LinksType DEF Popping
<1>4. CASE Links(t, "pop_size", AfterPop(t), [queue EXCEPT ![q].size = loc[t].reg - 1],
                 next, loc[t].reg)
  <2>1. [queue EXCEPT ![q].size = loc[t].reg - 1] \in [Queues -> QueueType]
    BY <1>0 DEF QueueType
  <2> QED BY <1>0, <1>4, <2>1, LinksType
<1> QED BY <1>1, <1>2, <1>3, <1>4 DEF QPop

\* Posting and waiting on a semaphore keep the semaphores typed.
LEMMA SemTypes ==
    ASSUME TypeInv, NEW s \in Semaphores, NEW c \in Customers
    PROVE  /\ Post(s, c) \in [Semaphores -> [Customers -> Nat]]
           /\ sem[s][c] \in Nat
           /\ sem[s][c] > 0 => Wait(s, c) \in [Semaphores -> [Customers -> Nat]]
BY DEF TypeInv, TypeOK, Post, Wait

\* A chef's steps keep the types.
LEMMA ChefType ==
    ASSUME TypeInv, NEW k \in Chefs, Chef(k)
    PROVE  TypeInv'
<1> USE LocalTypes, LabelFacts, ThreadFacts
<1>0. k \in Threads /\ k # Main
  OBVIOUS
<1>1. CASE ChefTop(k)
  BY <1>0, <1>1, JumpsType DEF ChefTop
<1>2. CASE ChefSeesWork(k)
  BY <1>0, <1>2, JumpsType DEF ChefSeesWork
<1>3. CASE ChefWaits(k)
  BY <1>0, <1>3, UnlocksType DEF ChefWaits
<1>4. ASSUME NEW from \in {"pick", "fell"}, ChefPicks(k, from)
      PROVE  TypeInv'
  <2>1. CASE \E q \in {"payment", "sofa"} : Sets(k, from, "pop", [loc[k] EXCEPT !.q = q])
    <3>1. PICK q \in {"payment", "sofa"} : Sets(k, from, "pop", [loc[k] EXCEPT !.q = q])
      BY <2>1
    <3>2. [loc[k] EXCEPT !.q = q] \in Local
      BY <1>0 DEF Local, Queues
    <3> QED BY <1>0, <3>1, <3>2, SetsType DEF Popping
  <2>2. CASE Unlocks(k, from, "top")
    BY <1>0, <2>2, UnlocksType
  <2> QED BY <1>4, <2>1, <2>2 DEF ChefPicks
<1>5. CASE ChefUnlocks(k)
  BY <1>0, <1>5, UnlocksType DEF ChefUnlocks
<1>6. ASSUME NEW from, NEW to \in Labels, NEW mutex \in Chefs \cup {None},
             NEW semaphores \in [Semaphores -> [Customers -> Nat]],
             Registers(k, from, to, mutex), sem' = semaphores
      PROVE  TypeInv'
  BY <1>0, <1>6 DEF TypeInv, TypeOK, ArrivalPending, Registers, Goto, counters, lists, control
<1>7. CASE ChefTakesRegister(k)
  BY <1>6, <1>7 DEF ChefTakesRegister, TypeInv, TypeOK
<1>8. CASE ChefAccepts(k)
  <2>1. loc[k].node \in Customers
    BY <1>0, <1>8 DEF ChefAccepts, Alive
  <2>2. Post("payment_ok", loc[k].node) \in [Semaphores -> [Customers -> Nat]]
    BY <2>1, SemTypes DEF Semaphores
  <2> QED BY <1>6, <1>8, <2>2 DEF ChefAccepts
<1>9. CASE ChefServes(k)
  <2>1. Post("served", loc[k].node) \in [Semaphores -> [Customers -> Nat]]
    BY <1>0, <1>9, SemTypes DEF ChefServes, Alive, Semaphores
  <2> QED BY <1>0, <1>9, <2>1, SignalsType DEF ChefServes
<1>10. CASE ChefStartsBaking(k)
  <2>1. Wait("start_bake", loc[k].node) \in [Semaphores -> [Customers -> Nat]]
    BY <1>0, <1>10, SemTypes DEF ChefStartsBaking, Alive, Semaphores
  <2> QED BY <1>0, <1>10, <2>1, SignalsType DEF ChefStartsBaking
<1>11. CASE ChefBakes(k)
  <2>1. Post("bake_done", loc[k].node) \in [Semaphores -> [Customers -> Nat]]
    BY <1>0, <1>11, SemTypes DEF ChefBakes, Alive, Semaphores
  <2> QED BY <1>0, <1>11, <2>1, SignalsType DEF ChefBakes
<1>12. CASE QPop(k)
  BY <1>12, QPopType
<1> QED BY <1>1, <1>2, <1>3, <1>4, <1>5, <1>7, <1>8, <1>9, <1>10, <1>11, <1>12 DEF Chef

\* A customer's steps keep the types.
LEMMA CustomerType ==
    ASSUME TypeInv, NEW c \in Customers, Customer(c)
    PROVE  TypeInv'
<1> USE LocalTypes, LabelFacts, ThreadFacts
<1>0. c \in Threads /\ c # Main
  OBVIOUS
<1>a. ASSUME NEW from, GoStand(c, from)
      PROVE  TypeInv'
  <2>1. [loc[c] EXCEPT !.q = "standing"] \in Local
    BY <1>0 DEF Local, Queues
  <2> QED BY <1>0, <1>a, <2>1, SetsType DEF GoStand, Pushing
<1>1. CASE PeekSofa(c)
  BY <1>0, <1>1, <1>a, JumpsType DEF PeekSofa
<1>2. CASE PeekQueue(c)
  BY <1>0, <1>2, <1>a, JumpsType DEF PeekQueue
<1>3. CASE Stand(c)
  BY <1>0, <1>3, UnlocksType DEF Stand
<1>4. CASE StandOn(c)
  BY <1>0, <1>4, UnlocksType DEF StandOn
<1>5. CASE LeaveQueue(c)
  BY <1>0, <1>5, JumpsType DEF LeaveQueue, Popping
<1>6. CASE Sit(c)
  <2>1. [loc[c] EXCEPT !.reg = sofa_occupied] \in Local
    BY <1>0, ZenonT(30) DEF Local, TypeInv, TypeOK
  <2> QED BY <1>0, <1>6, <2>1, SetsType DEF Sit, Locked
<1>7. CASE SitStore(c)
  <2>1. loc' \in [Threads -> Local]
    BY <1>7 DEF SitStore, TypeInv, TypeOK, Local, Queues
  <2> QED BY <1>0, <1>7, <2>1 DEF SitStore, Release, Goto, TypeInv, TypeOK, ArrivalPending,
                                  Local, lists, control
<1>8. CASE Announce(c)
  BY <1>0, <1>8, BroadcastType DEF Announce, Release, TypeInv, TypeOK, ArrivalPending,
                                   counters, lists, control
<1>9. CASE RequestCake(c)
  <2>1. [sem EXCEPT !["served"][c] = @ - 1, !["start_bake"][c] = @ + 1]
          \in [Semaphores -> [Customers -> Nat]]
    <3>1. Wait("served", c) \in [Semaphores -> [Customers -> Nat]]
      BY <1>9, SemTypes DEF RequestCake, Semaphores
    <3>2. ASSUME NEW f \in [Semaphores -> [Customers -> Nat]]
          PROVE  [f EXCEPT !["start_bake"][c] = @ + 1] \in [Semaphores -> [Customers -> Nat]]
      BY DEF Semaphores
    <3>3. [sem EXCEPT !["served"][c] = @ - 1, !["start_bake"][c] = @ + 1]
            = [Wait("served", c) EXCEPT !["start_bake"][c] = @ + 1]
      BY DEF Wait
    <3> QED BY <3>1, <3>2, <3>3
  <2> QED BY <1>0, <1>9, <2>1, SignalsType DEF RequestCake
<1>10. CASE Pay(c)
  <2>1. loc' \in [Threads -> Local]
    BY <1>10 DEF Pay, TypeInv, TypeOK, Local, Queues
  <2>2. Wait("bake_done", c) \in [Semaphores -> [Customers -> Nat]]
    BY <1>10, SemTypes DEF Pay, Semaphores
  <2> QED BY <1>0, <1>10, <2>1, <2>2 DEF Pay, Goto, TypeInv, TypeOK, ArrivalPending, Local,
                                         mutexes, counters, lists, control
<1>11. CASE Paid(c)
  <2>1. Wait("payment_ok", c) \in [Semaphores -> [Customers -> Nat]]
    BY <1>11, SemTypes DEF Paid, Semaphores
  <2> QED BY <1>0, <1>11, <2>1, SignalsType DEF Paid
<1>12. CASE Leave(c)
  <2>1. [loc[c] EXCEPT !.reg = sofa_occupied] \in Local
    BY <1>0, ZenonT(30) DEF Local, TypeInv, TypeOK
  <2> QED BY <1>0, <1>12, <2>1, SetsType DEF Leave, Locked
<1>13. CASE LeaveSofa(c)
  <2>1. loc' \in [Threads -> Local]
    BY <1>13 DEF LeaveSofa, TypeInv, TypeOK, Local
  <2> QED BY <1>0, <1>13, <2>1 DEF LeaveSofa, Goto, TypeInv, TypeOK, ArrivalPending, Local,
                                   Locked, mutexes, lists, control
<1>14. CASE LeaveShop(c)
  <2>1. /\ pc' \in [Threads -> Labels]
        /\ pc'[Main] = pc[Main] \/ pc'[Main] \in {"chef_wake", "standing_wake"}
    BY <1>0, <1>14, BroadcastType DEF LeaveShop
  <2>2. current_customers' \in Int
    BY <1>0, <1>14 DEF LeaveShop
  <2> QED BY <1>0, <1>14, <2>1, <2>2 DEF LeaveShop, Release, TypeInv, TypeOK, ArrivalPending,
                                         lists, control
<1>15. CASE Free(c)
  BY <1>0, <1>15, JumpsType DEF Free
<1> QED BY <1>1, <1>2, <1>3, <1>4, <1>5, <1>6, <1>7, <1>8, <1>9, <1>10, <1>11, <1>12, <1>13,
           <1>14, <1>15, QPushType, QPopType DEF Customer

\* The steps of main keep the types.
LEMMA MainType ==
    ASSUME TypeInv, MainStep
    PROVE  TypeInv'
<1> USE LocalTypes, LabelFacts, ThreadFacts
<1>0. cur \in Int /\ Arrivals \in Nat /\ AfterArrival \in Labels
  BY BakeryAssumption DEF TypeInv, TypeOK, AfterArrival
<1>1. ASSUME NextArrival, pc' \in [Threads -> Labels], pc'[Main] = AfterArrival, cur <= Arrivals
      PROVE  TypeInv'
  <2>1. cur' \in 1 .. Arrivals + 1 /\ ArrivalPending'
    BY <1>0, <1>1 DEF NextArrival, AfterArrival, ArrivalPending, TypeInv, TypeOK
  <2> QED BY <1>1, <2>1 DEF NextArrival, Release, TypeInv, TypeOK, counters, lists
<1>2. CASE Refuse
  <2>1. cur \in Customers /\ cur # Main /\ cur <= Arrivals
    BY <1>0, <1>2 DEF Refuse, At, TypeInv, TypeOK, ArrivalPending, Customers
  <2>2. pc' \in [Threads -> Labels] /\ pc'[Main] = AfterArrival
    BY <1>0, <1>2, <2>1 DEF Refuse, TypeInv, TypeOK
  <2> QED BY <1>1, <1>2, <2>1, <2>2 DEF Refuse
<1>3. CASE Admit
  <2>1. [loc[Main] EXCEPT !.reg = current_customers] \in Local
    BY <1>0 DEF Local, TypeInv, TypeOK
  <2> QED BY <1>0, <1>3, <2>1, SetsType DEF Admit, Locked
<1>4. CASE Count
  BY <1>0, <1>4 DEF Count, At, Goto, TypeInv, TypeOK, ArrivalPending, Locked,
                    mutexes, lists, control
<1>5. CASE Create
  <2>1. pc' \in [Threads -> Labels] /\ ArrivalPending'
    BY <1>0, <1>5 DEF Create, At, TypeInv, TypeOK, ArrivalPending, Locked, control
  <2> QED BY <1>5, <2>1 DEF Create, TypeInv, TypeOK, mutexes, counters, lists, control
<1>6. CASE Created
  BY <1>0, <1>1, <1>6 DEF Created, At, Goto, TypeInv, TypeOK, ArrivalPending
<1>7. CASE JoinCustomers
  BY <1>7, JumpsType DEF JoinCustomers
<1>8. CASE Shutdown
  <2>1. pc' \in [Threads -> Labels] /\ pc'[Main] = "join_chefs"
    BY <1>8, BroadcastType DEF Shutdown
  <2> QED BY <1>8, <2>1 DEF Shutdown, ShutsDown, Release, TypeInv, TypeOK, ArrivalPending,
                            counters, lists
<1>9. CASE JoinChefs
  BY <1>9 DEF JoinChefs, Ends, TypeInv, TypeOK, ArrivalPending, mutexes, counters, lists
<1> QED BY <1>2, <1>3, <1>4, <1>5, <1>6, <1>7, <1>8, <1>9 DEF MainStep

\* The initial state is typed.
LEMMA InitType == Init => TypeInv
<1> SUFFICES ASSUME Init PROVE TypeInv
  OBVIOUS
<1> USE BakeryAssumption, LabelFacts, ThreadFacts
<1>1. pc \in [Threads -> Labels]
  <2>1. {"top", "away", "arrive", "join"} \subseteq Labels
    BY DEF Labels
  <2> QED BY <2>1 DEF Init
<1>2. loc \in [Threads -> [q : Queues, node : Customers \cup {None}, reg : Int]]
  BY DEF Init, Queues
<1>3. ArrivalPending
  BY DEF Init, ArrivalPending
<1>4. sem \in [Semaphores -> [Customers -> Nat]]
  BY DEF Init
<1>5. queue \in [Queues -> [head : Customers \cup {None}, tail : Customers \cup {None}, size : Int]]
  BY DEF Init
<1>6. cur \in 1 .. Arrivals + 1 /\ spurious \in 0 .. MaxSpurious
  BY DEF Init
<1> QED BY <1>1, <1>2, <1>3, <1>4, <1>5, <1>6 DEF Init, TypeInv, TypeOK

\* Every step keeps the types.
LEMMA NextType == TypeInv /\ [Next]_vars => TypeInv'
<1> SUFFICES ASSUME TypeInv, [Next]_vars PROVE TypeInv'
  OBVIOUS
<1> USE LabelFacts, ThreadFacts
<1>0. ASSUME NEW how \in {"failed", "exited", "crashed"}, Ends(how)
      PROVE  TypeInv'
  BY <1>0 DEF Ends, TypeInv, TypeOK, ArrivalPending, mutexes, counters, lists
<1>1. ASSUME NEW t \in Threads, Lock(t)
      PROVE  TypeInv'
  <2>1. AfterLock[pc[t]] \in Labels
    BY <1>1, AfterLockLabels DEF Lock, Locked, Pushing
  <2>2. ArrivalPending'
    BY <1>1, AfterLockLabels DEF Lock, Goto, ArrivalPending, TypeInv, TypeOK, control
  <2> QED BY <1>1, <2>1, <2>2 DEF Lock, Goto, TypeInv, TypeOK, counters, lists, control
<1>2. ASSUME NEW t \in Threads, BadPointer(t) \/ OwnerAssertion(t)
      PROVE  TypeInv'
  BY <1>0, <1>2 DEF BadPointer, OwnerAssertion
<1>3. ASSUME NEW t \in Threads, SpuriousWakeup(t)
      PROVE  TypeInv'
  BY <1>3, BakeryAssumption DEF SpuriousWakeup, Goto, TypeInv, TypeOK, ArrivalPending,
                                mutexes, counters, lists
<1>4. ASSUME NEW t \in Threads, Step(t)
      PROVE  TypeInv'
  BY <1>1, <1>2, <1>4, ChefType, CustomerType, MainType DEF Step
<1>5. CASE CreateFails
  BY <1>0, <1>5 DEF CreateFails
<1>6. CASE UNCHANGED vars
  BY <1>6 DEF vars, TypeInv, TypeOK, ArrivalPending, mutexes, counters, lists, control
<1> QED BY <1>2, <1>3, <1>4, <1>5, <1>6 DEF Next, Halted

\* Every variable keeps the type the code gives it, for any number of
\* arrivals, chefs and seats; in particular main never looks past the last
\* arrival and no semaphore goes below zero.
THEOREM TypeCorrect == Spec => []TypeOK
<1>1. TypeInv => TypeOK
  BY DEF TypeInv
<1> QED BY InitType, NextType, <1>1, PTL DEF Spec

-----------------------------------------------------------------------------
(***************************************************************************)
(* What a step of thread t does to the others and to its own section.      *)
(***************************************************************************)

OthersStay(t) ==
    \A u \in Threads \ {t} :
        /\ loc'[u] = loc[u]
        /\ \/ pc'[u] = pc[u]
           \/ pc[u] \in {"chef_cv", "standing_cv"} /\ pc'[u] \in {"chef_wake", "standing_wake"}

KeepsSection(t) == UNCHANGED <<lock, stolen>> /\ (InSection(t)' => InSection(t))
LeavesSection(t) == Release(t) /\ ~InSection(t)'
Disciplined(t) == OthersStay(t) /\ (KeepsSection(t) \/ LeavesSection(t))

\* The kinds of steps are disciplined, given where they lead.
LEMMA Kinds ==
    ASSUME TypeInv, NEW t \in Threads, NEW from, NEW to
    PROVE  /\ Jumps(t, from, to) /\ (to \in Locked => from \in Locked) /\ to \notin Pushing
                => Disciplined(t)
           /\ \A locals \in Local :
                Sets(t, from, to, locals) /\ (to \in Locked => from \in Locked)
                  /\ (to \in Pushing => locals.q = "standing" \/ (from \in Pushing /\ locals.q = loc[t].q))
                => Disciplined(t)
           /\ \A semaphores :
                Signals(t, from, to, semaphores) /\ to \notin Locked \cup Pushing => Disciplined(t)
           /\ Unlocks(t, from, to) /\ to \notin Locked \cup Pushing => Disciplined(t)
           /\ \A queues, nexts, size :
                Links(t, from, to, queues, nexts, size) /\ (to \in Locked => from \in Locked)
                  /\ (to \in Pushing => from \in Pushing)
                => Disciplined(t)
<1> DEFINE D == Disciplined(t)
<1>0. pc \in [Threads -> Labels] /\ loc \in [Threads -> Local]
  BY DEF TypeInv, TypeOK, Local
<1>1. ASSUME Jumps(t, from, to), to \in Locked => from \in Locked, to \notin Pushing
      PROVE  D
  BY <1>0, <1>1 DEF Jumps, At, Goto, Disciplined, OthersStay, KeepsSection, InSection, mutexes
<1>2. ASSUME NEW locals \in Local, Sets(t, from, to, locals), to \in Locked => from \in Locked,
             to \in Pushing => locals.q = "standing" \/ (from \in Pushing /\ locals.q = loc[t].q)
      PROVE  D
  BY <1>0, <1>2 DEF Sets, At, Goto, Disciplined, OthersStay, KeepsSection, InSection, mutexes
<1>3. ASSUME NEW semaphores, Signals(t, from, to, semaphores), to \notin Locked \cup Pushing
      PROVE  D
  BY <1>0, <1>3 DEF Signals, At, Goto, Disciplined, OthersStay, KeepsSection, InSection, mutexes
<1>4. ASSUME Unlocks(t, from, to), to \notin Locked \cup Pushing
      PROVE  D
  BY <1>0, <1>4 DEF Unlocks, At, Goto, Disciplined, OthersStay, LeavesSection, InSection
<1>5. ASSUME NEW queues, NEW nexts, NEW size, Links(t, from, to, queues, nexts, size),
             to \in Locked => from \in Locked, to \in Pushing => from \in Pushing
      PROVE  D
  BY <1>0, <1>5 DEF Links, At, Goto, Disciplined, OthersStay, KeepsSection, InSection, mutexes, Local
<1> QED BY <1>1, <1>2, <1>3, <1>4, <1>5

\* q_push and q_pop move within a section, or outside of it.
LEMMA QueuesDisciplined ==
    ASSUME TypeInv, NEW t \in Customers \cup Chefs, QPush(t) \/ QPop(t)
    PROVE  Disciplined(t)
<1> DEFINE q == loc[t].q  x == loc[t].node
<1>0. t \in Threads /\ loc[t] \in Local /\ q \in Queues /\ queue \in [Queues -> QueueType]
  BY ThreadFacts, LocalTypes DEF TypeInv, TypeOK, QueueType
<1>1. \A n \in Customers \cup {None} : /\ [loc[t] EXCEPT !.node = n] \in Local
                                       /\ [loc[t] EXCEPT !.node = n].q = q
  BY <1>0 DEF Local
<1>2. queue[q].head \in Customers \cup {None} /\ queue[q].tail \in Customers \cup {None}
  BY <1>0 DEF QueueType
<1>3. CASE QPush(t)
  <2> USE <1>0, <1>1, <1>2, Kinds DEF Pushing, Locked, Popping
  <2>1. CASE Links(t, "push", IF queue[q].tail = None THEN "link_first" ELSE "load_tail",
                   queue, [next EXCEPT ![t] = None], loc[t].reg)
    BY <2>1
  <2>2. CASE Links(t, "link_first", "push_size", [queue EXCEPT ![q].head = t, ![q].tail = t],
                   next, queue[q].size)
    BY <2>2
  <2>3. CASE Sets(t, "load_tail", "link_next", [loc[t] EXCEPT !.node = queue[q].tail])
    BY <2>3
  <2>4. CASE Links(t, "link_next", "link_tail", queue, [next EXCEPT ![x] = t], loc[t].reg)
    BY <2>4
  <2>5. CASE Links(t, "link_tail", "push_size", [queue EXCEPT ![q].tail = t], next, queue[q].size)
    BY <2>5
  <2>6. CASE Links(t, "push_size", "pushed", [queue EXCEPT ![q].size = loc[t].reg + 1],
                   next, loc[t].reg)
    BY <2>6
  <2> QED BY <1>3, <2>1, <2>2, <2>3, <2>4, <2>5, <2>6 DEF QPush
<1>4. CASE QPop(t)
  <2> USE <1>0, <1>1, <1>2, Kinds DEF Pushing, Locked, Popping, AfterPop
  <2>1. CASE Sets(t, "pop", IF queue[q].head = None THEN AfterPop(t) ELSE "pop_head",
                  [loc[t] EXCEPT !.node = queue[q].head])
    BY <2>1
  <2>2. CASE Links(t, "pop_head", "pop_tail", [queue EXCEPT ![q].head = next[x]], next, loc[t].reg)
    BY <2>2
  <2>3. CASE Links(t, "pop_tail", "pop_size",
                   [queue EXCEPT ![q].tail = IF queue[q].head = None THEN None ELSE @],
                   [next EXCEPT ![x] = None], queue[q].size)
    BY <2>3
  <2>4. CASE Links(t, "pop_size", AfterPop(t), [queue EXCEPT ![q].size = loc[t].reg - 1],
                   next, loc[t].reg)
    BY <2>4
  <2> QED BY <1>4, <2>1, <2>2, <2>3, <2>4 DEF QPop
<1> QED BY <1>3, <1>4

\* A chef is disciplined, if he finds no work after he fell through.
LEMMA ChefDisciplined ==
    ASSUME TypeInv, NEW k \in Chefs, Chef(k),
           pc[k] = "fell" => queue["payment"].size = 0 /\ queue["sofa"].size = 0
    PROVE  Disciplined(k)
<1>0. k \in Threads /\ loc[k] \in Local
  BY ThreadFacts, LocalTypes
<1>a. \A q \in {"payment", "sofa"} : [loc[k] EXCEPT !.q = q] \in Local
  BY <1>0 DEF Local, Queues
<1> USE <1>0, Kinds DEF Pushing, Popping, Locked
<1>1. CASE ChefTop(k)
  BY <1>1 DEF ChefTop
<1>2. CASE ChefSeesWork(k)
  BY <1>2 DEF ChefSeesWork
<1>3. CASE ChefWaits(k)
  BY <1>3 DEF ChefWaits
<1>4. ASSUME NEW from \in {"pick", "fell"}, ChefPicks(k, from)
      PROVE  Disciplined(k)
  <2>1. CASE \E q \in {"payment", "sofa"} : Work(q) /\ Sets(k, from, "pop", [loc[k] EXCEPT !.q = q])
    <3>1. PICK q \in {"payment", "sofa"} : Work(q) /\ Sets(k, from, "pop", [loc[k] EXCEPT !.q = q])
      BY <2>1
    <3>2. from = "pick"
      BY <3>1 DEF Sets, At, Work
    <3> QED BY <1>a, <3>1, <3>2
  <2>2. CASE Unlocks(k, from, "top")
    BY <2>2
  <2> QED BY <1>4, <2>1, <2>2 DEF ChefPicks
<1>5. CASE ChefUnlocks(k)
  BY <1>5 DEF ChefUnlocks
<1>6. ASSUME NEW from, NEW to, to \notin Locked \cup Pushing,
             NEW mutex, Registers(k, from, to, mutex)
      PROVE  Disciplined(k)
  BY <1>6 DEF Registers, At, Goto, Disciplined, OthersStay, KeepsSection, InSection, TypeInv, TypeOK
<1>7. CASE ChefTakesRegister(k)
  BY <1>6, <1>7 DEF ChefTakesRegister
<1>8. CASE ChefAccepts(k)
  BY <1>6, <1>8 DEF ChefAccepts
<1>9. CASE ChefServes(k)
  BY <1>9 DEF ChefServes
<1>10. CASE ChefStartsBaking(k)
  BY <1>10 DEF ChefStartsBaking
<1>11. CASE ChefBakes(k)
  BY <1>11 DEF ChefBakes
<1>12. CASE QPop(k)
  BY <1>12, QueuesDisciplined
<1> QED BY <1>1, <1>2, <1>3, <1>4, <1>5, <1>7, <1>8, <1>9, <1>10, <1>11, <1>12 DEF Chef

\* Every step of a customer is disciplined, also when he stands.
LEMMA CustomerDisciplined ==
    ASSUME TypeInv, NEW c \in Customers, Customer(c)
    PROVE  Disciplined(c)
<1>0. c \in Threads /\ loc[c] \in Local
  BY ThreadFacts, LocalTypes
<1>a. /\ [loc[c] EXCEPT !.q = "standing"] \in Local
      /\ [loc[c] EXCEPT !.q = "standing"].q = "standing"
      /\ [loc[c] EXCEPT !.reg = sofa_occupied] \in Local
  BY <1>0 DEF Local, Queues, TypeInv, TypeOK
<1> USE <1>0, <1>a, Kinds DEF Pushing, Popping, Locked
<1>1. CASE PeekSofa(c)
  BY <1>1 DEF PeekSofa, GoStand
<1>2. CASE PeekQueue(c)
  BY <1>2 DEF PeekQueue, GoStand
<1>3. CASE Stand(c)
  BY <1>3 DEF Stand
<1>4. CASE StandOn(c)
  BY <1>4 DEF StandOn
<1>5. CASE LeaveQueue(c)
  BY <1>5 DEF LeaveQueue
<1>6. CASE Sit(c)
  BY <1>6 DEF Sit
<1>7. CASE SitStore(c)
  BY <1>7 DEF SitStore, Goto, Disciplined, OthersStay, LeavesSection, InSection, TypeInv, TypeOK
<1>8. ASSUME NEW to, to \notin Locked \cup Pushing,
             NEW cvs \in SUBSET {"chef_cv", "standing_cv"},
             BroadcastAndGoto(c, to, cvs), Release(c), UNCHANGED loc
      PROVE  Disciplined(c)
  <2>1. pc'[c] = to
    BY <1>8 DEF BroadcastAndGoto
  <2>2. OthersStay(c)
    BY <1>8 DEF BroadcastAndGoto, Woken, OthersStay
  <2> QED BY <1>8, <2>1, <2>2 DEF Disciplined, LeavesSection, InSection
<1>9. CASE Announce(c)
  BY <1>8, <1>9 DEF Announce
<1>10. CASE RequestCake(c)
  <2>1. PICK semaphores : Signals(c, "await_served", "await_bake", semaphores)
    BY <1>10 DEF RequestCake
  <2> QED BY <2>1
<1>11. CASE Pay(c)
  BY <1>11 DEF Pay, At, Goto, Disciplined, OthersStay, KeepsSection, InSection, mutexes,
               TypeInv, TypeOK
<1>12. CASE Paid(c)
  BY <1>12 DEF Paid
<1>13. CASE Leave(c)
  BY <1>13 DEF Leave
<1>14. CASE LeaveSofa(c)
  BY <1>14 DEF LeaveSofa, At, Goto, Disciplined, OthersStay, KeepsSection, InSection, mutexes,
               TypeInv, TypeOK
<1>15. CASE LeaveShop(c)
  BY <1>8, <1>15 DEF LeaveShop
<1>16. CASE Free(c)
  BY <1>16 DEF Free
<1>17. CASE QPush(c) \/ QPop(c)
  BY <1>17, QueuesDisciplined
<1> QED BY <1>1, <1>2, <1>3, <1>4, <1>5, <1>6, <1>7, <1>9, <1>10, <1>11, <1>12, <1>13,
           <1>14, <1>15, <1>16, <1>17 DEF Customer

\* So is every step of main, apart from what it does to the arrival in hand.
LEMMA MainDisciplined ==
    ASSUME TypeInv, MainStep
    PROVE  /\ KeepsSection(Main) \/ LeavesSection(Main)
           /\ \A u \in Threads \ {Main} : InSection(u)' => InSection(u)
<1>0. Main \in Threads /\ loc[Main] \in Local /\ pc \in [Threads -> Labels]
  BY ThreadFacts, LocalTypes DEF TypeInv, TypeOK
<1>a. [loc[Main] EXCEPT !.reg = current_customers] \in Local
  BY <1>0 DEF Local, TypeInv, TypeOK
<1>b. ASSUME Disciplined(Main)
      PROVE  /\ KeepsSection(Main) \/ LeavesSection(Main)
             /\ \A u \in Threads \ {Main} : InSection(u)' => InSection(u)
  BY <1>b DEF Disciplined, OthersStay, InSection, Locked, Pushing, Popping
<1> USE <1>0, <1>a DEF Pushing, Popping, Locked
<1>1. CASE Refuse
  BY <1>1 DEF Refuse, NextArrival, AfterArrival, LeavesSection, InSection
<1>2. CASE Admit
  BY <1>2, <1>b, Kinds DEF Admit
<1>3. CASE Count
  BY <1>3 DEF Count, At, Goto, KeepsSection, InSection, mutexes
<1>4. CASE Create
  BY <1>4 DEF Create, At, KeepsSection, InSection, mutexes
<1>5. CASE Created
  BY <1>5 DEF Created, Goto, NextArrival, AfterArrival, LeavesSection, InSection
<1>6. CASE JoinCustomers
  BY <1>6, <1>b, Kinds DEF JoinCustomers
<1>7. CASE Shutdown
  BY <1>7 DEF Shutdown, ShutsDown, BroadcastAndGoto, Woken, LeavesSection, InSection
<1>8. CASE JoinChefs
  BY <1>8 DEF JoinChefs, Ends, KeepsSection, InSection, mutexes
<1> QED BY <1>1, <1>2, <1>3, <1>4, <1>5, <1>6, <1>7, <1>8 DEF MainStep

(***************************************************************************)
(* The register.                                                           *)
(***************************************************************************)

RegisterHeld == \A k \in Chefs : pc[k] = "accept" => payment_mutex = k

\* A chef gets to the register by taking payment_mutex, and in no other way.
LEMMA ChefAtRegister ==
    ASSUME TypeInv, NEW k \in Chefs, Chef(k)
    PROVE  /\ \A u \in Threads \ {k} : pc'[u] = pc[u]
           /\ \/ payment_mutex' = payment_mutex /\ pc'[k] # "accept"
              \/ payment_mutex = None /\ payment_mutex' = k
              \/ pc[k] = "accept" /\ pc'[k] # "accept"
<1> DEFINE P == /\ \A u \in Threads \ {k} : pc'[u] = pc[u]
                /\ \/ payment_mutex' = payment_mutex /\ pc'[k] # "accept"
                   \/ payment_mutex = None /\ payment_mutex' = k
                   \/ pc[k] = "accept" /\ pc'[k] # "accept"
<1>0. pc \in [Threads -> Labels] /\ k \in Threads
  BY ThreadFacts DEF TypeInv, TypeOK
<1>a. ASSUME NEW to, to # "accept", Goto(k, to), UNCHANGED payment_mutex
      PROVE  P
  BY <1>0, <1>a DEF Goto
<1>1. CASE ChefTop(k) \/ ChefSeesWork(k)
  BY <1>a, <1>1 DEF ChefTop, ChefSeesWork, Jumps, mutexes
<1>2. CASE ChefWaits(k) \/ ChefUnlocks(k)
  BY <1>a, <1>2 DEF ChefWaits, ChefUnlocks, Unlocks, Release
<1>3. CASE \E from \in {"pick", "fell"} : ChefPicks(k, from)
  BY <1>a, <1>3 DEF ChefPicks, Sets, Unlocks, Release, mutexes
<1>4. CASE ChefTakesRegister(k)
  BY <1>0, <1>4 DEF ChefTakesRegister, Registers, Goto
<1>5. CASE ChefAccepts(k)
  BY <1>0, <1>5 DEF ChefAccepts, Registers, At, Goto
<1>6. CASE ChefServes(k) \/ ChefStartsBaking(k) \/ ChefBakes(k)
  BY <1>a, <1>6 DEF ChefServes, ChefStartsBaking, ChefBakes, Signals, mutexes
<1>7. CASE QPop(k)
  BY <1>a, <1>7 DEF QPop, AfterPop, Links, Sets, mutexes
<1> QED BY <1>1, <1>2, <1>3, <1>4, <1>5, <1>6, <1>7 DEF Chef

\* Nobody but a chef touches payment_mutex.
LEMMA RegisterUntouched ==
    ASSUME TypeInv, NEW t \in Threads, Lock(t) \/ (t \in Customers /\ Customer(t)) \/ (t = Main /\ MainStep)
    PROVE  UNCHANGED payment_mutex
<1>1. CASE Lock(t)
  BY <1>1 DEF Lock
<1>2. CASE Customer(t)
  <2> USE DEF Jumps, Sets, Signals, Unlocks, Links, Release, mutexes
  <2>1. CASE QPush(t) \/ QPop(t)
    BY <2>1 DEF QPush, QPop
  <2>2. CASE PeekSofa(t) \/ PeekQueue(t) \/ Stand(t) \/ StandOn(t) \/ LeaveQueue(t)
    BY <2>2 DEF PeekSofa, PeekQueue, GoStand, Stand, StandOn, LeaveQueue
  <2>3. CASE Sit(t) \/ SitStore(t) \/ Announce(t) \/ RequestCake(t)
    BY <2>3 DEF Sit, SitStore, Announce, RequestCake
  <2>4. CASE Pay(t) \/ Paid(t) \/ Leave(t) \/ LeaveSofa(t) \/ LeaveShop(t) \/ Free(t)
    BY <2>4 DEF Pay, Paid, Leave, LeaveSofa, LeaveShop, Free
  <2> QED BY <1>2, <2>1, <2>2, <2>3, <2>4 DEF Customer
<1>3. CASE MainStep
  BY <1>3 DEF MainStep, Refuse, NextArrival, Admit, Count, Create, Created, JoinCustomers,
              Shutdown, ShutsDown, JoinChefs, Ends, Jumps, Sets, Release, mutexes
<1> QED BY <1>1, <1>2, <1>3

\* What main does to the labels of chefs.
LEMMA MainAndChefs ==
    ASSUME TypeInv, MainStep
    PROVE  \A k \in Chefs : pc'[k] = pc[k] \/ (pc[k] = "chef_cv" /\ pc'[k] = "chef_wake")
<1>0. /\ \A k \in Chefs : k \in Threads /\ k # Main /\ k \notin Customers
      /\ pc \in [Threads -> Labels] /\ Main \in Threads
  BY ThreadFacts, BakeryAssumption DEF TypeInv, TypeOK
<1>1. CASE Refuse \/ Create
  <2>1. cur \in Customers
    BY <1>1, BakeryAssumption DEF Refuse, Create, At, Customers, TypeInv, TypeOK, ArrivalPending
  <2> QED BY <1>0, <1>1, <2>1 DEF Refuse, Create
<1>2. CASE Admit \/ Count \/ Created \/ JoinCustomers
  BY <1>0, <1>2 DEF Admit, Sets, Count, Created, JoinCustomers, Jumps, Goto
<1>3. CASE Shutdown
  BY <1>0, <1>3 DEF Shutdown, BroadcastAndGoto, Woken
<1>4. CASE JoinChefs
  BY <1>4 DEF JoinChefs, Ends
<1> QED BY <1>1, <1>2, <1>3, <1>4 DEF MainStep

\* payment_mutex is held by the chef at the register.
LEMMA RegisterNext == TypeInv /\ RegisterHeld /\ [Next]_vars => RegisterHeld'
<1> SUFFICES ASSUME TypeInv, RegisterHeld, [Next]_vars PROVE RegisterHeld'
  OBVIOUS
<1>0. \A k \in Chefs : k \in Threads /\ k # Main /\ k \notin Customers /\ k # None
  BY ThreadFacts, BakeryAssumption
<1>a. ASSUME UNCHANGED payment_mutex,
             \A k \in Chefs : pc'[k] = pc[k] \/ pc'[k] \in {"chef_wake", "standing_wake"} \cup
                                                          {AfterLock[l] : l \in DOMAIN AfterLock}
      PROVE  RegisterHeld'
  BY <1>a, AfterLockLabels DEF RegisterHeld
<1>1. ASSUME NEW t \in Threads, Lock(t)
      PROVE  RegisterHeld'
  BY <1>0, <1>1, <1>a DEF Lock, Goto, TypeInv, TypeOK
<1>2. ASSUME NEW k \in Chefs, Chef(k)
      PROVE  RegisterHeld'
  BY <1>0, <1>2, ChefAtRegister DEF RegisterHeld
<1>3. ASSUME NEW c \in Customers, Customer(c)
      PROVE  RegisterHeld'
  <2>1. Disciplined(c) /\ UNCHANGED payment_mutex
    BY <1>3, CustomerDisciplined, RegisterUntouched, ThreadFacts
  <2> QED BY <1>0, <1>a, <2>1 DEF Disciplined, OthersStay
<1>4. CASE MainStep
  <2>1. UNCHANGED payment_mutex
    BY <1>4, RegisterUntouched, ThreadFacts
  <2> QED BY <1>4, <1>a, <2>1, MainAndChefs
<1>5. ASSUME NEW t \in Threads, BadPointer(t) \/ OwnerAssertion(t) \/ CreateFails
      PROVE  RegisterHeld'
  BY <1>5 DEF BadPointer, OwnerAssertion, CreateFails, Ends, mutexes, RegisterHeld
<1>6. ASSUME NEW t \in Threads, SpuriousWakeup(t)
      PROVE  RegisterHeld'
  BY <1>0, <1>6, <1>a DEF SpuriousWakeup, Goto, mutexes, TypeInv, TypeOK
<1>7. CASE UNCHANGED vars
  BY <1>7 DEF vars, mutexes, RegisterHeld
<1> QED BY <1>1, <1>2, <1>3, <1>4, <1>5, <1>6, <1>7, ThreadFacts DEF Next, Step, Halted

\* "Lock payment_mutex to serialize accepting payment" (threads.c:31): no two
\* chefs are at the register, even after standing customers have broken `lock'
\* and the queues with it.
THEOREM OneAtTheRegister == Spec => []PaymentSerialized
<1>1. Init => RegisterHeld
  BY BakeryAssumption DEF Init, RegisterHeld, Threads
<1>2. RegisterHeld => PaymentSerialized
  BY DEF RegisterHeld, PaymentSerialized
<1> QED BY InitType, NextType, RegisterNext, <1>1, <1>2, PTL DEF Spec

(***************************************************************************)
(* The sections protected by `lock'.                                       *)
(***************************************************************************)

\* Main shuts down after the last customer left.
Closing == /\ shutdown_flag => pc[Main] = "join_chefs"
           /\ pc[Main] \in {"close", "shutdown", "join_chefs"} =>
                \A c \in Customers : pc[c] \in {"gone", "refused"}

\* A chef that fell through without `lock' (threads.c:20) finds no work after
\* it: it is this that keeps him from working on a queue unprotected.
AtQueues == {"pick"} \cup Popping
FellIdle == ~stolen => \A k \in Chefs : pc[k] = "fell" =>
              shutdown_flag /\ NoWork /\ \A j \in Chefs : pc[j] \notin AtQueues

LockInv == LockExclusion /\ Closing /\ FellIdle

\* A disciplined step keeps the sections exclusive, and a stolen lock is not forgotten.
LEMMA ExclusionKept ==
    ASSUME LockExclusion, NEW t \in Threads, KeepsSection(t) \/ LeavesSection(t),
           \A u \in Threads \ {t} : InSection(u)' => InSection(u)
    PROVE  LockExclusion' /\ (stolen => stolen')
<1>0. None \notin Threads
  BY ThreadFacts
<1>1. CASE KeepsSection(t)
  BY <1>1 DEF KeepsSection, LockExclusion
<1>2. CASE LeavesSection(t)
  <2>1. stolen' = (stolen \/ (lock # t /\ lock # None))
    BY <1>2 DEF LeavesSection, Release
  <2>2. ASSUME ~stolen', NEW u \in Threads, InSection(u)'
        PROVE  FALSE
    <3>1. u # t /\ InSection(u)
      BY <1>2, <2>2 DEF LeavesSection
    <3>2. lock = u
      BY <2>1, <2>2, <3>1 DEF LockExclusion
    <3> QED BY <1>0, <2>1, <2>2, <3>1, <3>2
  <2> QED BY <2>1, <2>2 DEF LockExclusion
<1> QED BY <1>1, <1>2

\* A thread that acquires `lock' finds nobody in a section.
LEMMA LockKeepsExclusion ==
    ASSUME TypeInv, LockExclusion, NEW t \in Threads, Lock(t)
    PROVE  LockExclusion' /\ UNCHANGED stolen
<1>1. \A u \in Threads \ {t} : InSection(u)' = InSection(u)
  BY DEF Lock, Goto, InSection, TypeInv, TypeOK
<1>2. ~stolen => \A u \in Threads : ~InSection(u)
  BY ThreadFacts DEF Lock, LockExclusion
<1> QED BY <1>1, <1>2 DEF Lock, LockExclusion

\* Only main touches the flag, and a customer that has left does not act.
LEMMA ActorFacts ==
    ASSUME TypeInv
    PROVE  /\ \A t \in Threads : Lock(t) => UNCHANGED <<shutdown_flag, queue>>
           /\ \A k \in Chefs : Chef(k) => UNCHANGED shutdown_flag
           /\ \A c \in Customers :
                Customer(c) => UNCHANGED shutdown_flag /\ pc[c] \notin {"gone", "refused"}
<1> USE DEF Jumps, Sets, Signals, Unlocks, Links, At, control
<1>1. ASSUME NEW t \in Threads, Lock(t)
      PROVE  UNCHANGED <<shutdown_flag, queue>>
  BY <1>1 DEF Lock, lists
<1>2. ASSUME NEW t, QPush(t) \/ QPop(t)
      PROVE  UNCHANGED shutdown_flag /\ pc[t] \notin {"gone", "refused"}
  BY <1>2 DEF QPush, QPop
<1>3. ASSUME NEW k \in Chefs, Chef(k)
      PROVE  UNCHANGED shutdown_flag
  <2>1. CASE ChefTop(k) \/ ChefSeesWork(k) \/ ChefWaits(k) \/ ChefUnlocks(k)
    BY <2>1 DEF ChefTop, ChefSeesWork, ChefWaits, ChefUnlocks
  <2>2. CASE \E from \in {"pick", "fell"} : ChefPicks(k, from)
    BY <2>2 DEF ChefPicks
  <2>3. CASE ChefTakesRegister(k) \/ ChefAccepts(k)
    BY <2>3 DEF ChefTakesRegister, ChefAccepts, Registers
  <2>4. CASE ChefServes(k) \/ ChefStartsBaking(k) \/ ChefBakes(k)
    BY <2>4 DEF ChefServes, ChefStartsBaking, ChefBakes
  <2> QED BY <1>2, <1>3, <2>1, <2>2, <2>3, <2>4 DEF Chef
<1>4. ASSUME NEW c \in Customers, Customer(c)
      PROVE  UNCHANGED shutdown_flag /\ pc[c] \notin {"gone", "refused"}
  <2>1. CASE PeekSofa(c) \/ PeekQueue(c) \/ Stand(c) \/ StandOn(c) \/ LeaveQueue(c)
    BY <2>1 DEF PeekSofa, PeekQueue, GoStand, Stand, StandOn, LeaveQueue
  <2>2. CASE Sit(c) \/ SitStore(c) \/ Announce(c) \/ RequestCake(c)
    BY <2>2 DEF Sit, SitStore, Announce, RequestCake
  <2>3. CASE Pay(c) \/ Paid(c) \/ Leave(c) \/ LeaveSofa(c) \/ LeaveShop(c) \/ Free(c)
    BY <2>3 DEF Pay, Paid, Leave, LeaveSofa, LeaveShop, Free
  <2> QED BY <1>2, <1>4, <2>1, <2>2, <2>3 DEF Customer
<1> QED BY <1>1, <1>3, <1>4

\* The steps that change only the label of a waiting thread, or end the process.
PlatformStep(t) == SpuriousWakeup(t) \/ OwnerAssertion(t) \/ BadPointer(t) \/ CreateFails

\* They take no mutex and no place in a queue, and at most wake a waiter.
LEMMA PlatformFacts ==
    ASSUME TypeInv, NEW t \in Threads, PlatformStep(t)
    PROVE  /\ UNCHANGED <<lock, stolen, shutdown_flag, queue, loc>>
           /\ \A u \in Threads : pc'[u] = pc[u] \/ (pc[u] \in {"chef_cv", "standing_cv"} /\
                                                    pc'[u] \in {"chef_wake", "standing_wake"})
<1>1. CASE SpuriousWakeup(t)
  BY <1>1 DEF SpuriousWakeup, Goto, mutexes, lists, TypeInv, TypeOK
<1>2. CASE OwnerAssertion(t) \/ BadPointer(t) \/ CreateFails
  BY <1>2 DEF OwnerAssertion, BadPointer, CreateFails, Ends, mutexes, lists
<1> QED BY <1>1, <1>2 DEF PlatformStep

\* Main goes from "join" to "close" when everybody has left, and nobody comes after.
LEMMA ClosingNext == TypeInv /\ Closing /\ [Next]_vars => Closing'
<1> SUFFICES ASSUME TypeInv, Closing, [Next]_vars PROVE Closing'
  OBVIOUS
<1>0. /\ pc \in [Threads -> Labels] /\ Main \in Threads
      /\ \A c \in Customers : c \in Threads /\ c # Main
      /\ \A k \in Chefs : k \in Threads /\ k # Main /\ k \notin Customers
  BY ThreadFacts, BakeryAssumption DEF TypeInv, TypeOK
<1>a. ASSUME NEW t \in Threads \ {Main}, UNCHANGED shutdown_flag,
             t \in Customers => pc[t] \notin {"gone", "refused"},
             \A u \in Threads \ {t} :
                \/ pc'[u] = pc[u]
                \/ pc[u] \in {"chef_cv", "standing_cv"} /\ pc'[u] \in {"chef_wake", "standing_wake"}
      PROVE  Closing'
  BY <1>0, <1>a DEF Closing
<1>1. ASSUME NEW t \in Threads, Lock(t)
      PROVE  Closing'
  <2>1. /\ UNCHANGED shutdown_flag /\ pc[t] \in DOMAIN AfterLock
        /\ \A u \in Threads \ {t} : pc'[u] = pc[u]
        /\ pc'[t] = AfterLock[pc[t]]
    BY <1>0, <1>1, ActorFacts DEF Lock, Goto
  <2>2. CASE t # Main
    BY <1>a, <2>1, <2>2, AfterLockLabels
  <2>3. CASE t = Main
    <3>1. pc'[Main] = "shutdown" => pc[Main] = "close"
      BY <2>1, <2>3 DEF AfterLock
    <3> QED BY <1>0, <2>1, <2>3, <3>1, AfterLockLabels DEF Closing
  <2> QED BY <2>2, <2>3
<1>2. ASSUME NEW k \in Chefs, Chef(k)
      PROVE  Closing'
  BY <1>0, <1>2, <1>a, ActorFacts, ChefAtRegister
<1>3. ASSUME NEW c \in Customers, Customer(c)
      PROVE  Closing'
  BY <1>0, <1>3, <1>a, ActorFacts, CustomerDisciplined DEF Disciplined, OthersStay
<1>4. CASE MainStep
  <2>1. CASE Refuse \/ Created
    BY <1>0, <2>1 DEF Refuse, Created, At, Goto, NextArrival, AfterArrival, Closing
  <2>2. CASE Admit \/ Count \/ Create
    BY <1>0, <2>2 DEF Admit, Sets, Count, Create, At, Goto, Closing, control
  <2>3. CASE JoinCustomers
    BY <1>0, <2>3 DEF JoinCustomers, Jumps, At, Goto, Closing, control
  <2>4. CASE Shutdown
    <3>1. pc'[Main] = "join_chefs" /\ \A c \in Customers : pc[c] \in {"gone", "refused"}
      BY <1>0, <2>4 DEF Shutdown, ShutsDown, BroadcastAndGoto, At, Closing
    <3>2. \A c \in Customers : pc'[c] = pc[c]
      BY <1>0, <2>4, <3>1 DEF Shutdown, BroadcastAndGoto, Woken
    <3> QED BY <3>1, <3>2 DEF Closing
  <2>5. CASE JoinChefs
    BY <2>5 DEF JoinChefs, Ends, Closing
  <2> QED BY <1>4, <2>1, <2>2, <2>3, <2>4, <2>5 DEF MainStep
<1>5. ASSUME NEW t \in Threads, PlatformStep(t)
      PROVE  Closing'
  BY <1>0, <1>5, PlatformFacts DEF Closing
<1>6. CASE UNCHANGED vars
  BY <1>6 DEF vars, control, Closing
<1> QED BY <1>0, <1>1, <1>2, <1>3, <1>4, <1>5, <1>6 DEF Next, Step, Halted, PlatformStep

\* Where a chef can go when there is no work.
LEMMA IdleChef ==
    ASSUME TypeInv, NEW k \in Chefs, Chef(k)
    PROVE  /\ NoWork /\ pc[k] \notin AtQueues => UNCHANGED queue /\ pc'[k] \notin AtQueues
           /\ pc'[k] = "fell" =>
                pc[k] = "check" /\ shutdown_flag /\ NoWork /\ UNCHANGED queue
<1> DEFINE P == /\ NoWork /\ pc[k] \notin AtQueues => UNCHANGED queue /\ pc'[k] \notin AtQueues
                /\ pc'[k] = "fell" => pc[k] = "check" /\ shutdown_flag /\ NoWork /\ UNCHANGED queue
<1>0. pc \in [Threads -> Labels] /\ k \in Threads
  BY ThreadFacts DEF TypeInv, TypeOK
<1> USE <1>0 DEF AtQueues, Popping, At, Goto, lists
<1>1. CASE ChefTop(k) \/ ChefSeesWork(k) \/ ChefWaits(k) \/ ChefUnlocks(k)
  BY <1>1 DEF ChefTop, ChefSeesWork, ChefWaits, ChefUnlocks, Jumps, Unlocks
<1>2. ASSUME NEW from \in {"pick", "fell"}, ChefPicks(k, from)
      PROVE  P
  <2>1. CASE Unlocks(k, from, "top")
    BY <2>1 DEF Unlocks
  <2>2. CASE \E q \in {"payment", "sofa"} : Work(q) /\ Sets(k, from, "pop", [loc[k] EXCEPT !.q = q])
    <3>1. ~NoWork
      BY <2>2 DEF Work, NoWork
    <3> QED BY <2>2, <3>1 DEF Sets
  <2> QED BY <1>2, <2>1, <2>2 DEF ChefPicks
<1>3. CASE ChefTakesRegister(k) \/ ChefAccepts(k)
  BY <1>3 DEF ChefTakesRegister, ChefAccepts, Registers
<1>4. CASE ChefServes(k) \/ ChefStartsBaking(k) \/ ChefBakes(k)
  BY <1>4 DEF ChefServes, ChefStartsBaking, ChefBakes, Signals, Jumps
<1>5. CASE QPop(k)
  BY <1>5 DEF QPop, Links, Sets, AfterPop
<1> QED BY <1>1, <1>2, <1>3, <1>4, <1>5 DEF Chef

\* A stolen lock stays stolen.
LEMMA StolenStays ==
    ASSUME stolen, NEW k \in Chefs, Chef(k)
    PROVE  stolen'
<1> USE DEF Jumps, Sets, Signals, Unlocks, Links, Release, mutexes
<1>1. CASE ChefTop(k) \/ ChefSeesWork(k) \/ ChefWaits(k) \/ ChefUnlocks(k)
  BY <1>1 DEF ChefTop, ChefSeesWork, ChefWaits, ChefUnlocks
<1>2. CASE \E from \in {"pick", "fell"} : ChefPicks(k, from)
  BY <1>2 DEF ChefPicks
<1>3. CASE ChefTakesRegister(k) \/ ChefAccepts(k)
  BY <1>3 DEF ChefTakesRegister, ChefAccepts, Registers
<1>4. CASE ChefServes(k) \/ ChefStartsBaking(k) \/ ChefBakes(k)
  BY <1>4 DEF ChefServes, ChefStartsBaking, ChefBakes
<1>5. CASE QPop(k)
  BY <1>5 DEF QPop
<1> QED BY <1>1, <1>2, <1>3, <1>4, <1>5 DEF Chef

\* The sections stay exclusive, and a chef that fell through stays without work.
LEMMA LockInvNext == TypeInv /\ LockInv /\ [Next]_vars => LockInv'
<1> SUFFICES ASSUME TypeInv, LockInv, [Next]_vars PROVE LockInv'
  OBVIOUS
<1>0. /\ pc \in [Threads -> Labels] /\ Main \in Threads
      /\ \A c \in Customers : c \in Threads /\ c # Main
      /\ \A k \in Chefs : k \in Threads /\ k # Main /\ k \notin Customers
  BY ThreadFacts, BakeryAssumption DEF TypeInv, TypeOK
<1>1. LockExclusion /\ Closing /\ FellIdle /\ Closing'
  BY ClosingNext DEF LockInv
\* The state in which a chef has fallen through: only chefs move.
<1>2. ASSUME ~stolen, NEW k \in Chefs, pc[k] = "fell"
      PROVE  /\ shutdown_flag /\ NoWork /\ pc[Main] = "join_chefs"
             /\ \A j \in Chefs : pc[j] \notin AtQueues
             /\ \A c \in Customers : pc[c] \in {"gone", "refused"}
  BY <1>1, <1>2 DEF FellIdle, Closing
<1>3. ASSUME UNCHANGED <<shutdown_flag, queue>>, stolen => stolen',
             \A j \in Chefs : /\ pc'[j] = "fell" => pc[j] = "fell"
                              /\ pc'[j] \in AtQueues => pc[j] \in AtQueues
      PROVE  FellIdle'
  BY <1>1, <1>3 DEF FellIdle, NoWork
<1>4. ASSUME NEW t \in Threads, Lock(t)
      PROVE  LockInv'
  <2>1. /\ UNCHANGED <<shutdown_flag, queue>> /\ LockExclusion' /\ UNCHANGED stolen
        /\ pc[t] \in DOMAIN AfterLock /\ pc' = [pc EXCEPT ![t] = AfterLock[pc[t]]]
    BY <1>1, <1>4, ActorFacts, LockKeepsExclusion DEF Lock, Goto
  <2>2. AfterLock[pc[t]] \notin AtQueues \cup {"fell"}
    BY <2>1, AfterLockLabels DEF AtQueues, Popping
  <2> QED BY <1>0, <1>1, <1>3, <2>1, <2>2 DEF LockInv
<1>5. ASSUME NEW k \in Chefs, Chef(k)
      PROVE  LockInv'
  <2>1. CASE ~stolen
    <3>1. Disciplined(k)
      BY <1>2, <1>5, <2>1, ChefDisciplined DEF NoWork
    <3>2. LockExclusion' /\ (stolen => stolen')
      BY <1>0, <1>1, <3>1, ExclusionKept DEF Disciplined, OthersStay, InSection, Locked, Pushing, Popping
    <3>3. \A j \in Chefs \ {k} : pc'[j] = pc[j]
      BY <1>0, <1>5, ChefAtRegister
    <3>4. UNCHANGED shutdown_flag
      BY <1>5, ActorFacts
    <3>5. CASE \E j \in Chefs : pc[j] = "fell"
      <4>1. NoWork /\ shutdown_flag /\ \A j \in Chefs : pc[j] \notin AtQueues
        BY <1>2, <2>1, <3>5
      <4>2. UNCHANGED queue /\ pc'[k] \notin AtQueues
        BY <1>5, <4>1, IdleChef
      <4> QED BY <1>1, <3>2, <3>3, <3>4, <4>1, <4>2 DEF LockInv, FellIdle, NoWork
    <3>6. CASE \A j \in Chefs : pc[j] # "fell"
      <4>1. CASE pc'[k] = "fell"
        <5>1. pc[k] = "check" /\ shutdown_flag /\ NoWork /\ UNCHANGED queue
          BY <1>5, <4>1, IdleChef
        <5>2. lock = k
          BY <1>0, <1>1, <2>1, <5>1 DEF LockExclusion, InSection, Locked
        <5>3. \A j \in Chefs \ {k} : pc[j] \notin AtQueues
          BY <1>0, <1>1, <2>1, <5>2 DEF LockExclusion, InSection, Locked, AtQueues
        <5> QED BY <1>1, <3>2, <3>3, <3>4, <4>1, <5>1, <5>3 DEF LockInv, FellIdle, NoWork, AtQueues, Popping
      <4>2. CASE pc'[k] # "fell"
        BY <1>1, <3>2, <3>3, <3>6, <4>2 DEF LockInv, FellIdle
      <4> QED BY <4>1, <4>2
    <3> QED BY <3>5, <3>6
  <2>2. CASE stolen
    <3>1. stolen'
      BY <1>5, <2>2, StolenStays
    <3> QED BY <1>1, <3>1 DEF LockInv, LockExclusion, FellIdle
  <2> QED BY <2>1, <2>2
<1>6. ASSUME NEW c \in Customers, Customer(c)
      PROVE  LockInv'
  <2>1. Disciplined(c) /\ UNCHANGED shutdown_flag /\ pc[c] \notin {"gone", "refused"}
    BY <1>6, CustomerDisciplined, ActorFacts
  <2>2. LockExclusion' /\ (stolen => stolen')
    BY <1>0, <1>1, <2>1, ExclusionKept DEF Disciplined, OthersStay, InSection, Locked, Pushing, Popping
  <2>3. ~stolen => \A k \in Chefs : pc[k] # "fell" /\ pc'[k] # "fell"
    BY <1>0, <1>2, <2>1 DEF Disciplined, OthersStay
  <2> QED BY <1>1, <2>2, <2>3 DEF LockInv, FellIdle
<1>7. CASE MainStep
  <2>1. LockExclusion' /\ (stolen => stolen')
    BY <1>0, <1>1, <1>7, MainDisciplined, ExclusionKept
  <2>2. \A k \in Chefs : pc'[k] = pc[k] \/ (pc[k] = "chef_cv" /\ pc'[k] = "chef_wake")
    BY <1>7, MainAndChefs
  <2>3. CASE \E k \in Chefs : pc[k] = "fell" /\ ~stolen
    <3>1. pc[Main] = "join_chefs"
      BY <1>2, <2>3
    <3>2. JoinChefs
      BY <1>7, <3>1 DEF MainStep, Refuse, Admit, Count, Create, Created, JoinCustomers, Shutdown,
                        ShutsDown, Sets, Jumps, At
    <3> QED BY <1>1, <2>1, <2>2, <3>1, <3>2, <1>3 DEF JoinChefs, Ends, lists, LockInv
  <2>4. CASE ~ \E k \in Chefs : pc[k] = "fell" /\ ~stolen
    BY <1>1, <2>1, <2>2, <2>4 DEF LockInv, FellIdle
  <2> QED BY <2>3, <2>4
<1>8. ASSUME NEW t \in Threads, PlatformStep(t)
      PROVE  LockInv'
  <2>1. LockExclusion'
    BY <1>1, <1>8, PlatformFacts DEF LockExclusion, InSection, Locked, Pushing, Popping
  <2>2. FellIdle'
    BY <1>0, <1>3, <1>8, PlatformFacts DEF AtQueues, Popping
  <2> QED BY <1>1, <2>1, <2>2 DEF LockInv
<1>9. CASE UNCHANGED vars
  BY <1>1, <1>3, <1>9 DEF vars, mutexes, lists, control, LockInv, LockExclusion, InSection
<1> QED BY <1>0, <1>4, <1>5, <1>6, <1>7, <1>8, <1>9 DEF Next, Step, Halted, PlatformStep

\* As long as no thread has released the lock of another one, what the code
\* does between an acquisition and a release of `lock' it does alone: the work
\* of chefs on the queues, both kinds of sitting down, leaving, and main's
\* counting, the double unlock of the shutdown (threads.c:19, 69) included.
THEOREM SectionsExclusive == Spec => []LockExclusion
<1>1. Init => LockInv
  <2> SUFFICES ASSUME Init PROVE LockInv
    OBVIOUS
  <2>1. \A t \in Threads : pc[t] \in {"top", "away", "arrive", "join"}
    BY DEF Init
  <2> QED BY <2>1, ThreadFacts DEF Init, LockInv, LockExclusion, Closing, FellIdle,
                                   InSection, Locked, Popping, Pushing, Threads
<1>2. LockInv => LockExclusion
  BY DEF LockInv
<1> QED BY InitType, NextType, LockInvNext, <1>1, <1>2, PTL DEF Spec

-----------------------------------------------------------------------------
(***************************************************************************)
(* Arrivals come one after the other.                                      *)
(***************************************************************************)

\* Customers that main has not come to are away.
AwayUntilTurn ==
    \A c \in Customers :
        c > cur \/ (c = cur /\ pc[Main] \in {"arrive", "admit", "count", "create"}) => pc[c] = "away"

\* A thread that waits is woken, at most; main alone moves the arrivals.
LEMMA CustomersLeaveMain ==
    ASSUME TypeInv, NEW c \in Customers, Customer(c)
    PROVE  UNCHANGED control /\ pc[c] # "away"
<1> USE DEF Jumps, Sets, Signals, Unlocks, Links, At, control
<1>1. CASE QPush(c) \/ QPop(c)
  BY <1>1 DEF QPush, QPop
<1>2. CASE PeekSofa(c) \/ PeekQueue(c) \/ Stand(c) \/ StandOn(c) \/ LeaveQueue(c)
  BY <1>2 DEF PeekSofa, PeekQueue, GoStand, Stand, StandOn, LeaveQueue
<1>3. CASE Sit(c) \/ SitStore(c) \/ Announce(c) \/ RequestCake(c)
  BY <1>3 DEF Sit, SitStore, Announce, RequestCake
<1>4. CASE Pay(c) \/ Paid(c) \/ Leave(c) \/ LeaveSofa(c) \/ LeaveShop(c) \/ Free(c)
  BY <1>4 DEF Pay, Paid, Leave, LeaveSofa, LeaveShop, Free
<1> QED BY <1>1, <1>2, <1>3, <1>4 DEF Customer

\* Neither do chefs, nor do they move anybody else.
LEMMA ChefsLeaveMain ==
    ASSUME TypeInv, NEW k \in Chefs, Chef(k)
    PROVE  /\ UNCHANGED <<counters, control>>
           /\ \A u \in Threads \ {k} : pc'[u] = pc[u] /\ loc'[u] = loc[u]
<1> USE DEF Jumps, Sets, Signals, Unlocks, Links, Goto, TypeInv, TypeOK
<1>1. CASE ChefTop(k) \/ ChefSeesWork(k) \/ ChefWaits(k) \/ ChefUnlocks(k)
  BY <1>1 DEF ChefTop, ChefSeesWork, ChefWaits, ChefUnlocks
<1>2. CASE \E from \in {"pick", "fell"} : ChefPicks(k, from)
  BY <1>2 DEF ChefPicks
<1>3. CASE ChefTakesRegister(k) \/ ChefAccepts(k)
  BY <1>3 DEF ChefTakesRegister, ChefAccepts, Registers
<1>4. CASE ChefServes(k) \/ ChefStartsBaking(k) \/ ChefBakes(k)
  BY <1>4 DEF ChefServes, ChefStartsBaking, ChefBakes
<1>5. CASE QPop(k)
  BY <1>5 DEF QPop
<1> QED BY <1>1, <1>2, <1>3, <1>4, <1>5 DEF Chef

\* A stolen lock stays stolen, whoever moves.
LEMMA StolenForever == TypeInv /\ [Next]_vars /\ stolen => stolen'
<1> SUFFICES ASSUME TypeInv, [Next]_vars, stolen PROVE stolen'
  OBVIOUS
<1>a. ASSUME NEW t \in Threads, KeepsSection(t) \/ LeavesSection(t)
      PROVE  stolen'
  BY <1>a DEF KeepsSection, LeavesSection, Release
<1>1. ASSUME NEW t \in Threads, Lock(t)
      PROVE  stolen'
  BY <1>1 DEF Lock
<1>2. ASSUME NEW k \in Chefs, Chef(k)
      PROVE  stolen'
  BY <1>2, StolenStays
<1>3. ASSUME NEW c \in Customers, Customer(c)
      PROVE  stolen'
  BY <1>3, <1>a, CustomerDisciplined, ThreadFacts DEF Disciplined
<1>4. CASE MainStep
  BY <1>4, <1>a, MainDisciplined, ThreadFacts
<1>5. ASSUME NEW t \in Threads, PlatformStep(t)
      PROVE  stolen'
  BY <1>5, PlatformFacts
<1>6. CASE UNCHANGED vars
  BY <1>6 DEF vars, mutexes
<1> QED BY <1>1, <1>2, <1>3, <1>4, <1>5, <1>6, ThreadFacts DEF Next, Step, Halted, PlatformStep

\* What a step of a customer, a chef or the platform leaves to main.
LEMMA OthersLeaveMain ==
    ASSUME TypeInv, NEW t \in Threads,
           (t \in Customers /\ Customer(t)) \/ (t \in Chefs /\ Chef(t)) \/ PlatformStep(t)
    PROVE  UNCHANGED cur /\ (pc'[Main] = pc[Main] \/ pc'[Main] \in {"chef_wake", "standing_wake"})
<1>0. Main \in Threads /\ \A u \in Customers \cup Chefs : u # Main
  BY ThreadFacts
<1>1. CASE t \in Customers /\ Customer(t)
  BY <1>0, <1>1, CustomersLeaveMain, CustomerDisciplined DEF Disciplined, OthersStay, control
<1>2. CASE t \in Chefs /\ Chef(t)
  BY <1>0, <1>2, ChefsLeaveMain DEF control
<1>3. CASE PlatformStep(t)
  <2>1. UNCHANGED cur
    BY <1>3 DEF PlatformStep, SpuriousWakeup, OwnerAssertion, BadPointer, CreateFails, Ends
  <2> QED BY <1>0, <1>3, <2>1, PlatformFacts
<1> QED BY <1>1, <1>2, <1>3

\* Main takes the arrivals in their order.
LEMMA AwayNext == TypeInv /\ AwayUntilTurn /\ [Next]_vars => AwayUntilTurn'
<1> SUFFICES ASSUME TypeInv, AwayUntilTurn, [Next]_vars PROVE AwayUntilTurn'
  OBVIOUS
<1>n. cur \in Int /\ \A c \in Customers : c \in Int
  BY BakeryAssumption DEF TypeInv, TypeOK, Customers
<1>0. /\ pc \in [Threads -> Labels] /\ Main \in Threads /\ cur \in Int
      /\ \A c \in Customers : c \in Threads /\ c # Main /\ c \notin Chefs /\ c \in Int
  BY <1>n, ThreadFacts, BakeryAssumption DEF TypeInv, TypeOK
<1>a. ASSUME NEW t \in Threads \ {Main}, UNCHANGED cur,
             pc'[Main] = pc[Main] \/ pc'[Main] \in {"chef_wake", "standing_wake"},
             pc[t] # "away" \/ pc'[t] = pc[t],
             \A u \in Threads \ {t} :
                \/ pc'[u] = pc[u]
                \/ pc[u] \in {"chef_cv", "standing_cv"} /\ pc'[u] \in {"chef_wake", "standing_wake"}
      PROVE  AwayUntilTurn'
  BY <1>0, <1>a DEF AwayUntilTurn
<1>1. ASSUME NEW t \in Threads, Lock(t)
      PROVE  AwayUntilTurn'
  <2>1. /\ UNCHANGED cur /\ pc[t] \in DOMAIN AfterLock /\ pc' = [pc EXCEPT ![t] = AfterLock[pc[t]]]
    BY <1>1 DEF Lock, Goto, control
  <2>2. CASE t # Main
    BY <1>0, <1>a, <2>1, <2>2, AfterLockLabels
  <2>3. CASE t = Main
    <3>1. pc'[Main] \in {"arrive", "admit", "count", "create"} => pc[Main] = "arrive"
      BY <1>0, <2>1, <2>3, AfterLockLabels
    <3>2. \A c \in Customers : pc'[c] = pc[c]
      BY <1>0, <2>1, <2>3
    <3> QED BY <2>1, <3>1, <3>2 DEF AwayUntilTurn
  <2> QED BY <2>2, <2>3
<1>2. ASSUME NEW k \in Chefs, Chef(k)
      PROVE  AwayUntilTurn'
  <2>1. k \in Threads /\ k # Main
    BY ThreadFacts
  <2>2. UNCHANGED cur /\ \A u \in Threads \ {k} : pc'[u] = pc[u]
    BY <1>2, ChefsLeaveMain DEF control
  <2> QED BY <1>0, <2>1, <2>2 DEF AwayUntilTurn
<1>3. ASSUME NEW c \in Customers, Customer(c)
      PROVE  AwayUntilTurn'
  <2>1. pc[c] # "away" /\ UNCHANGED cur
    BY <1>3, CustomersLeaveMain DEF control
  <2>2. OthersStay(c)
    BY <1>3, CustomerDisciplined DEF Disciplined
  <2> QED BY <1>0, <1>3, <1>a, <2>1, <2>2, OthersLeaveMain DEF OthersStay
<1>4. CASE MainStep
  <2>1. ASSUME cur' = cur + 1, \A c \in Customers : c > cur => pc'[c] = pc[c]
        PROVE  AwayUntilTurn'
    BY <1>0, <2>1 DEF AwayUntilTurn
  <2>2. CASE Refuse
    BY <1>0, <2>1, <2>2 DEF Refuse, NextArrival
  <2>3. CASE Created
    BY <1>0, <2>1, <2>3 DEF Created, Goto, NextArrival
  <2>4. CASE Admit \/ Count
    BY <1>0, <2>4 DEF Admit, Sets, Count, At, Goto, control, AwayUntilTurn
  <2>5. CASE Create
    BY <1>0, <2>5 DEF Create, At, control, AwayUntilTurn
  <2>6. CASE JoinCustomers
    BY <1>0, <2>6 DEF JoinCustomers, Jumps, At, Goto, control, AwayUntilTurn
  <2>7. CASE Shutdown
    BY <1>0, <2>7 DEF Shutdown, ShutsDown, BroadcastAndGoto, Woken, AwayUntilTurn
  <2>8. CASE JoinChefs
    BY <2>8 DEF JoinChefs, Ends, AwayUntilTurn
  <2> QED BY <1>4, <2>2, <2>3, <2>4, <2>5, <2>6, <2>7, <2>8 DEF MainStep
<1>5. ASSUME NEW t \in Threads, PlatformStep(t)
      PROVE  AwayUntilTurn'
  BY <1>0, <1>5, PlatformFacts, OthersLeaveMain DEF AwayUntilTurn
<1>6. CASE UNCHANGED vars
  BY <1>6 DEF vars, control, AwayUntilTurn
<1> QED BY <1>0, <1>1, <1>2, <1>3, <1>4, <1>5, <1>6 DEF Next, Step, Halted, PlatformStep

(***************************************************************************)
(* The cakes.                                                              *)
(***************************************************************************)

AtOven == {"bake", "await_bake"}
Baking(c) == {k \in Chefs : pc[k] = "bake" /\ loc[k].node = c}

\* A step of thread t that has nothing to do with orders and cakes.
NoCake(t) == /\ pc[t] \notin AtOven /\ pc'[t] \notin AtOven
             /\ sem'["start_bake"] = sem["start_bake"] /\ sem'["bake_done"] = sem["bake_done"]

\* Such steps are all those of the chefs but two, and of the customers but two.
LEMMA NoCakeSteps ==
    ASSUME TypeInv, NEW t \in Customers \cup Chefs, (t \in Customers /\ Customer(t)) \/ (t \in Chefs /\ Chef(t))
    PROVE  NoCake(t) \/ (t \in Customers /\ (RequestCake(t) \/ Pay(t)))
                     \/ (t \in Chefs /\ (ChefStartsBaking(t) \/ ChefBakes(t)))
<1>0. pc \in [Threads -> Labels] /\ t \in Threads /\ sem \in [Semaphores -> [Customers -> Nat]]
  BY ThreadFacts DEF TypeInv, TypeOK
<1>a. ASSUME NEW to, Goto(t, to), to \notin AtOven, pc[t] \notin AtOven, UNCHANGED sem
      PROVE  NoCake(t)
  BY <1>0, <1>a DEF Goto, NoCake
<1>b. ASSUME NEW from, NEW to, to \notin AtOven, from \notin AtOven
      PROVE  /\ Jumps(t, from, to) => NoCake(t)
             /\ \A l : Sets(t, from, to, l) => NoCake(t)
             /\ Unlocks(t, from, to) => NoCake(t)
             /\ \A qs, ns, n : Links(t, from, to, qs, ns, n) => NoCake(t)
             /\ \A s \in {"served", "payment_ok"}, c \in Customers :
                   Signals(t, from, to, Post(s, c)) \/ Signals(t, from, to, Wait(s, c)) => NoCake(t)
  <2>1. \A s \in {"served", "payment_ok"}, c \in Customers :
            /\ Post(s, c)["start_bake"] = sem["start_bake"] /\ Post(s, c)["bake_done"] = sem["bake_done"]
            /\ Wait(s, c)["start_bake"] = sem["start_bake"] /\ Wait(s, c)["bake_done"] = sem["bake_done"]
    BY <1>0 DEF Post, Wait, Semaphores
  <2>2. \A s \in {"served", "payment_ok"}, c \in Customers :
            Signals(t, from, to, Post(s, c)) \/ Signals(t, from, to, Wait(s, c)) => NoCake(t)
    BY <1>0, <1>b, <2>1 DEF Signals, At, Goto, NoCake
  <2>3. \A l : Sets(t, from, to, l) => NoCake(t)
    BY <1>a, <1>b DEF Sets, At
  <2>4. \A qs, ns, n : Links(t, from, to, qs, ns, n) => NoCake(t)
    BY <1>a, <1>b DEF Links, At
  <2>5. (Jumps(t, from, to) => NoCake(t)) /\ (Unlocks(t, from, to) => NoCake(t))
    BY <1>a, <1>b DEF Jumps, Unlocks, At
  <2> QED BY <2>2, <2>3, <2>4, <2>5
<1> USE DEF AtOven
<1>1. CASE QPush(t)
  BY <1>1, <1>b DEF QPush
<1>2. CASE QPop(t)
  BY <1>2, <1>b DEF QPop, AfterPop
<1>3. CASE t \in Chefs /\ Chef(t)
  <2>1. CASE ChefTop(t) \/ ChefSeesWork(t) \/ ChefWaits(t) \/ ChefUnlocks(t)
    BY <2>1, <1>b DEF ChefTop, ChefSeesWork, ChefWaits, ChefUnlocks
  <2>2. CASE \E from \in {"pick", "fell"} : ChefPicks(t, from)
    BY <2>2, <1>b DEF ChefPicks
  <2>3. CASE ChefTakesRegister(t)
    BY <2>3, <1>a DEF ChefTakesRegister, Registers, At
  <2>4. CASE ChefAccepts(t)
    <3>1. loc[t].node \in Customers
      BY <1>0, <2>4, LocalTypes DEF ChefAccepts, Alive
    <3>2. sem' = Post("payment_ok", loc[t].node)
      BY <2>4 DEF ChefAccepts
    <3>3. sem'["start_bake"] = sem["start_bake"] /\ sem'["bake_done"] = sem["bake_done"]
      BY <1>0, <3>1, <3>2 DEF Post, Semaphores
    <3> QED BY <1>0, <2>4, <3>3 DEF ChefAccepts, Registers, At, Goto, NoCake
  <2>5. CASE ChefServes(t)
    <3>1. loc[t].node \in Customers
      BY <1>0, <2>5, LocalTypes DEF ChefServes, Alive
    <3> QED BY <2>5, <3>1, <1>b DEF ChefServes
  <2> QED BY <1>2, <1>3, <2>1, <2>2, <2>3, <2>4, <2>5 DEF Chef
<1>4. CASE t \in Customers /\ Customer(t)
  <2>1. CASE PeekSofa(t) \/ PeekQueue(t) \/ Stand(t) \/ StandOn(t) \/ LeaveQueue(t) \/ Sit(t) \/ Leave(t)
    BY <2>1, <1>b DEF PeekSofa, PeekQueue, GoStand, Stand, StandOn, LeaveQueue, Sit, Leave
  <2>2. CASE SitStore(t)
    BY <2>2, <1>a DEF SitStore, At
  <2>3. CASE Announce(t)
    BY <1>0, <2>3 DEF Announce, At, BroadcastAndGoto, NoCake
  <2>4. CASE Paid(t)
    BY <1>4, <2>4, <1>b DEF Paid
  <2>5. CASE LeaveSofa(t)
    BY <2>5, <1>a DEF LeaveSofa, At
  <2>6. CASE LeaveShop(t)
    BY <1>0, <2>6 DEF LeaveShop, At, BroadcastAndGoto, NoCake
  <2>7. CASE Free(t)
    BY <2>7, <1>b DEF Free
  <2> QED BY <1>1, <1>2, <1>4, <2>1, <2>2, <2>3, <2>4, <2>5, <2>6, <2>7 DEF Customer
<1> QED BY <1>3, <1>4

\* What is counted does not change with them.
LEMMA CakesStay ==
    ASSUME TypeInv, CakeBakedOnce, NEW t \in Threads,
           sem'["start_bake"] = sem["start_bake"], sem'["bake_done"] = sem["bake_done"],
           pc'[t] = pc[t] \/ {pc[t], pc'[t]} \cap AtOven = {},
           loc'[t] = loc[t] \/ pc[t] \notin AtOven,
           \A u \in Threads \ {t} :
              /\ loc'[u] = loc[u]
              /\ \/ pc'[u] = pc[u]
                 \/ {pc[u], pc'[u]} \cap AtOven = {}
    PROVE  CakeBakedOnce'
<1>1. ASSUME NEW c \in Customers
      PROVE  Baking(c)' = Baking(c) /\ (pc'[c] = "await_bake" <=> pc[c] = "await_bake")
  BY ThreadFacts DEF Baking, AtOven
<1>2. \A c \in Customers :
         sem["start_bake"][c] + sem["bake_done"][c] + Cardinality(Baking(c))
         = IF pc[c] = "await_bake" THEN 1 ELSE 0
  BY DEF CakeBakedOnce, Baking
<1>3. \A c \in Customers :
         sem'["start_bake"][c] + sem'["bake_done"][c] + Cardinality(Baking(c)')
         = IF pc'[c] = "await_bake" THEN 1 ELSE 0
  BY <1>1, <1>2
<1> QED BY <1>3 DEF CakeBakedOnce, Baking

\* Order, oven, counter: a cake is always in one of the three places.
LEMMA CakeNext == TypeInv /\ AwayUntilTurn /\ CakeBakedOnce /\ [Next]_vars => CakeBakedOnce'
<1> SUFFICES ASSUME TypeInv, AwayUntilTurn, CakeBakedOnce, [Next]_vars PROVE CakeBakedOnce'
  OBVIOUS
<1>0. /\ pc \in [Threads -> Labels] /\ loc \in [Threads -> Local] /\ Main \in Threads
      /\ sem \in [Semaphores -> [Customers -> Nat]]
      /\ {"start_bake", "bake_done"} \subseteq Semaphores
  BY ThreadFacts DEF TypeInv, TypeOK, Local, Semaphores
<1>t. /\ \A c \in Customers : c \in Threads /\ c # Main /\ c \notin Chefs
      /\ \A k \in Chefs : k \in Threads /\ k # Main /\ k \notin Customers
  BY ThreadFacts, BakeryAssumption
<1>b. \A c \in Customers :
         /\ sem["start_bake"][c] + sem["bake_done"][c] + Cardinality(Baking(c))
            = IF pc[c] = "await_bake" THEN 1 ELSE 0
         /\ sem["start_bake"][c] \in Nat /\ sem["bake_done"][c] \in Nat
         /\ IsFiniteSet(Baking(c)) /\ Cardinality(Baking(c)) \in Nat
  <2>1. \A c \in Customers : IsFiniteSet(Baking(c)) /\ Cardinality(Baking(c)) \in Nat
    <3>1. \A c \in Customers : Baking(c) \subseteq Chefs
      BY DEF Baking
    <3> QED BY <3>1, BakeryAssumption, FS_Subset, FS_CardinalityType
  <2> QED BY <1>0, <2>1 DEF CakeBakedOnce, Baking
<1>c. ASSUME \A c \in Customers :
               sem'["start_bake"][c] + sem'["bake_done"][c] + Cardinality(Baking(c)')
               = IF pc'[c] = "await_bake" THEN 1 ELSE 0
      PROVE  CakeBakedOnce'
  BY <1>c DEF CakeBakedOnce, Baking
<1>1. ASSUME NEW t \in Threads, Lock(t)
      PROVE  CakeBakedOnce'
  <2>1. /\ UNCHANGED <<loc, sem>> /\ pc[t] \in DOMAIN AfterLock
        /\ pc' = [pc EXCEPT ![t] = AfterLock[pc[t]]]
    BY <1>1 DEF Lock, Goto
  <2>2. {pc[t], pc'[t]} \cap AtOven = {}
    BY <1>0, <2>1, AfterLockLabels DEF AtOven
  <2> QED BY <1>0, <2>1, <2>2, CakesStay
<1>2. ASSUME NEW t \in Customers \cup Chefs, NoCake(t), OthersStay(t)
      PROVE  CakeBakedOnce'
  <2>1. t \in Threads
    BY <1>t
  <2>2. \A u \in Threads \ {t} : /\ loc'[u] = loc[u]
                                 /\ pc'[u] = pc[u] \/ {pc[u], pc'[u]} \cap AtOven = {}
    BY <1>2 DEF OthersStay, AtOven
  <2>3. {pc[t], pc'[t]} \cap AtOven = {} /\ pc[t] \notin AtOven
    BY <1>2 DEF NoCake
  <2> QED BY <1>2, <2>1, <2>2, <2>3, CakesStay DEF NoCake
<1>3. ASSUME NEW k \in Chefs, ChefStartsBaking(k)
      PROVE  CakeBakedOnce'
  <2>1. PICK x \in Customers : x = loc[k].node
    BY <1>t, <1>3, LocalTypes DEF ChefStartsBaking, Alive
  <2>2. /\ pc[k] = "await_start" /\ pc' = [pc EXCEPT ![k] = "bake"] /\ loc' = loc
        /\ sem' = [sem EXCEPT !["start_bake"][x] = @ - 1]
    BY <1>3, <2>1 DEF ChefStartsBaking, Signals, At, Goto, Wait
  <2>3. /\ sem'["start_bake"][x] = sem["start_bake"][x] - 1
        /\ \A c \in Customers : /\ sem'["bake_done"][c] = sem["bake_done"][c]
                                /\ c # x => sem'["start_bake"][c] = sem["start_bake"][c]
    BY <1>0, <2>1, <2>2 DEF Semaphores
  <2>4. /\ Baking(x)' = Baking(x) \cup {k} /\ k \notin Baking(x)
        /\ \A c \in Customers : c # x => Baking(c)' = Baking(c)
    BY <1>0, <1>t, <2>1, <2>2 DEF Baking
  <2>5. Cardinality(Baking(x)') = Cardinality(Baking(x)) + 1
    BY <1>b, <2>1, <2>4, FS_AddElement, ZenonT(30)
  <2>6. \A c \in Customers : pc'[c] = pc[c]
    BY <1>t, <2>2
  <2>7. ASSUME NEW c \in Customers
        PROVE  sem'["start_bake"][c] + sem'["bake_done"][c] + Cardinality(Baking(c)')
               = IF pc'[c] = "await_bake" THEN 1 ELSE 0
    <3>1. CASE c = x
      <4>1. sem["start_bake"][x] \in Nat /\ sem["bake_done"][x] \in Nat /\ Cardinality(Baking(x)) \in Nat
        BY <1>b, <2>1
      <4>2. sem'["start_bake"][x] + sem'["bake_done"][x] + Cardinality(Baking(x)')
            = sem["start_bake"][x] + sem["bake_done"][x] + Cardinality(Baking(x))
        BY <2>1, <2>3, <2>5, <4>1
      <4> QED BY <1>b, <2>1, <2>6, <3>1, <4>2
    <3>2. CASE c # x
      BY <1>b, <2>3, <2>4, <2>6, <3>2
    <3> QED BY <3>1, <3>2
  <2> QED BY <1>c, <2>7
<1>4. ASSUME NEW k \in Chefs, ChefBakes(k)
      PROVE  CakeBakedOnce'
  <2>1. PICK x \in Customers : x = loc[k].node
    BY <1>t, <1>4, LocalTypes DEF ChefBakes, Alive
  <2>2. /\ pc[k] = "bake" /\ pc' = [pc EXCEPT ![k] = "top"] /\ loc' = loc
        /\ sem' = [sem EXCEPT !["bake_done"][x] = @ + 1]
    BY <1>4, <2>1 DEF ChefBakes, Signals, At, Goto, Post
  <2>3. /\ sem'["bake_done"][x] = sem["bake_done"][x] + 1
        /\ \A c \in Customers : /\ sem'["start_bake"][c] = sem["start_bake"][c]
                                /\ c # x => sem'["bake_done"][c] = sem["bake_done"][c]
    BY <1>0, <2>1, <2>2 DEF Semaphores
  <2>4. /\ Baking(x)' = Baking(x) \ {k} /\ k \in Baking(x)
        /\ \A c \in Customers : c # x => Baking(c)' = Baking(c)
    BY <1>0, <1>t, <2>1, <2>2 DEF Baking
  <2>5. Cardinality(Baking(x)') = Cardinality(Baking(x)) - 1
    <3>1. IsFiniteSet(Baking(x)) /\ k \in Baking(x)
      BY <1>b, <2>1, <2>4
    <3>2. Cardinality(Baking(x) \ {k}) = Cardinality(Baking(x)) - 1
      BY <3>1, FS_RemoveElement
    <3> QED BY <2>4, <3>2
  <2>6. \A c \in Customers : pc'[c] = pc[c]
    BY <1>t, <2>2
  <2>7. ASSUME NEW c \in Customers
        PROVE  sem'["start_bake"][c] + sem'["bake_done"][c] + Cardinality(Baking(c)')
               = IF pc'[c] = "await_bake" THEN 1 ELSE 0
    <3>1. CASE c = x
      <4>1. sem["start_bake"][x] \in Nat /\ sem["bake_done"][x] \in Nat /\ Cardinality(Baking(x)) \in Nat
        BY <1>b, <2>1
      <4>2. sem'["start_bake"][x] + sem'["bake_done"][x] + Cardinality(Baking(x)')
            = sem["start_bake"][x] + sem["bake_done"][x] + Cardinality(Baking(x))
        BY <2>1, <2>3, <2>5, <4>1
      <4> QED BY <1>b, <2>1, <2>6, <3>1, <4>2
    <3>2. CASE c # x
      BY <1>b, <2>3, <2>4, <2>6, <3>2
    <3> QED BY <3>1, <3>2
  <2> QED BY <1>c, <2>7
<1>5. ASSUME NEW x \in Customers, RequestCake(x) \/ Pay(x)
      PROVE  CakeBakedOnce'
  <2>1. \A c \in Customers : Baking(c)' = Baking(c)
    BY <1>0, <1>t, <1>5 DEF RequestCake, Pay, Signals, At, Goto, Baking
  <2>2. CASE RequestCake(x)
    <3>1. /\ pc[x] = "await_served" /\ pc' = [pc EXCEPT ![x] = "await_bake"]
          /\ sem' = [sem EXCEPT !["served"][x] = @ - 1, !["start_bake"][x] = @ + 1]
      BY <2>2 DEF RequestCake, Signals, At, Goto
    <3>2. /\ sem'["start_bake"][x] = sem["start_bake"][x] + 1
          /\ \A c \in Customers : /\ sem'["bake_done"][c] = sem["bake_done"][c]
                                  /\ c # x => sem'["start_bake"][c] = sem["start_bake"][c]
      BY <1>0, <3>1 DEF Semaphores
    <3>3. pc'[x] = "await_bake" /\ \A c \in Customers : c # x => pc'[c] = pc[c]
      BY <1>0, <1>t, <3>1
    <3>4. ASSUME NEW c \in Customers
          PROVE  sem'["start_bake"][c] + sem'["bake_done"][c] + Cardinality(Baking(c)')
                 = IF pc'[c] = "await_bake" THEN 1 ELSE 0
      <4>1. CASE c = x
        <5>1. sem["start_bake"][x] \in Nat /\ sem["bake_done"][x] \in Nat /\ Cardinality(Baking(x)) \in Nat
          BY <1>b
        <5>2. sem'["start_bake"][x] + sem'["bake_done"][x] + Cardinality(Baking(x)')
              = sem["start_bake"][x] + sem["bake_done"][x] + Cardinality(Baking(x)) + 1
          BY <2>1, <3>2, <5>1
        <5> QED BY <1>b, <3>1, <3>3, <4>1, <5>1, <5>2
      <4>2. CASE c # x
        BY <1>b, <2>1, <3>2, <3>3, <4>2
      <4> QED BY <4>1, <4>2
    <3> QED BY <1>c, <3>4
  <2>3. CASE Pay(x)
    <3>1. /\ pc[x] = "await_bake" /\ pc' = [pc EXCEPT ![x] = "pay_lock"] /\ sem["bake_done"][x] > 0
          /\ sem' = [sem EXCEPT !["bake_done"][x] = @ - 1]
      BY <2>3 DEF Pay, At, Goto, Wait
    <3>2. /\ sem'["bake_done"][x] = sem["bake_done"][x] - 1
          /\ \A c \in Customers : /\ sem'["start_bake"][c] = sem["start_bake"][c]
                                  /\ c # x => sem'["bake_done"][c] = sem["bake_done"][c]
      BY <1>0, <3>1 DEF Semaphores
    <3>3. pc'[x] = "pay_lock" /\ \A c \in Customers : c # x => pc'[c] = pc[c]
      BY <1>0, <1>t, <3>1
    <3>4. ASSUME NEW c \in Customers
          PROVE  sem'["start_bake"][c] + sem'["bake_done"][c] + Cardinality(Baking(c)')
                 = IF pc'[c] = "await_bake" THEN 1 ELSE 0
      <4>1. CASE c = x
        <5>1. sem["start_bake"][x] \in Nat /\ sem["bake_done"][x] \in Nat /\ Cardinality(Baking(x)) \in Nat
          BY <1>b
        <5>2. sem'["start_bake"][x] + sem'["bake_done"][x] + Cardinality(Baking(x)')
              = sem["start_bake"][x] + sem["bake_done"][x] + Cardinality(Baking(x)) - 1
          BY <2>1, <3>2, <5>1
        <5> QED BY <1>b, <3>1, <3>3, <4>1, <5>1, <5>2
      <4>2. CASE c # x
        BY <1>b, <2>1, <3>2, <3>3, <4>2
      <4> QED BY <4>1, <4>2
    <3> QED BY <1>c, <3>4
  <2> QED BY <1>5, <2>2, <2>3
<1>6. ASSUME NEW k \in Chefs, Chef(k)
      PROVE  CakeBakedOnce'
  <2>1. \A u \in Threads \ {k} : pc'[u] = pc[u] /\ loc'[u] = loc[u]
    BY <1>6, ChefsLeaveMain
  <2>2. NoCake(k) \/ ChefStartsBaking(k) \/ ChefBakes(k)
    BY <1>6, <1>t, NoCakeSteps
  <2> QED BY <1>2, <1>3, <1>4, <2>1, <2>2 DEF OthersStay
<1>7. ASSUME NEW c \in Customers, Customer(c)
      PROVE  CakeBakedOnce'
  <2>1. OthersStay(c)
    BY <1>7, CustomerDisciplined DEF Disciplined
  <2>2. NoCake(c) \/ RequestCake(c) \/ Pay(c)
    BY <1>7, <1>t, NoCakeSteps
  <2> QED BY <1>2, <1>5, <2>1, <2>2
<1>8. CASE MainStep
  <2>1. UNCHANGED sem
    BY <1>8 DEF MainStep, Refuse, NextArrival, Admit, Sets, Count, Create, Created, JoinCustomers, Jumps,
                Shutdown, ShutsDown, JoinChefs, Ends
  <2>2. \A u \in Threads \ {Main} : loc'[u] = loc[u]
    BY <1>0, <1>8 DEF MainStep, Refuse, NextArrival, Admit, Sets, Count, Create, Created, JoinCustomers,
                Jumps, Shutdown, ShutsDown, JoinChefs, Ends
  <2>3. pc[Main] \notin AtOven /\ pc'[Main] \notin AtOven
    <3>1. CASE Refuse \/ Create
      BY <1>0, <3>1 DEF Refuse, Create, At, AtOven, AfterArrival, NextArrival
    <3>2. CASE Admit \/ Count \/ Created \/ JoinCustomers
      BY <1>0, <3>2 DEF Admit, Sets, Count, Created, JoinCustomers, Jumps, At, Goto, AtOven, AfterArrival
    <3>3. CASE Shutdown \/ JoinChefs
      BY <1>0, <3>3 DEF Shutdown, ShutsDown, JoinChefs, Ends, BroadcastAndGoto, At, AtOven
    <3> QED BY <1>8, <3>1, <3>2, <3>3 DEF MainStep
  <2>4. ASSUME NEW u \in Threads \ {Main}
        PROVE  pc'[u] = pc[u] \/ {pc[u], pc'[u]} \cap AtOven = {}
    <3>1. CASE Refuse \/ Create
      <4>1. cur \in Customers
        BY <3>1, BakeryAssumption DEF Refuse, Create, At, Customers, TypeInv, TypeOK, ArrivalPending
      <4>2. pc[cur] = "away"
        BY <3>1, <4>1 DEF Refuse, Create, At, AwayUntilTurn
      <4> QED BY <1>0, <3>1, <4>1, <4>2 DEF Refuse, Create, AtOven
    <3>2. CASE Admit \/ Count \/ Created \/ JoinCustomers
      BY <1>0, <3>2 DEF Admit, Sets, Count, Created, JoinCustomers, Jumps, Goto
    <3>3. CASE Shutdown
      BY <1>0, <3>3 DEF Shutdown, BroadcastAndGoto, Woken, AtOven
    <3>4. CASE JoinChefs
      BY <3>4 DEF JoinChefs, Ends
    <3> QED BY <1>8, <3>1, <3>2, <3>3, <3>4 DEF MainStep
  <2> QED BY <1>0, <2>1, <2>2, <2>3, <2>4, CakesStay
<1>9. ASSUME NEW t \in Threads, PlatformStep(t)
      PROVE  CakeBakedOnce'
  <2>1. UNCHANGED sem
    BY <1>9 DEF PlatformStep, SpuriousWakeup, OwnerAssertion, BadPointer, CreateFails, Ends
  <2>2. \A u \in Threads : loc'[u] = loc[u] /\ (pc'[u] = pc[u] \/ {pc[u], pc'[u]} \cap AtOven = {})
    BY <1>9, PlatformFacts DEF AtOven
  <2> QED BY <1>0, <2>1, <2>2, CakesStay
<1>10. CASE UNCHANGED vars
  BY <1>0, <1>10, CakesStay DEF vars
<1> QED BY <1>0, <1>1, <1>6, <1>7, <1>8, <1>9, <1>10 DEF Next, Step, Halted, PlatformStep

\* Main finds nobody in the shop before it starts.
LEMMA InitAway == Init => AwayUntilTurn
BY ThreadFacts, BakeryAssumption DEF Init, AwayUntilTurn

\* Nothing is in the oven when the bakery opens.
LEMMA InitCakes == Init => CakeBakedOnce
<1> SUFFICES ASSUME Init, NEW c \in Customers
             PROVE  sem["start_bake"][c] + sem["bake_done"][c] + Cardinality(Baking(c))
                    = IF pc[c] = "await_bake" THEN 1 ELSE 0
  BY DEF CakeBakedOnce, Baking
<1>1. sem["start_bake"][c] = 0 /\ sem["bake_done"][c] = 0
  BY DEF Init, Semaphores
<1>2. \A t \in Threads : pc[t] \notin AtOven
  BY DEF Init, AtOven
<1>3. Baking(c) = {} /\ pc[c] # "await_bake"
  BY <1>2, ThreadFacts DEF Baking, AtOven
<1> QED BY <1>1, <1>3, FS_EmptySet

\* Each cake is baked once, by one chef, for a customer that waits for it.
THEOREM EveryCakeOnce == Spec => []CakeBakedOnce
BY InitType, InitAway, InitCakes, NextType, AwayNext, CakeNext, PTL DEF Spec

(***************************************************************************)
(* The counters.                                                           *)
(***************************************************************************)

Out == {"away", "refused", "free", "gone"}
SeatLabels == {"join_lock", "await_served", "await_bake", "pay_lock", "await_payment",
               "leave_lock", "leave", "leave_sofa"}
HasSeat(c) == pc[c] \in SeatLabels \/ (pc[c] \in Pushing /\ loc[c].q # "standing")

\* The labels between the load and the store of a counter.
Counting == {"sit_store", "leave_sofa", "leave_shop", "count"}

\* A customer on his way to a mutex knows to which queue he goes.
OnTheirWay == \A c \in Customers : /\ pc[c] = "join_lock" => loc[c].q = "sofa"
                                   /\ pc[c] = "pay_lock" => loc[c].q = "payment"

\* What was loaded from a counter is still its value: nobody else is in a section.
Loaded ==
    ~stolen =>
        /\ pc[Main] = "count" =>
              loc[Main].reg = current_customers /\ current_customers < MAX_CAPACITY
        /\ \A c \in Customers :
              /\ pc[c] = "leave_shop" => loc[c].reg = current_customers
              /\ pc[c] \in {"sit_store", "leave_sofa"} => loc[c].reg = sofa_occupied

CountInv == OnTheirWay /\ Loaded /\ CapacityKept /\ SeatsCounted

\* The sets that are counted, by customer.
LEMMA CountedSets ==
    /\ Seated = {c \in Customers : HasSeat(c)}
    /\ Inside = {c \in Customers : pc[c] \notin Out \/ (pc[Main] = "create" /\ c = cur)}
    /\ IsFiniteSet(Seated) /\ IsFiniteSet(Inside)
<1>1. IsFiniteSet(Customers)
  BY BakeryAssumption, FS_Interval DEF Customers
<1>2. Seated \subseteq Customers /\ Inside \subseteq Customers
  BY DEF Seated, Inside
<1>3. IsFiniteSet(Seated) /\ IsFiniteSet(Inside)
  BY <1>1, <1>2, FS_Subset
<1>4. Seated = {c \in Customers : HasSeat(c)}
  BY DEF Seated, HasSeat, SeatLabels
<1>5. Inside = {c \in Customers : pc[c] \notin Out \/ (pc[Main] = "create" /\ c = cur)}
  BY DEF Inside, Out
<1> QED BY <1>3, <1>4, <1>5

\* A step of a customer that neither takes nor leaves a seat, nor a place.
Uncounted(c) == /\ UNCHANGED counters
                /\ HasSeat(c)' = HasSeat(c) /\ (pc'[c] \in Out <=> pc[c] \in Out)
                /\ pc[c] \notin Counting /\ pc'[c] \notin Counting

\* All but five of his steps are such steps.
LEMMA UncountedSteps ==
    ASSUME TypeInv, OnTheirWay, NEW c \in Customers, Customer(c)
    PROVE  /\ pc'[c] = "join_lock" => loc'[c].q = "sofa"
           /\ pc'[c] = "pay_lock" => loc'[c].q = "payment"
           /\ Uncounted(c) \/ Sit(c) \/ SitStore(c) \/ Leave(c) \/ LeaveSofa(c) \/ LeaveShop(c)
<1> DEFINE P == /\ pc'[c] = "join_lock" => loc'[c].q = "sofa"
                /\ pc'[c] = "pay_lock" => loc'[c].q = "payment"
                /\ Uncounted(c) \/ Sit(c) \/ SitStore(c) \/ Leave(c) \/ LeaveSofa(c) \/ LeaveShop(c)
<1>0. /\ pc \in [Threads -> Labels] /\ c \in Threads /\ c \notin Chefs /\ loc \in [Threads -> Local]
      /\ loc[c] \in Local
  BY ThreadFacts, BakeryAssumption DEF TypeInv, TypeOK, Local
<1>a. ASSUME NEW to, pc'[c] = to, to \notin {"join_lock", "pay_lock"}, UNCHANGED counters,
             pc[c] \notin Counting, to \notin Counting, to \in Out <=> pc[c] \in Out,
             (to \in SeatLabels \/ (to \in Pushing /\ loc'[c].q # "standing")) <=> HasSeat(c)
      PROVE  P
  BY <1>0, <1>a DEF Uncounted, HasSeat
<1> USE DEF Counting, Out, SeatLabels, Pushing, Goto, At
<1>1. CASE QPush(c)
  <2>1. /\ UNCHANGED counters /\ pc[c] \in Pushing \ {"pushed"} /\ pc'[c] \in Pushing
        /\ loc'[c].q = loc[c].q
    BY <1>0, <1>1 DEF QPush, Links, Sets, Local
  <2> QED BY <1>a, <2>1 DEF HasSeat
<1>2. CASE QPop(c)
  <2>1. UNCHANGED counters /\ pc[c] \in Popping /\ pc'[c] \in Popping \cup {"sit"}
    BY <1>0, <1>2 DEF QPop, Links, Sets, AfterPop, Popping
  <2> QED BY <1>a, <2>1 DEF HasSeat, Popping
<1>3. CASE PeekSofa(c) \/ PeekQueue(c)
  <2>1. /\ UNCHANGED counters /\ pc[c] \in {"enters", "peek_queue"}
        /\ \/ pc'[c] \in {"peek_queue", "sit_lock"}
           \/ pc'[c] = "push" /\ loc'[c].q = "standing"
    BY <1>0, <1>3 DEF PeekSofa, PeekQueue, GoStand, Jumps, Sets, Local
  <2> QED BY <1>a, <2>1 DEF HasSeat
<1>4. CASE Stand(c) \/ StandOn(c) \/ LeaveQueue(c)
  <2>1. /\ UNCHANGED counters
        /\ (pc[c] = "pushed" /\ loc[c].q = "standing") \/ pc[c] = "my_turn"
        /\ pc'[c] \in {"standing_cv", "pop"}
    BY <1>0, <1>4 DEF Stand, StandOn, LeaveQueue, Unlocks, Jumps
  <2> QED BY <1>a, <2>1 DEF HasSeat
<1>5. CASE Announce(c)
  <2>1. /\ UNCHANGED counters /\ pc[c] = "pushed" /\ loc[c].q # "standing"
        /\ pc'[c] \in {"await_served", "await_payment"}
    BY <1>0, <1>5 DEF Announce, BroadcastAndGoto
  <2> QED BY <1>a, <2>1 DEF HasSeat
<1>6. CASE RequestCake(c) \/ Paid(c)
  <2>1. /\ UNCHANGED counters /\ pc[c] \in {"await_served", "await_payment"}
        /\ pc'[c] \in {"await_bake", "leave_lock"}
    BY <1>0, <1>6 DEF RequestCake, Paid, Signals
  <2> QED BY <1>a, <2>1 DEF HasSeat
<1>7. CASE Pay(c)
  <2>1. UNCHANGED counters /\ pc[c] = "await_bake" /\ pc'[c] = "pay_lock" /\ loc'[c].q = "payment"
    BY <1>0, <1>7 DEF Pay, Local
  <2> QED BY <2>1 DEF HasSeat, Uncounted
<1>8. CASE Free(c)
  <2>1. UNCHANGED counters /\ pc[c] = "free" /\ pc'[c] = "gone"
    BY <1>0, <1>8 DEF Free, Jumps
  <2> QED BY <1>a, <2>1 DEF HasSeat
<1>9. CASE Sit(c) \/ SitStore(c) \/ Leave(c) \/ LeaveSofa(c) \/ LeaveShop(c)
  <2>1. /\ pc'[c] \in {"sit_store", "join_lock", "leave_sofa", "leave_shop", "free"}
        /\ pc'[c] = "join_lock" => loc'[c].q = "sofa"
    BY <1>0, <1>9 DEF Sit, SitStore, Leave, LeaveSofa, LeaveShop, Sets, BroadcastAndGoto, Local
  <2> QED BY <1>9, <2>1
<1> QED BY <1>1, <1>2, <1>3, <1>4, <1>5, <1>6, <1>7, <1>8, <1>9 DEF Customer

\* Waking up does not count.
LEMMA OthersCount ==
    ASSUME TypeInv, NEW t \in Threads, OthersStay(t), NEW u \in Threads, u # t
    PROVE  /\ HasSeat(u)' = HasSeat(u) /\ (pc'[u] \in Out <=> pc[u] \in Out)
           /\ pc'[u] \in Counting \cup {"join_lock", "pay_lock", "create"} <=>
                pc[u] \in Counting \cup {"join_lock", "pay_lock", "create"}
           /\ pc[u] \in Counting \cup {"join_lock", "pay_lock", "create"} =>
                pc'[u] = pc[u] /\ loc'[u] = loc[u]
BY DEF OthersStay, HasSeat, Out, Counting, SeatLabels, Pushing

\* While `lock' is not stolen, the thread that counts is alone.
LEMMA CountsAlone ==
    ASSUME LockInv, ~stolen, NEW t \in Threads, NEW u \in Threads,
           pc[t] \in Counting \cup {"sit", "leave", "admit"}, pc[u] \in Counting
    PROVE  t = u
BY DEF LockInv, LockExclusion, InSection, Locked, Counting

\* A step that changes nothing that is counted, and loads nothing.
LEMMA CountsStay ==
    ASSUME TypeInv, CountInv, UNCHANGED counters, stolen => stolen', OnTheirWay',
           Seated' = Seated, Inside' = Inside,
           pc'[Main] = "count" => pc[Main] = "count" /\ loc'[Main] = loc[Main],
           \A c \in Customers : pc'[c] \in Counting => pc[c] = pc'[c] /\ loc'[c] = loc[c]
    PROVE  CountInv'
<1>1. CapacityKept' /\ SeatsCounted'
  BY DEF CountInv, CapacityKept, SeatsCounted, counters
<1>2. Loaded'
  BY DEF CountInv, Loaded, counters, Counting
<1> QED BY <1>1, <1>2 DEF CountInv

\* One customer moves; the others are only woken.
LEMMA SetsByOne ==
    ASSUME TypeInv, OnTheirWay, NEW c \in Customers, OthersStay(c), UNCHANGED cur,
           pc'[c] = "join_lock" => loc'[c].q = "sofa", pc'[c] = "pay_lock" => loc'[c].q = "payment"
    PROVE  /\ OnTheirWay'
           /\ HasSeat(c)' = HasSeat(c) => Seated' = Seated
           /\ ~HasSeat(c) /\ HasSeat(c)' => Seated' = Seated \cup {c} /\ c \notin Seated
           /\ HasSeat(c) /\ ~HasSeat(c)' => Seated' = Seated \ {c} /\ c \in Seated
           /\ (pc'[c] \in Out <=> pc[c] \in Out) => Inside' = Inside
           /\ pc[c] \notin Out /\ pc'[c] \in Out /\ pc[Main] # "create" =>
                Inside' = Inside \ {c} /\ c \in Inside
           /\ pc'[Main] = "count" => pc[Main] = "count" /\ loc'[Main] = loc[Main]
<1>0. c \in Threads /\ Main \in Threads /\ c # Main /\ Customers \subseteq Threads
  BY ThreadFacts
<1>1. \A u \in Customers \ {c} :
         /\ HasSeat(u)' = HasSeat(u) /\ (pc'[u] \in Out <=> pc[u] \in Out)
         /\ pc'[u] \in {"join_lock", "pay_lock"} => pc'[u] = pc[u] /\ loc'[u] = loc[u]
  BY <1>0, OthersCount
<1>2. /\ pc'[Main] = "create" <=> pc[Main] = "create"
      /\ pc'[Main] = "count" => pc[Main] = "count" /\ loc'[Main] = loc[Main]
  BY <1>0, OthersCount DEF Counting
<1>3. /\ Seated = {u \in Customers : HasSeat(u)} /\ Seated' = {u \in Customers : HasSeat(u)'}
      /\ Inside = {u \in Customers : pc[u] \notin Out \/ (pc[Main] = "create" /\ u = cur)}
      /\ Inside' = {u \in Customers : pc'[u] \notin Out \/ (pc'[Main] = "create" /\ u = cur')}
  BY CountedSets, Zenon DEF Seated, Inside, HasSeat, SeatLabels, Out
<1>4. OnTheirWay'
  BY <1>1 DEF OnTheirWay
<1>5. /\ HasSeat(c)' = HasSeat(c) => Seated' = Seated
      /\ ~HasSeat(c) /\ HasSeat(c)' => Seated' = Seated \cup {c} /\ c \notin Seated
      /\ HasSeat(c) /\ ~HasSeat(c)' => Seated' = Seated \ {c} /\ c \in Seated
  BY <1>1, <1>3
<1>6. /\ (pc'[c] \in Out <=> pc[c] \in Out) => Inside' = Inside
      /\ pc[c] \notin Out /\ pc'[c] \in Out /\ pc[Main] # "create" =>
                Inside' = Inside \ {c} /\ c \in Inside
  BY <1>1, <1>2, <1>3
<1> QED BY <1>2, <1>4, <1>5, <1>6

\* A customer keeps the counts.
LEMMA CustomerCounts ==
    ASSUME TypeInv, LockInv, CountInv, stolen => stolen', NEW c \in Customers, Customer(c)
    PROVE  CountInv'
<1>0. /\ OthersStay(c) /\ UNCHANGED cur /\ OnTheirWay
      /\ c \in Threads /\ Main \in Threads /\ c # Main /\ Customers \subseteq Threads
      /\ loc \in [Threads -> Local] /\ pc \in [Threads -> Labels]
      /\ current_customers \in Int /\ sofa_occupied \in Int
  BY CustomerDisciplined, CustomersLeaveMain, ThreadFacts
     DEF Disciplined, control, CountInv, TypeInv, TypeOK, Local
<1>1. /\ pc'[c] = "join_lock" => loc'[c].q = "sofa"
      /\ pc'[c] = "pay_lock" => loc'[c].q = "payment"
      /\ Uncounted(c) \/ Sit(c) \/ SitStore(c) \/ Leave(c) \/ LeaveSofa(c) \/ LeaveShop(c)
  BY <1>0, UncountedSteps
<1>2. OnTheirWay'
  BY <1>0, <1>1, SetsByOne
<1>3. \A u \in Customers \ {c} : pc'[u] \in Counting => pc[u] = pc'[u] /\ loc'[u] = loc[u]
  BY <1>0, OthersCount DEF Counting
<1>4. pc'[Main] = "count" => pc[Main] = "count" /\ loc'[Main] = loc[Main]
  BY <1>0, <1>1, SetsByOne
<1>5. IsFiniteSet(Seated) /\ IsFiniteSet(Inside)
  BY CountedSets
<1>6. Cardinality(Seated) \in Nat /\ Cardinality(Inside) \in Nat
  BY <1>5, FS_CardinalityType
<1> USE DEF At, Goto
<1>7. CASE Uncounted(c)
  <2>1. Seated' = Seated /\ Inside' = Inside
    BY <1>0, <1>1, <1>7, SetsByOne DEF Uncounted
  <2> QED BY <1>2, <1>3, <1>4, <1>7, <2>1, CountsStay DEF Uncounted
<1>8. CASE Sit(c) \/ Leave(c)
  <2>1. /\ UNCHANGED counters /\ loc'[c].reg = sofa_occupied
        /\ \/ pc[c] = "sit" /\ pc'[c] = "sit_store"
           \/ pc[c] = "leave" /\ pc'[c] = "leave_sofa"
    BY <1>0, <1>8 DEF Sit, Leave, Sets, Local
  <2>2. HasSeat(c)' = HasSeat(c) /\ (pc'[c] \in Out <=> pc[c] \in Out)
    BY <2>1 DEF HasSeat, SeatLabels, Pushing, Out
  <2>3. Seated' = Seated /\ Inside' = Inside
    BY <1>0, <1>1, <2>2, SetsByOne
  <2>4. CapacityKept' /\ SeatsCounted'
    BY <2>1, <2>3 DEF CountInv, CapacityKept, SeatsCounted, counters
  <2>5. Loaded'
    BY <1>3, <1>4, <2>1 DEF CountInv, Loaded, Counting, counters
  <2> QED BY <1>2, <2>4, <2>5 DEF CountInv
<1>9. CASE SitStore(c)
  <2>1. /\ pc[c] = "sit_store" /\ pc'[c] = "join_lock"
        /\ sofa_occupied' = loc[c].reg + 1 /\ UNCHANGED current_customers
    BY <1>0, <1>9 DEF SitStore
  <2>2. ~HasSeat(c) /\ HasSeat(c)' /\ (pc'[c] \in Out <=> pc[c] \in Out)
    BY <2>1 DEF HasSeat, SeatLabels, Pushing, Out
  <2>3. Seated' = Seated \cup {c} /\ c \notin Seated /\ Inside' = Inside
    BY <1>0, <1>1, <2>2, SetsByOne
  <2>4. Cardinality(Seated') = Cardinality(Seated) + 1
    BY <1>5, <2>3, FS_AddElement
  <2>5. ASSUME ~stolen'
        PROVE  /\ sofa_occupied' = Cardinality(Seated')
               /\ \A u \in Threads \ {c} : pc'[u] \notin Counting \ {"count"} \/ u \notin Customers
               /\ pc'[Main] # "count"
    <3>1. loc[c].reg = sofa_occupied /\ sofa_occupied = Cardinality(Seated)
      BY <2>1, <2>5 DEF CountInv, Loaded, SeatsCounted
    <3>2. \A u \in Threads \ {c} : pc[u] \notin Counting
      BY <1>0, <2>1, <2>5, CountsAlone DEF Counting
    <3>3. \A u \in Customers \ {c} : pc'[u] \notin Counting
      BY <1>0, <1>3, <3>2
    <3>4. pc'[Main] # "count"
      BY <1>0, <1>4, <3>2 DEF Counting
    <3> QED BY <2>1, <2>4, <3>1, <3>3, <3>4
  <2>6. CapacityKept'
    BY <2>1, <2>3 DEF CountInv, CapacityKept
  <2>7. SeatsCounted'
    BY <2>5 DEF SeatsCounted
  <2>8. Loaded'
    BY <1>0, <2>1, <2>5 DEF Loaded, Counting
  <2> QED BY <1>2, <2>6, <2>7, <2>8 DEF CountInv
<1>10. CASE LeaveSofa(c)
  <2>1. /\ pc[c] = "leave_sofa" /\ pc'[c] = "leave_shop" /\ loc'[c].reg = current_customers
        /\ sofa_occupied' = loc[c].reg - 1 /\ UNCHANGED current_customers
    BY <1>0, <1>10 DEF LeaveSofa, Local
  <2>2. HasSeat(c) /\ ~HasSeat(c)' /\ (pc'[c] \in Out <=> pc[c] \in Out)
    BY <2>1 DEF HasSeat, SeatLabels, Pushing, Out
  <2>3. Seated' = Seated \ {c} /\ c \in Seated /\ Inside' = Inside
    BY <1>0, <1>1, <2>2, SetsByOne
  <2>4. Cardinality(Seated') = Cardinality(Seated) - 1
    BY <1>5, <2>3, FS_RemoveElement
  <2>5. ASSUME ~stolen'
        PROVE  /\ sofa_occupied' = Cardinality(Seated')
               /\ \A u \in Customers \ {c} : pc'[u] \notin Counting
               /\ pc'[Main] # "count"
    <3>1. loc[c].reg = sofa_occupied /\ sofa_occupied = Cardinality(Seated)
      BY <2>1, <2>5 DEF CountInv, Loaded, SeatsCounted
    <3>2. \A u \in Threads \ {c} : pc[u] \notin Counting
      BY <1>0, <2>1, <2>5, CountsAlone DEF Counting
    <3>3. \A u \in Customers \ {c} : pc'[u] \notin Counting
      BY <1>0, <1>3, <3>2
    <3>4. pc'[Main] # "count"
      BY <1>0, <1>4, <3>2 DEF Counting
    <3> QED BY <2>1, <2>4, <3>1, <3>3, <3>4
  <2>6. CapacityKept'
    BY <2>1, <2>3 DEF CountInv, CapacityKept
  <2>7. SeatsCounted'
    BY <2>5 DEF SeatsCounted
  <2>8. Loaded'
    BY <1>0, <2>1, <2>5 DEF Loaded, Counting
  <2> QED BY <1>2, <2>6, <2>7, <2>8 DEF CountInv
<1>11. CASE LeaveShop(c)
  <2>1. /\ pc[c] = "leave_shop" /\ pc'[c] = "free"
        /\ current_customers' = loc[c].reg - 1 /\ UNCHANGED sofa_occupied
    BY <1>0, <1>11 DEF LeaveShop, BroadcastAndGoto
  <2>2. HasSeat(c)' = HasSeat(c) /\ pc[c] \notin Out /\ pc'[c] \in Out
    BY <2>1 DEF HasSeat, SeatLabels, Pushing, Out
  <2>3. Seated' = Seated
    BY <1>0, <1>1, <2>2, SetsByOne
  <2>4. ASSUME ~stolen'
        PROVE  /\ current_customers' = Cardinality(Inside') /\ Cardinality(Inside') <= MAX_CAPACITY
               /\ \A u \in Customers \ {c} : pc'[u] \notin Counting
               /\ pc'[Main] # "count"
    <3>1. /\ loc[c].reg = current_customers /\ current_customers = Cardinality(Inside)
          /\ Cardinality(Inside) <= MAX_CAPACITY /\ MAX_CAPACITY \in Nat
      BY <2>1, <2>4, BakeryAssumption DEF CountInv, Loaded, CapacityKept
    <3>2. \A u \in Threads \ {c} : pc[u] \notin Counting
      BY <1>0, <2>1, <2>4, CountsAlone DEF Counting
    <3>3. \A u \in Customers \ {c} : pc'[u] \notin Counting
      BY <1>0, <1>3, <3>2
    <3>4. pc'[Main] # "count"
      BY <1>0, <1>4, <3>2 DEF Counting
    <3>5. pc[Main] # "create"
      BY <1>0, <2>1, <2>4 DEF LockInv, LockExclusion, InSection, Locked
    <3>6. Inside' = Inside \ {c} /\ c \in Inside
      BY <1>0, <1>1, <2>2, <3>5, SetsByOne
    <3>7. Cardinality(Inside') = Cardinality(Inside) - 1
      BY <1>5, <3>6, FS_RemoveElement
    <3> QED BY <1>6, <2>1, <3>1, <3>3, <3>4, <3>7
  <2>5. CapacityKept'
    BY <2>4 DEF CapacityKept
  <2>6. SeatsCounted'
    BY <2>1, <2>3 DEF CountInv, SeatsCounted
  <2>7. Loaded'
    BY <1>0, <2>1, <2>4 DEF Loaded, Counting
  <2> QED BY <1>2, <2>5, <2>6, <2>7 DEF CountInv
<1> QED BY <1>1, <1>7, <1>8, <1>9, <1>10, <1>11

\* So does main.
LEMMA MainCounts ==
    ASSUME TypeInv, LockInv, AwayUntilTurn, CountInv, stolen => stolen', MainStep
    PROVE  CountInv'
<1>0. /\ Main \in Threads /\ \A c \in Customers : c \in Threads /\ c # Main /\ c \notin Chefs
      /\ loc \in [Threads -> Local] /\ pc \in [Threads -> Labels] /\ current_customers \in Int
  BY ThreadFacts, BakeryAssumption DEF TypeInv, TypeOK, Local
<1>1. /\ Seated = {u \in Customers : HasSeat(u)} /\ Seated' = {u \in Customers : HasSeat(u)'}
      /\ Inside = {u \in Customers : pc[u] \notin Out \/ (pc[Main] = "create" /\ u = cur)}
      /\ Inside' = {u \in Customers : pc'[u] \notin Out \/ (pc'[Main] = "create" /\ u = cur')}
      /\ IsFiniteSet(Seated) /\ IsFiniteSet(Inside)
  BY CountedSets, Zenon DEF Seated, Inside, HasSeat, SeatLabels, Out
<1>a. ASSUME UNCHANGED counters, pc'[Main] # "count", pc[Main] # "create", pc'[Main] # "create",
             \A c \in Customers : /\ loc'[c] = loc[c]
                                  /\ \/ pc'[c] = pc[c]
                                     \/ {pc[c], pc'[c]} \subseteq {"chef_cv", "chef_wake"}
                                     \/ pc[c] = "away" /\ pc'[c] = "refused"
      PROVE  CountInv'
  <2>1. \A c \in Customers : /\ HasSeat(c)' = HasSeat(c) /\ (pc'[c] \in Out <=> pc[c] \in Out)
                             /\ pc'[c] \in Counting \cup {"join_lock", "pay_lock"} => pc'[c] = pc[c]
    BY <1>a DEF HasSeat, SeatLabels, Pushing, Out, Counting
  <2>2. Seated' = Seated /\ Inside' = Inside
    BY <1>1, <1>a, <2>1
  <2>3. OnTheirWay'
    BY <1>a, <2>1 DEF CountInv, OnTheirWay
  <2> QED BY <1>a, <2>1, <2>2, <2>3, CountsStay
<1>c. ASSUME pc[Main] = "create" \/ pc[Main] = "admit" \/ pc[Main] = "count"
      PROVE  cur \in Customers /\ pc[cur] = "away"
  <2>1. cur \in Customers
    BY <1>c, BakeryAssumption DEF Customers, TypeInv, TypeOK, ArrivalPending
  <2> QED BY <1>c, <2>1 DEF AwayUntilTurn
<1> USE DEF At, Goto
<1>2. CASE Refuse
  <2>1. /\ pc' = [pc EXCEPT ![Main] = AfterArrival, ![cur] = "refused"] /\ UNCHANGED <<loc, counters>>
        /\ pc[Main] = "admit"
    BY <1>2 DEF Refuse, NextArrival
  <2>2. /\ pc'[Main] = AfterArrival
        /\ \A c \in Customers : pc'[c] = IF c = cur THEN "refused" ELSE pc[c]
    BY <1>0, <1>c, <2>1
  <2> QED BY <1>0, <1>a, <1>c, <2>1, <2>2 DEF AfterArrival
<1>3. CASE Admit
  <2>1. /\ pc[Main] = "admit" /\ pc' = [pc EXCEPT ![Main] = "count"] /\ UNCHANGED <<counters, cur>>
        /\ loc'[Main].reg = current_customers /\ current_customers < MAX_CAPACITY
        /\ \A c \in Customers : loc'[c] = loc[c]
    BY <1>0, <1>3 DEF Admit, Sets, control, Local
  <2>2. pc'[Main] = "count" /\ \A c \in Customers : pc'[c] = pc[c] /\ HasSeat(c)' = HasSeat(c)
    BY <1>0, <2>1 DEF HasSeat
  <2>3. Seated' = Seated /\ Inside' = Inside
    BY <1>1, <2>1, <2>2
  <2>4. OnTheirWay' /\ CapacityKept' /\ SeatsCounted'
    BY <2>1, <2>2, <2>3 DEF CountInv, OnTheirWay, CapacityKept, SeatsCounted, counters
  <2>5. Loaded'
    BY <2>1, <2>2 DEF CountInv, Loaded, counters
  <2> QED BY <2>4, <2>5 DEF CountInv
<1>4. CASE Count
  <2>1. /\ pc[Main] = "count" /\ pc' = [pc EXCEPT ![Main] = "create"]
        /\ UNCHANGED <<loc, sofa_occupied, cur, stolen>> /\ current_customers' = loc[Main].reg + 1
    BY <1>4 DEF Count, control, mutexes
  <2>2. pc'[Main] = "create" /\ \A c \in Customers : pc'[c] = pc[c] /\ HasSeat(c)' = HasSeat(c)
    BY <1>0, <2>1 DEF HasSeat
  <2>3. Seated' = Seated /\ Inside' = Inside \cup {cur} /\ cur \notin Inside
    BY <1>1, <1>c, <2>1, <2>2 DEF Out
  <2>4. Cardinality(Inside') = Cardinality(Inside) + 1 /\ Cardinality(Inside) \in Nat
    BY <1>1, <2>3, FS_AddElement, FS_CardinalityType
  <2>5. ASSUME ~stolen'
        PROVE  /\ current_customers' = Cardinality(Inside') /\ Cardinality(Inside') <= MAX_CAPACITY
               /\ \A c \in Customers : pc'[c] \notin Counting
    <3>1. /\ loc[Main].reg = current_customers /\ current_customers = Cardinality(Inside)
          /\ current_customers < MAX_CAPACITY /\ MAX_CAPACITY \in Nat
      BY <2>1, <2>5, BakeryAssumption DEF CountInv, Loaded, CapacityKept
    <3>2. \A c \in Customers : pc[c] \notin Counting
      BY <1>0, <2>1, <2>5, CountsAlone DEF Counting
    <3> QED BY <2>1, <2>2, <2>4, <3>1, <3>2
  <2>6. OnTheirWay' /\ SeatsCounted'
    BY <2>1, <2>2, <2>3 DEF CountInv, OnTheirWay, SeatsCounted
  <2>7. CapacityKept' /\ Loaded'
    BY <2>2, <2>5 DEF CapacityKept, Loaded, Counting
  <2> QED BY <2>6, <2>7 DEF CountInv
<1>5. CASE Create
  <2>1. /\ pc[Main] = "create" /\ pc' = [pc EXCEPT ![Main] = "created", ![cur] = "enters"]
        /\ UNCHANGED <<loc, counters, cur>>
    BY <1>5 DEF Create, control
  <2>2. cur \in Customers /\ pc[cur] = "away"
    BY <1>c, <2>1
  <2>3. /\ pc'[Main] = "created"
        /\ \A c \in Customers : pc'[c] = IF c = cur THEN "enters" ELSE pc[c]
    BY <1>0, <2>1, <2>2
  <2>a. loc' = loc /\ cur' = cur /\ UNCHANGED counters
    BY <2>1
  <2>b. pc'[cur] = "enters" /\ \A c \in Customers : c # cur => pc'[c] = pc[c]
    BY <2>2, <2>3
  <2>4. ASSUME NEW c \in Customers
        PROVE  HasSeat(c)' = HasSeat(c)
    <3>1. CASE c = cur
      BY <2>a, <2>b, <2>2, <3>1 DEF HasSeat, SeatLabels, Pushing
    <3>2. CASE c # cur
      BY <2>a, <2>b, <3>2 DEF HasSeat
    <3> QED BY <3>1, <3>2
  <2>5. Seated' = Seated
    BY <1>1, <2>4
  <2>6. ASSUME NEW c \in Customers
        PROVE  /\ (pc'[c] \notin Out \/ (pc'[Main] = "create" /\ c = cur'))
                    <=> (pc[c] \notin Out \/ (pc[Main] = "create" /\ c = cur))
               /\ pc'[c] \notin {"chef_cv", "chef_wake"} => pc'[c] = pc[c] \/ pc'[c] = "enters"
    BY <2>1, <2>2, <2>3, <2>a, <2>b DEF Out
  <2>7. Inside' = Inside
    BY <1>1, <2>6
  <2>8. OnTheirWay'
    BY <2>a, <2>3, <2>4 DEF CountInv, OnTheirWay
  <2>9. \A c \in Customers : pc'[c] \in Counting \cup {"join_lock", "pay_lock"} => pc'[c] = pc[c]
    BY <2>3 DEF Counting
  <2> QED BY <2>a, <2>1, <2>3, <2>5, <2>7, <2>8, <2>9, CountsStay
<1>6. CASE Created
  BY <1>0, <1>6, <1>a DEF Created, NextArrival, AfterArrival
<1>7. CASE JoinCustomers
  BY <1>0, <1>7, <1>a DEF JoinCustomers, Jumps
<1>8. CASE Shutdown
  BY <1>0, <1>8, <1>a DEF Shutdown, ShutsDown, BroadcastAndGoto, Woken
<1>9. CASE JoinChefs
  BY <1>0, <1>9, <1>a DEF JoinChefs, Ends
<1> QED BY <1>2, <1>3, <1>4, <1>5, <1>6, <1>7, <1>8, <1>9 DEF MainStep

\* The counters count, until the lock is stolen.
LEMMA CountNext == TypeInv /\ LockInv /\ AwayUntilTurn /\ CountInv /\ [Next]_vars => CountInv'
<1> SUFFICES ASSUME TypeInv, LockInv, AwayUntilTurn, CountInv, [Next]_vars PROVE CountInv'
  OBVIOUS
<1>0. /\ pc \in [Threads -> Labels] /\ Main \in Threads /\ (stolen => stolen')
      /\ \A c \in Customers : c \in Threads /\ c # Main /\ c \notin Chefs
      /\ \A k \in Chefs : k \in Threads /\ k # Main
  BY ThreadFacts, BakeryAssumption, StolenForever DEF TypeInv, TypeOK
<1>1. /\ Seated = {u \in Customers : HasSeat(u)} /\ Seated' = {u \in Customers : HasSeat(u)'}
      /\ Inside = {u \in Customers : pc[u] \notin Out \/ (pc[Main] = "create" /\ u = cur)}
      /\ Inside' = {u \in Customers : pc'[u] \notin Out \/ (pc'[Main] = "create" /\ u = cur')}
  BY CountedSets, Zenon DEF Seated, Inside, HasSeat, SeatLabels, Out
<1>a. ASSUME UNCHANGED <<counters, cur>>, pc'[Main] = "create" <=> pc[Main] = "create",
             pc'[Main] = "count" => pc[Main] = "count" /\ loc'[Main] = loc[Main],
             \A c \in Customers :
                 /\ loc'[c] = loc[c] /\ HasSeat(c)' = HasSeat(c)
                 /\ pc'[c] \in Out <=> pc[c] \in Out
                 /\ pc'[c] \in Counting \cup {"join_lock", "pay_lock"} => pc'[c] = pc[c]
      PROVE  CountInv'
  <2>1. Seated' = Seated /\ Inside' = Inside
    BY <1>1, <1>a
  <2>2. OnTheirWay'
    BY <1>a DEF CountInv, OnTheirWay
  <2> QED BY <1>0, <1>a, <2>1, <2>2, CountsStay
<1>2. ASSUME NEW t \in Threads, Lock(t)
      PROVE  CountInv'
  <2>1. /\ UNCHANGED <<counters, cur, loc>> /\ pc[t] \in DOMAIN AfterLock
        /\ pc' = [pc EXCEPT ![t] = AfterLock[pc[t]]]
    BY <1>2 DEF Lock, Goto, control
  <2>2. \A u \in Threads : pc'[u] = IF u = t THEN AfterLock[pc[t]] ELSE pc[u]
    BY <1>0, <2>1
  <2>3. /\ pc'[Main] = "create" <=> pc[Main] = "create"
        /\ pc'[Main] = "count" => pc[Main] = "count"
    BY <1>0, <2>1, <2>2, AfterLockLabels
  <2>4. ASSUME NEW c \in Customers
        PROVE  /\ HasSeat(c)' = HasSeat(c)
               /\ pc'[c] \in Out <=> pc[c] \in Out
               /\ pc'[c] \in Counting \cup {"join_lock", "pay_lock"} => pc'[c] = pc[c]
    <3>1. CASE c # t
      BY <1>0, <2>1, <2>2, <3>1 DEF HasSeat
    <3>2. CASE c = t
      <4>1. pc[c] \in DOMAIN AfterLock /\ pc'[c] = AfterLock[pc[c]] /\ loc'[c] = loc[c]
        BY <1>0, <2>1, <2>2, <3>2
      <4>2. /\ pc'[c] \notin Counting \cup {"join_lock", "pay_lock"} \cup Out
            /\ pc[c] \notin Out
        BY <4>1, AfterLockLabels DEF Counting, Out
      <4>3. HasSeat(c)' = HasSeat(c)
        <5>1. /\ pc[c] = "join_lock" => loc[c].q = "sofa"
              /\ pc[c] = "pay_lock" => loc[c].q = "payment"
          BY DEF CountInv, OnTheirWay
        <5>2. CASE pc[c] \in {"join_lock", "pay_lock"}
          BY <4>1, <5>1, <5>2 DEF HasSeat, SeatLabels, Pushing, AfterLock
        <5>3. CASE pc[c] = "leave_lock"
          BY <4>1, <5>3 DEF HasSeat, SeatLabels, Pushing, AfterLock
        <5>4. CASE pc[c] \in {"lock", "chef_wake", "standing_wake", "sit_lock", "arrive", "close"}
          BY <4>1, <5>4 DEF HasSeat, SeatLabels, Pushing, AfterLock
        <5> QED BY <4>1, <5>2, <5>3, <5>4, AfterLockLabels
      <4> QED BY <4>2, <4>3
    <3> QED BY <3>1, <3>2
  <2> QED BY <1>a, <2>1, <2>3, <2>4
<1>3. ASSUME NEW k \in Chefs, Chef(k)
      PROVE  CountInv'
  <2>1. /\ UNCHANGED <<counters, cur>> /\ pc'[Main] = pc[Main] /\ loc'[Main] = loc[Main]
        /\ \A c \in Customers : pc'[c] = pc[c] /\ loc'[c] = loc[c]
    BY <1>0, <1>3, ChefsLeaveMain DEF control
  <2>2. \A c \in Customers : HasSeat(c)' = HasSeat(c)
    BY <2>1 DEF HasSeat
  <2> QED BY <1>a, <2>1, <2>2
<1>4. ASSUME NEW c \in Customers, Customer(c)
      PROVE  CountInv'
  BY <1>0, <1>4, CustomerCounts
<1>5. CASE MainStep
  BY <1>0, <1>5, MainCounts
<1>6. ASSUME NEW t \in Threads, PlatformStep(t)
      PROVE  CountInv'
  <2>1. UNCHANGED <<counters, cur>>
    BY <1>6 DEF PlatformStep, SpuriousWakeup, OwnerAssertion, BadPointer, CreateFails, Ends
  <2>2. /\ UNCHANGED loc
        /\ \A u \in Threads : pc'[u] = pc[u] \/ (pc[u] \in {"chef_cv", "standing_cv"} /\
                                                 pc'[u] \in {"chef_wake", "standing_wake"})
    BY <1>6, PlatformFacts
  <2>3. \A c \in Customers : /\ HasSeat(c)' = HasSeat(c) /\ (pc'[c] \in Out <=> pc[c] \in Out)
                             /\ pc'[c] \in Counting \cup {"join_lock", "pay_lock"} => pc'[c] = pc[c]
    BY <1>0, <2>2 DEF HasSeat, SeatLabels, Pushing, Out, Counting
  <2> QED BY <1>0, <1>a, <2>1, <2>2, <2>3
<1>7. CASE UNCHANGED vars
  BY <1>7, <1>a DEF vars, control, HasSeat
<1> QED BY <1>0, <1>2, <1>3, <1>4, <1>5, <1>6, <1>7 DEF Next, Step, Halted, PlatformStep

\* The bakery is empty when it opens.
LEMMA InitCounts == Init => LockInv /\ CountInv
<1> SUFFICES ASSUME Init PROVE LockInv /\ CountInv
  OBVIOUS
<1>1. /\ \A t \in Threads : pc[t] \in {"top", "away", "arrive", "join"}
      /\ \A c \in Customers : pc[c] = "away"
      /\ pc[Main] \in {"arrive", "join"}
  BY ThreadFacts, BakeryAssumption DEF Init
<1>2. LockInv
  BY <1>1, ThreadFacts DEF Init, LockInv, LockExclusion, Closing, FellIdle,
                           InSection, Locked, Popping, Pushing, Threads
<1>3. Seated = {} /\ Inside = {}
  BY <1>1, CountedSets DEF HasSeat, SeatLabels, Pushing, Out
<1>4. CapacityKept /\ SeatsCounted
  BY <1>3, FS_EmptySet, BakeryAssumption DEF Init, CapacityKept, SeatsCounted
<1>5. OnTheirWay /\ Loaded
  BY <1>1 DEF OnTheirWay, Loaded
<1> QED BY <1>2, <1>4, <1>5 DEF CountInv

\* Until a thread releases the lock of another one, the customers inside are
\* counted and never more than the bakery holds, whoever comes and leaves at
\* the same time.
THEOREM NeverOverCapacity == Spec => []CapacityKept
<1>1. CountInv => CapacityKept
  BY DEF CountInv
<1> QED BY InitType, InitAway, InitCounts, NextType, LockInvNext, AwayNext, CountNext, <1>1, PTL DEF Spec

\* Until then sofa_occupied counts the seats taken, also with damaged queues.
THEOREM SeatsAreCounted == Spec => []SeatsCounted
<1>1. CountInv => SeatsCounted
  BY DEF CountInv
<1> QED BY InitType, InitAway, InitCounts, NextType, LockInvNext, AwayNext, CountNext, <1>1, PTL DEF Spec

-----------------------------------------------------------------------------
(***************************************************************************)
(* The linked lists, when there is a seat for everyone.                    *)
(***************************************************************************)

Distinct(s) == \A i, j \in DOMAIN s : s[i] = s[j] => i = j
Elements(s) == {s[i] : i \in DOMAIN s}
End(s) == IF s = <<>> THEN None ELSE s[Len(s)]
Chained(s, head, links) == s \in Seq(Customers) /\ Distinct(s) /\ IsChain(s, head, links)

\* The first of several links where two chains part.
LEMMA ChainWithin ==
    ASSUME NEW s \in Seq(Customers), NEW r \in Seq(Customers), NEW head, NEW links,
           IsChain(s, head, links), IsChain(r, head, links)
    PROVE  Len(s) <= Len(r) /\ \A i \in 1 .. Len(s) : s[i] = r[i]
<1> DEFINE Parted == {i \in 1 .. Len(s) : ~(i <= Len(r) /\ s[i] = r[i])}
<1>0. None \notin Customers
  BY ThreadFacts
<1>1. SUFFICES ASSUME Parted # {} PROVE FALSE
  <2>1. CASE Parted = {}
    <3>1. \A i \in 1 .. Len(s) : i <= Len(r) /\ s[i] = r[i]
      BY <2>1
    <3> QED BY <3>1
  <2> QED BY <2>1
<1>2. PICK i \in Parted : \A j \in Parted : ~(j < i)
  <2>1. Parted \subseteq Nat
    OBVIOUS
  <2>2. PICK i \in Parted : \A j \in Parted : ~(<<j, i>> \in OpToRel(<, Nat))
    <3> HIDE DEF Parted
    <3> QED BY <1>1, <2>1, WFMin, NatLessThanWellFounded, Zenon
  <2> QED BY <2>1, <2>2 DEF OpToRel
<1>3. i \in 1 .. Len(s) /\ ~(i <= Len(r) /\ s[i] = r[i])
  OBVIOUS
<1>4. i # 1
  BY <1>0, <1>3 DEF IsChain
<1>5. i - 1 \in 1 .. Len(s) /\ i - 1 \notin Parted
  BY <1>2, <1>3, <1>4
<1>6. i - 1 \in 1 .. Len(r) /\ s[i - 1] = r[i - 1] /\ s[i] \in Customers
  BY <1>3, <1>5
<1>7. links[s[i - 1]] = s[i]
  BY <1>3, <1>5 DEF IsChain
<1>8. links[r[i - 1]] = IF i - 1 = Len(r) THEN None ELSE r[i]
  BY <1>3, <1>6 DEF IsChain
<1> QED BY <1>0, <1>3, <1>6, <1>7, <1>8

\* A chain without repetition is the chain from its head.
LEMMA ChainIs ==
    ASSUME NEW s, NEW head, NEW links, Chained(s, head, links)
    PROVE  Chain(head, links) = s
<1> DEFINE Bounded == UNION {[1 .. n -> Customers] : n \in 0 .. Arrivals}
           r == Chain(head, links)
<1>0. s \in Seq(Customers) /\ Distinct(s) /\ IsChain(s, head, links)
  BY DEF Chained
<1>1. Len(s) \in 0 .. Arrivals
  <2>1. s \in Injection(1 .. Len(s), Customers)
    BY <1>0 DEF Injection, IsInjective, Distinct
  <2>2. IsFiniteSet(Customers) /\ Cardinality(Customers) = Arrivals
    <3>1. 1 \in Int /\ Arrivals \in Int /\ Arrivals >= 0
      BY BakeryAssumption
    <3> QED BY <3>1, FS_Interval DEF Customers
  <2>3. Cardinality(1 .. Len(s)) = Len(s)
    <3>1. ASSUME NEW n \in Nat PROVE Cardinality(1 .. n) = n
      BY FS_Interval
    <3> QED BY <1>0, <3>1
  <2>4. Cardinality(1 .. Len(s)) <= Cardinality(Customers)
    BY <2>1, <2>2, FS_Injection
  <2> QED BY <2>2, <2>3, <2>4
<1>2. s \in Bounded
  <2>1. s \in [1 .. Len(s) -> Customers]
    BY <1>0
  <2> QED BY <1>1, <2>1
<1>3. r \in Bounded /\ IsChain(r, head, links)
  BY <1>0, <1>2 DEF Chain
<1>4. r \in Seq(Customers)
  BY <1>3, BakeryAssumption
<1>5. Len(s) <= Len(r) /\ \A i \in 1 .. Len(s) : s[i] = r[i]
  BY <1>0, <1>3, <1>4, ChainWithin
<1>6. Len(r) <= Len(s)
  BY <1>0, <1>3, <1>4, ChainWithin
<1> HIDE DEF r
<1>7. Len(r) = Len(s) /\ \A i \in 1 .. Len(s) : s[i] = r[i]
  BY <1>0, <1>4, <1>5, <1>6
<1>8. s = [i \in 1 .. Len(s) |-> s[i]] /\ r = [i \in 1 .. Len(r) |-> r[i]]
  BY <1>0, <1>4
<1>9. s = r
  BY <1>7, <1>8, Zenon
<1> QED BY <1>9 DEF r

\* The links of others do not matter to a chain.
LEMMA ChainKept ==
    ASSUME NEW s, NEW head, NEW links, Chained(s, head, links),
           NEW links2, \A c \in Elements(s) : links2[c] = links[c]
    PROVE  Chained(s, head, links2)
<1>1. \A i \in DOMAIN s : s[i] \in Elements(s)
  BY DEF Elements
<1> QED BY <1>1 DEF Chained, IsChain

\* A customer linked to the end is the new end.
LEMMA ChainGrows ==
    ASSUME NEW s, NEW head, NEW links \in [Customers -> Customers \cup {None}],
           Chained(s, head, links),
           NEW c \in Customers, c \notin Elements(s), links[c] = None
    PROVE  /\ Elements(Append(s, c)) = Elements(s) \cup {c} /\ End(Append(s, c)) = c
           /\ Append(s, c) # <<>> /\ Len(Append(s, c)) = Len(s) + 1
           /\ s = <<>> => Chained(Append(s, c), c, links)
           /\ s # <<>> => Chained(Append(s, c), head, [links EXCEPT ![End(s)] = c])
<1> DEFINE r == Append(s, c)
<1>0. s \in Seq(Customers) /\ Distinct(s) /\ IsChain(s, head, links)
  BY DEF Chained
<1>1. /\ r \in Seq(Customers) /\ Len(r) = Len(s) + 1 /\ r # <<>>
      /\ DOMAIN r = 1 .. Len(s) + 1 /\ DOMAIN s = 1 .. Len(s) /\ Len(s) \in Nat
      /\ \A i \in 1 .. Len(s) : r[i] = s[i] /\ s[i] \in Customers
      /\ r[Len(s) + 1] = c
  BY <1>0
<1> HIDE DEF r
<1>2. \A i \in 1 .. Len(s) : s[i] # c
  BY <1>1 DEF Elements
<1>3. Distinct(r)
  BY <1>0, <1>1, <1>2 DEF Distinct
<1>4. Elements(r) = Elements(s) \cup {c}
  BY <1>1 DEF Elements
<1>5. End(r) = c
  BY <1>1 DEF End
<1>6. CASE s = <<>>
  <2>1. Len(s) = 0
    BY <1>6
  <2>2. IsChain(r, c, links)
    BY <1>1, <2>1 DEF IsChain
  <2> QED BY <1>1, <1>3, <1>4, <1>5, <1>6, <2>2 DEF Chained, r
<1>7. CASE s # <<>>
  <2> DEFINE new == [links EXCEPT ![End(s)] = c]
  <2>1. Len(s) \in 1 .. Len(s) /\ End(s) = s[Len(s)]
    BY <1>0, <1>7 DEF End
  <2>2. \A i \in 1 .. Len(s) : s[i] = End(s) => i = Len(s)
    BY <1>0, <1>1, <2>1 DEF Distinct
  <2>3. \A i \in 1 .. Len(s) : new[s[i]] = IF i = Len(s) THEN c ELSE links[s[i]]
    BY <1>1, <2>1, <2>2
  <2>4. new[c] = None
    BY <1>2, <2>1
  <2> HIDE DEF new
  <2>5. head = r[1]
    BY <1>0, <1>1, <1>7, <2>1 DEF IsChain
  <2>6. ASSUME NEW i \in DOMAIN r
        PROVE  new[r[i]] = IF i = Len(r) THEN None ELSE r[i + 1]
    <3>1. CASE i = Len(s) + 1
      BY <1>1, <2>4, <3>1
    <3>2. CASE i = Len(s)
      <4>1. Len(s) # Len(r) /\ r[Len(s) + 1] = c /\ r[Len(s)] = s[Len(s)]
        <5>1. Len(r) = Len(s) + 1 /\ Len(s) \in Nat /\ r[Len(s) + 1] = c
          BY <1>1
        <5>2. r[Len(s)] = s[Len(s)]
          BY <1>1, <2>1
        <5> QED BY <5>1, <5>2
      <4>2. new[s[Len(s)]] = c
        BY <2>1, <2>3
      <4> QED BY <3>2, <4>1, <4>2
    <3>3. CASE i \in 1 .. Len(s) /\ i # Len(s)
      <4>1. i + 1 \in 1 .. Len(s) /\ links[s[i]] = s[i + 1]
        BY <1>0, <1>1, <3>3 DEF IsChain
      <4> QED BY <1>1, <2>3, <3>3, <4>1
    <3> QED BY <1>1, <3>1, <3>2, <3>3
  <2>7. IsChain(r, head, new)
    BY <1>1, <2>5, <2>6 DEF IsChain
  <2>8. Chained(r, head, new)
    BY <1>1, <1>3, <2>7 DEF Chained
  <2> QED BY <1>1, <1>4, <1>5, <1>7, <2>8 DEF r, new
<1> QED BY <1>6, <1>7

\* The chain from the second link on.
LEMMA ChainShrinks ==
    ASSUME NEW s, NEW head, NEW links, Chained(s, head, links), s # <<>>
    PROVE  /\ head = s[1] /\ head \in Customers /\ Chained(Tail(s), links[head], links)
           /\ head \in Elements(s) /\ Elements(Tail(s)) = Elements(s) \ {head}
           /\ Len(Tail(s)) = Len(s) - 1 /\ (Tail(s) # <<>> => End(Tail(s)) = End(s))
<1> DEFINE r == Tail(s)
<1>0. s \in Seq(Customers) /\ Distinct(s) /\ IsChain(s, head, links)
  BY DEF Chained
<1>1. /\ r \in Seq(Customers) /\ Len(r) = Len(s) - 1 /\ Len(s) \in Nat /\ Len(s) > 0
      /\ DOMAIN r = 1 .. Len(s) - 1 /\ DOMAIN s = 1 .. Len(s)
      /\ \A i \in 1 .. Len(s) - 1 : r[i] = s[i + 1]
      /\ \A i \in 1 .. Len(s) : s[i] \in Customers
  BY <1>0
<1>2. (r = <<>>) <=> Len(r) = 0
  <2>1. \A u \in Seq(Customers) : (u = <<>>) <=> Len(u) = 0
    OBVIOUS
  <2> QED BY <1>1, <2>1
<1> HIDE DEF r
<1>3. head = s[1] /\ links[head] = IF Len(s) = 1 THEN None ELSE s[2]
  BY <1>0, <1>1 DEF IsChain
<1>4. Distinct(r)
  <2> SUFFICES ASSUME NEW i \in DOMAIN r, NEW j \in DOMAIN r, r[i] = r[j] PROVE i = j
    BY DEF Distinct
  <2>1. i + 1 \in DOMAIN s /\ j + 1 \in DOMAIN s /\ s[i + 1] = s[j + 1]
    BY <1>1
  <2>2. i + 1 = j + 1
    BY <1>0, <2>1 DEF Distinct
  <2> QED BY <1>1, <2>2
<1>5. IsChain(r, links[head], links)
  <2>1. links[head] = IF r = <<>> THEN None ELSE r[1]
    BY <1>1, <1>2, <1>3
  <2>2. ASSUME NEW i \in DOMAIN r
        PROVE  links[r[i]] = IF i = Len(r) THEN None ELSE r[i + 1]
    <3>1. i + 1 \in DOMAIN s /\ r[i] = s[i + 1] /\ (i # Len(r) => r[i + 1] = s[i + 2])
      BY <1>1
    <3>2. links[s[i + 1]] = IF i + 1 = Len(s) THEN None ELSE s[i + 2]
      BY <1>0, <1>1, <3>1 DEF IsChain
    <3> QED BY <1>1, <3>1, <3>2
  <2> QED BY <2>1, <2>2 DEF IsChain
<1>6. Elements(r) = Elements(s) \ {head}
  <2>1. ASSUME NEW i \in DOMAIN r PROVE r[i] \in Elements(s) \ {head}
    <3>1. i + 1 \in DOMAIN s /\ r[i] = s[i + 1] /\ 1 \in DOMAIN s /\ i + 1 # 1
      BY <1>1
    <3> QED BY <1>0, <1>3, <3>1 DEF Distinct, Elements
  <2>2. ASSUME NEW i \in DOMAIN s, s[i] # head PROVE s[i] \in Elements(r)
    <3>1. i - 1 \in DOMAIN r /\ r[i - 1] = s[i]
      BY <1>1, <1>3, <2>2
    <3> QED BY <3>1 DEF Elements
  <2> QED BY <2>1, <2>2 DEF Elements
<1>7. r # <<>> => End(r) = End(s)
  BY <1>1, <1>2 DEF End
<1>8. head \in Elements(s) /\ head \in Customers
  BY <1>1, <1>3 DEF Elements
<1> QED BY <1>1, <1>3, <1>4, <1>5, <1>6, <1>7, <1>8 DEF Chained, r

-----------------------------------------------------------------------------
(***************************************************************************)
(* The lists, the customers and the chefs when there is a seat for all.    *)
(***************************************************************************)

Lined == {"sofa", "payment"}
Members(q) == Elements(Line(q))

\* Between these labels a thread has the head of a list ahead of tail or size.
Editing == {"link_tail", "push_size", "pop_tail", "pop_size"}
Edited(q) == \E t \in Threads : pc[t] \in Editing /\ loc[t].q = q

\* A queue is a linked list; its tail and its size agree with it when no
\* thread is in the middle of q_push or q_pop.
LinesKept ==
    \A q \in Lined :
        /\ Chained(Line(q), queue[q].head, next)
        /\ ~Edited(q) => queue[q].tail = End(Line(q)) /\ queue[q].size = Len(Line(q))

\* What the thread in the middle has read and written so far.
Editor(t) ==
    LET q == loc[t].q  s == Line(q)
    IN  /\ pc[t] = "link_first" => s = <<>>
        /\ pc[t] \in {"load_tail", "link_next", "link_tail", "pop", "pop_head"} => s # <<>>
        /\ pc[t] \in {"link_first", "load_tail", "link_next"} => next[t] = None
        /\ pc[t] = "link_next" => loc[t].node = End(s)
        /\ pc[t] \in Linked => End(s) = t
        /\ pc[t] \in {"link_tail", "push_size"} => queue[q].size = Len(s) - 1
        /\ pc[t] \in {"push_size", "pop_size"} =>
              queue[q].tail = End(s) /\ loc[t].reg = queue[q].size
        /\ pc[t] \in {"pop", "pop_head"} /\ q = "sofa" => Line("payment") = <<>>
        /\ pc[t] = "pop_head" => loc[t].node = queue[q].head
        /\ pc[t] \in {"pop_tail", "pop_size"} => queue[q].size = Len(s) + 1
        /\ pc[t] = "pop_tail" /\ s # <<>> => queue[q].tail = End(s)
Editors == \A t \in Threads : Editor(t)

\* Nobody is on his way to the standing queue, or from it.
\* Customers push, the others pop.
Standing == {"standing_cv", "standing_wake", "my_turn"}
ListLabels == (Pushing \ {"push"}) \cup Popping
NobodyStood ==
    /\ \A t \in Threads : /\ loc[t].q \in Lined
                          /\ pc[t] \notin Standing
                          /\ pc[t] \in ListLabels => (pc[t] \in Pushing <=> t \in Customers)
    /\ queue["standing"].size = 0

\* A customer in a list has just been put there, or waits to be taken off it.
Queued ==
    \A c \in Customers :
        /\ c \in Members("sofa") =>
              /\ pc[c] = "await_served" \/ (pc[c] \in Linked /\ loc[c].q = "sofa")
              /\ sem["served"][c] = 0
        /\ c \in Members("payment") =>
              /\ pc[c] = "await_payment" \/ (pc[c] \in Linked /\ loc[c].q = "payment")
              /\ sem["payment_ok"][c] = 0

\* A chef handles the customer that he took off a list, and is the only one.
Taken == {"pop_tail", "pop_size", "popped"}
Handling == Taken \cup {"serve", "await_start", "bake", "register", "accept"}
Handles(k, c) == pc[k] \in Handling /\ loc[k].node = c
TookFrom(k, q) == pc[k] \in Taken /\ loc[k].q = q
HandledBy(k) ==
    LET c == loc[k].node
    IN  /\ pc[k] \in Handling => /\ c \in Customers
                                 /\ c \notin Members("sofa") /\ c \notin Members("payment")
                                 /\ \A j \in Chefs : Handles(j, c) => j = k
        /\ TookFrom(k, "sofa") \/ pc[k] = "serve" => pc[c] = "await_served" /\ sem["served"][c] = 0
        /\ pc[k] = "await_start" =>
              (pc[c] = "await_served" /\ sem["served"][c] = 1) \/ pc[c] = "await_bake"
        /\ pc[k] = "bake" => pc[c] = "await_bake"
        /\ TookFrom(k, "payment") \/ pc[k] \in {"register", "accept"} => pc[c] = "await_payment"
Handled == \A k \in Chefs : HandledBy(k)

\* Only the customer who waits for a semaphore is posted to, by the chef that
\* handles him or has just finished with him.
Posted ==
    \A c \in Customers :
        /\ sem["served"][c] > 0 => /\ pc[c] = "await_served"
                                   /\ \E k \in Chefs : pc[k] = "await_start" /\ loc[k].node = c
        /\ sem["bake_done"][c] > 0 => /\ pc[c] = "await_bake" /\ sem["bake_done"][c] = 1
                                      /\ \A k \in Chefs : ~Handles(k, c)
        /\ sem["payment_ok"][c] > 0 => /\ pc[c] = "await_payment" /\ sem["payment_ok"][c] = 1
                                       /\ \A k \in Chefs : ~Handles(k, c)

ServiceInv == LinesKept /\ Editors /\ NobodyStood /\ Queued /\ Handled /\ Posted

\* The labels these facts speak of.
Marked == ListLabels \cup Handling \cup {"await_served", "await_bake", "await_payment"} \cup Standing

\* The lists stay when nobody touches them.
LEMMA ListsStay ==
    ASSUME LinesKept, Editors, UNCHANGED lists,
           \A u \in Threads : \/ pc'[u] = pc[u] /\ loc'[u] = loc[u]
                              \/ pc'[u] \notin ListLabels /\ pc[u] \notin Editing
    PROVE  /\ LinesKept' /\ Editors'
           /\ \A q : Line(q)' = Line(q) /\ Members(q)' = Members(q)
<1>1. UNCHANGED <<queue, next>>
  BY DEF lists
<1>2. \A q : Line(q)' = Line(q) /\ Members(q)' = Members(q)
  BY <1>1 DEF Line, Members
<1>3. \A q : Edited(q)' = Edited(q)
  <2>1. \A u \in Threads : (pc'[u] \in Editing /\ loc'[u] = loc[u]) <=> (pc[u] \in Editing /\ loc'[u] = loc[u])
    BY DEF ListLabels, Editing, Pushing, Popping
  <2>2. \A u \in Threads : pc'[u] \in Editing \/ pc[u] \in Editing => loc'[u] = loc[u]
    BY DEF ListLabels, Editing, Pushing, Popping
  <2> QED BY <2>1, <2>2 DEF Edited
<1>4. LinesKept'
  BY <1>1, <1>2, <1>3 DEF LinesKept
<1>5. ASSUME NEW u \in Threads
      PROVE  Editor(u)'
  <2>1. CASE pc'[u] = pc[u] /\ loc'[u] = loc[u]
    BY <1>1, <1>2, <2>1 DEF Editors, Editor
  <2>2. CASE pc'[u] \notin ListLabels
    BY <2>2 DEF Editor, ListLabels, Pushing, Popping, Linked
  <2> QED BY <2>1, <2>2
<1> QED BY <1>2, <1>4, <1>5 DEF Editors

\* A step between two places where a thread has nothing to do with the lists.
Elsewhere ==
    /\ UNCHANGED <<lists, sem>>
    /\ \A u \in Threads : \/ pc'[u] = pc[u] /\ loc'[u] = loc[u]
                          \/ pc'[u] \notin Marked /\ pc[u] \notin Marked /\ loc'[u].q \in Lined

LEMMA ElsewhereKeeps == ServiceInv /\ Elsewhere => ServiceInv'
<1> SUFFICES ASSUME ServiceInv, Elsewhere PROVE ServiceInv'
  OBVIOUS
<1> USE DEF ServiceInv
<1>0. Customers \subseteq Threads /\ Chefs \subseteq Threads /\ UNCHANGED <<queue, sem>>
  BY ThreadFacts DEF Elsewhere, lists
<1>1. /\ LinesKept' /\ Editors'
      /\ \A q : Line(q)' = Line(q) /\ Members(q)' = Members(q)
  BY ListsStay DEF Elsewhere, Marked, ListLabels, Editing, Pushing, Popping
<1>2. NobodyStood'
  BY <1>0 DEF Elsewhere, NobodyStood, Marked
<1>3. Queued'
  BY <1>0, <1>1 DEF Elsewhere, Queued, Marked, ListLabels, Linked, Pushing
<1>4. \A k \in Chefs : \A c : Handles(k, c)' = Handles(k, c)
  BY <1>0 DEF Elsewhere, Handles, Marked
<1>5. ASSUME NEW k \in Chefs PROVE HandledBy(k)'
  <2>1. CASE pc'[k] \notin Marked
    BY <2>1 DEF HandledBy, TookFrom, Handling, Marked
  <2>2. CASE pc'[k] = pc[k] /\ loc'[k] = loc[k]
    <3>1. HandledBy(k)
      BY DEF Handled
    <3>2. ASSUME NEW c \in Customers, pc[c] \in {"await_served", "await_bake", "await_payment"}
          PROVE  pc'[c] = pc[c]
      BY <1>0, <3>2 DEF Elsewhere, Marked
    <3> QED BY <1>0, <1>1, <1>4, <2>2, <3>1, <3>2 DEF HandledBy, TookFrom, Handling, Taken
  <2> QED BY <1>0, <2>1, <2>2 DEF Elsewhere
<1>6. Posted'
  <2>1. ASSUME NEW c \in Customers, pc[c] \in {"await_served", "await_bake", "await_payment"}
        PROVE  pc'[c] = pc[c]
    BY <1>0, <2>1 DEF Elsewhere, Marked
  <2>2. \A k \in Chefs : \A c : pc[k] = "await_start" /\ loc[k].node = c =>
                              pc'[k] = "await_start" /\ loc'[k].node = c
    BY <1>0 DEF Elsewhere, Marked, Handling
  <2> QED BY <1>0, <1>4, <2>1, <2>2 DEF Posted
<1> QED BY <1>1, <1>2, <1>3, <1>5, <1>6 DEF Handled

\* After the shutdown there is nobody to list and nothing to do.
LEMMA ClosedQuiet ==
    ASSUME ServiceInv, Closing, shutdown_flag
    PROVE  /\ \A c \in Customers : pc[c] \in {"gone", "refused"}
           /\ \A k \in Chefs : pc[k] \notin Handling \cup Popping
           /\ \A q \in Lined : Line(q) = <<>> /\ queue[q].size = 0
<1>0. /\ pc[Main] = "join_chefs" /\ Threads = Customers \cup Chefs \cup {Main}
      /\ \A t \in Threads : loc[t].q \in Lined
  BY DEF Closing, ServiceInv, NobodyStood, Threads
<1>1. \A c \in Customers : pc[c] \in {"gone", "refused"}
  BY <1>0 DEF Closing
<1>2. ASSUME NEW q \in Lined PROVE Line(q) = <<>>
  <2>1. Chained(Line(q), queue[q].head, next)
    BY DEF ServiceInv, LinesKept
  <2>2. ASSUME Line(q) # <<>> PROVE FALSE
    <3>1. queue[q].head \in Customers /\ queue[q].head \in Members(q)
      BY <2>1, <2>2, ChainShrinks DEF Members
    <3> QED BY <1>1, <3>1 DEF ServiceInv, Queued, Lined, Linked
  <2> QED BY <2>2
<1>3. ASSUME NEW k \in Chefs PROVE pc[k] \notin Handling \cup Popping
  <2>0. k \in Threads
    BY <1>0
  <2>1. ASSUME pc[k] \in Handling PROVE FALSE
    <3>1. HandledBy(k) /\ loc[k].q \in Lined
      BY <1>0, <2>0 DEF ServiceInv, Handled
    <3> QED BY <1>1, <2>1, <3>1 DEF HandledBy, TookFrom, Handling, Taken, Lined
  <2>2. pc[k] \notin {"pop", "pop_head"}
    BY <1>0, <1>2, <2>0 DEF ServiceInv, Editors, Editor
  <2> QED BY <2>1, <2>2 DEF Handling, Taken, Popping
<1>4. ASSUME NEW q \in Lined PROVE queue[q].size = 0
  <2>1. ~Edited(q)
    <3>1. \A t \in Threads : pc[t] \in Editing => t \in Customers \/ pc[t] \in Popping
      BY DEF ServiceInv, NobodyStood, ListLabels, Editing, Pushing, Popping
    <3> QED BY <1>0, <1>1, <1>3, <3>1 DEF Edited, Editing, Popping
  <2> QED BY <1>2, <2>1 DEF ServiceInv, LinesKept
<1> QED BY <1>1, <1>2, <1>3, <1>4

\* No other thread than t is at work on a list.
Alone(t) == \A u \in Threads \ {t} : pc[u] \notin ListLabels

\* So it is for a thread in its section, as long as `lock' is not stolen.
LEMMA SectionAlone ==
    ASSUME LockExclusion, NobodyStood, ~stolen, NEW t \in Threads, InSection(t)
    PROVE  Alone(t) /\ lock = t
<1>1. lock = t
  BY DEF LockExclusion
<1>2. ASSUME NEW u \in Threads, pc[u] \in ListLabels PROVE InSection(u)
  BY <1>2 DEF NobodyStood, Lined, ListLabels, InSection, Locked
<1> QED BY <1>1, <1>2 DEF LockExclusion, Alone

\* What alone means for the edits.
LEMMA AloneEdits ==
    ASSUME NEW t \in Threads, Alone(t)
    PROVE  /\ \A q : q # loc[t].q => ~Edited(q)
           /\ pc[t] \notin Editing => \A q : ~Edited(q)
BY DEF Alone, Edited, Editing, ListLabels, Pushing, Popping

\* One thread at work takes the list q from Line(q) to the chain r.
LEMMA ListStep ==
    ASSUME TypeInv, ServiceInv, NEW t \in Threads, Alone(t), NEW to, NEW r,
           pc' = [pc EXCEPT ![t] = to],
           loc'[t].q = loc[t].q, \A u \in Threads \ {t} : loc'[u] = loc[u],
           \A p \in Queues : p # loc[t].q => queue'[p] = queue[p],
           \A p \in Lined : p # loc[t].q => \A c \in Members(p) : next'[c] = next[c],
           Chained(r, queue'[loc[t].q].head, next'),
           to \notin Editing => queue'[loc[t].q].tail = End(r) /\ queue'[loc[t].q].size = Len(r)
    PROVE  /\ Line(loc[t].q)' = r /\ LinesKept' /\ (Editor(t)' => Editors')
           /\ \A p \in Lined : p # loc[t].q => Line(p)' = Line(p) /\ Members(p)' = Members(p)
<1> DEFINE q == loc[t].q
<1>0. /\ pc \in [Threads -> Labels] /\ q \in Lined /\ Lined \subseteq Queues
      /\ pc'[t] = to /\ \A u \in Threads \ {t} : pc'[u] = pc[u]
  BY DEF TypeInv, TypeOK, ServiceInv, NobodyStood, Lined, Queues
<1>1. Chain(queue'[q].head, next') = r
  BY ChainIs
<1>2. ASSUME NEW p \in Lined, p # q
      PROVE  /\ Line(p)' = Line(p) /\ Members(p)' = Members(p)
             /\ Chained(Line(p), queue'[p].head, next')
             /\ ~Edited(p) /\ queue'[p] = queue[p]
  <2>1. queue'[p] = queue[p]
    BY <1>0, <1>2
  <2>2. Chained(Line(p), queue[p].head, next')
    <3>1. Chained(Line(p), queue[p].head, next) /\ \A c \in Elements(Line(p)) : next'[c] = next[c]
      BY <1>2 DEF ServiceInv, LinesKept, Members
    <3> QED BY <3>1, ChainKept
  <2>3. Chain(queue'[p].head, next') = Line(p)
    BY <2>1, <2>2, ChainIs
  <2>4. ~Edited(p)
    BY <1>2, AloneEdits
  <2> QED BY <2>1, <2>2, <2>3, <2>4 DEF Line, Members
<1>3. Line(q)' = r
  <2>1. Line(q)' = Chain(queue'[q].head, next')
    BY <1>0 DEF Line
  <2> QED BY <1>1, <2>1
<1>4. \A u \in Threads \ {t} : pc'[u] \notin Editing /\ pc'[u] \notin ListLabels
  BY <1>0 DEF Alone, Editing, ListLabels, Pushing, Popping
<1>5. LinesKept'
  <2>1. ASSUME NEW p \in Lined
        PROVE  /\ Chained(Line(p)', queue'[p].head, next')
               /\ ~Edited(p)' => queue'[p].tail = End(Line(p)') /\ queue'[p].size = Len(Line(p)')
    <3>1. CASE p # q
      <4>1. queue[p].tail = End(Line(p)) /\ queue[p].size = Len(Line(p))
        BY <1>2, <3>1 DEF ServiceInv, LinesKept
      <4> QED BY <1>2, <3>1, <4>1
    <3>2. CASE p = q
      <4>1. ~Edited(p)' => to \notin Editing
        BY <1>0, <3>2 DEF Edited
      <4> QED BY <1>3, <3>2, <4>1
    <3> QED BY <3>1, <3>2
  <2> QED BY <2>1 DEF LinesKept
<1>6. ASSUME Editor(t)' PROVE Editors'
  <2>1. ASSUME NEW u \in Threads, u # t PROVE Editor(u)'
    <3>1. pc'[u] \notin ListLabels
      BY <1>4, <2>1
    <3> QED BY <3>1 DEF Editor, ListLabels, Pushing, Popping, Linked
  <2> QED BY <1>6, <2>1 DEF Editors
<1> QED BY <1>2, <1>3, <1>5, <1>6

\* Pushing himself, a customer comes to the list he goes to and to no other.
LEMMA PushKeeps ==
    ASSUME TypeInv, ServiceInv, NEW t \in Customers, pc[t] \in Pushing, NEW to \in Pushing,
           pc[t] \in Linked => to \in Linked,
           pc' = [pc EXCEPT ![t] = to], loc'[t].q = loc[t].q,
           \A u \in Threads \ {t} : loc'[u] = loc[u],
           UNCHANGED sem, queue'["standing"] = queue["standing"],
           \A q \in Lined : q # loc[t].q => Members(q)' = Members(q),
           Members(loc[t].q)' = IF to \in Linked THEN Members(loc[t].q) \cup {t}
                                ELSE Members(loc[t].q)
    PROVE  NobodyStood' /\ Queued' /\ Handled' /\ Posted'
<1> USE DEF ServiceInv
<1>0. /\ pc \in [Threads -> Labels] /\ t \in Threads /\ loc[t].q \in Lined
      /\ Customers \subseteq Threads /\ Chefs \subseteq Threads /\ \A k \in Chefs : k # t
  BY ThreadFacts, BakeryAssumption DEF TypeInv, TypeOK, NobodyStood
<1>1. /\ pc'[t] = to /\ \A u \in Threads \ {t} : pc'[u] = pc[u]
      /\ to \notin {"await_served", "await_bake", "await_payment"} \cup Standing \cup Popping
      /\ pc[t] \notin {"await_served", "await_bake", "await_payment"}
  BY <1>0 DEF Pushing, Standing, Popping
<1>2. NobodyStood'
  BY <1>0, <1>1 DEF NobodyStood
<1>3. sem["served"][t] = 0 /\ sem["payment_ok"][t] = 0
  BY <1>1 DEF Posted, TypeInv, TypeOK, Semaphores
<1>4. Queued'
  <2>1. ASSUME NEW c \in Customers, NEW q \in Lined, c \in Members(q)'
        PROVE  c \in Members(q) \/ (c = t /\ to \in Linked /\ q = loc[t].q)
    BY <1>0, <2>1
  <2>2. CASE pc[t] \in Linked
    BY <1>0, <1>1, <1>3, <2>1, <2>2 DEF Queued, Lined
  <2>3. CASE pc[t] \notin Linked
    BY <1>0, <1>1, <1>3, <2>1, <2>3 DEF Queued, Lined
  <2> QED BY <2>2, <2>3
<1>5. ASSUME NEW k \in Chefs
      PROVE  /\ pc'[k] = pc[k] /\ loc'[k] = loc[k] /\ \A c : Handles(k, c)' = Handles(k, c)
  BY <1>0, <1>1 DEF Handles
<1>6. ASSUME NEW k \in Chefs PROVE HandledBy(k)'
  <2>1. HandledBy(k) /\ pc'[k] = pc[k] /\ loc'[k] = loc[k] /\ loc[k].q \in Lined
    BY <1>0, <1>5 DEF Handled, NobodyStood
  <2>2. pc[k] \in Handling => loc[k].node # t
    BY <1>1, <2>1 DEF HandledBy, TookFrom, Handling, Taken, Lined
  <2>3. pc[k] \in Handling => loc[k].node \notin Members("sofa")' /\ loc[k].node \notin Members("payment")'
    BY <1>0, <2>1, <2>2 DEF HandledBy, Lined
  <2>4. pc[k] \in Handling => loc[k].node \in Threads /\ pc'[loc[k].node] = pc[loc[k].node]
    BY <1>0, <1>1, <2>1, <2>2 DEF HandledBy
  <2> QED BY <1>5, <2>1, <2>3, <2>4 DEF HandledBy, TookFrom, Handling, Taken
<1>7. Posted'
  <2>1. ASSUME NEW c \in Customers
        PROVE  pc[c] \in {"await_served", "await_bake", "await_payment"} => pc'[c] = pc[c]
    BY <1>0, <1>1
  <2> QED BY <1>5, <2>1 DEF Posted
<1> QED BY <1>2, <1>4, <1>6, <1>7 DEF Handled

\* q_push on the sofa or the payment queue.
LEMMA QPushKeeps ==
    ASSUME TypeInv, LockInv, SafeUntilShutdown, ServiceInv, NEW t \in Customers, QPush(t)
    PROVE  /\ ServiceInv'
           /\ \A p \in Lined : Line(p)' = IF p = loc[t].q /\ pc[t] \in {"link_first", "link_next"}
                                          THEN Append(Line(p), t) ELSE Line(p)
<1> DEFINE q == loc[t].q  s == Line(q)
<1>0. /\ pc \in [Threads -> Labels] /\ loc \in [Threads -> Local] /\ t \in Threads /\ q \in Lined
      /\ q \in Queues /\ q # "standing" /\ t \notin Chefs
      /\ queue \in [Queues -> QueueType] /\ next \in [Customers -> Customers \cup {None}]
      /\ None \notin Customers
  BY ThreadFacts, BakeryAssumption
     DEF TypeInv, TypeOK, Local, QueueType, ServiceInv, NobodyStood, Lined, Queues
<1>1. pc[t] \in Pushing \ {"pushed"}
  BY DEF QPush, Links, Sets, At, Pushing
<1>2. ~shutdown_flag /\ ~stolen
  <2>1. pc[t] \notin {"gone", "refused"}
    BY <1>1 DEF Pushing
  <2> QED BY <2>1 DEF LockInv, Closing, SafeUntilShutdown
<1>3. Alone(t)
  BY <1>0, <1>1, <1>2, SectionAlone DEF InSection, LockInv, ServiceInv
<1>4. /\ Chained(s, queue[q].head, next) /\ Editor(t)
      /\ pc[t] \notin Editing => queue[q].tail = End(s) /\ queue[q].size = Len(s)
  BY <1>0, <1>3, AloneEdits DEF ServiceInv, LinesKept, Editors
<1>5. s \in Seq(Customers) /\ (s # <<>> => End(s) \in Elements(s) /\ End(s) \in Customers)
  BY <1>4 DEF Chained, End, Elements
<1>6. ASSUME NEW p \in Lined, pc[t] \notin Linked PROVE t \notin Members(p)
  BY <1>1, <1>6 DEF Pushing, Linked, ServiceInv, Queued, Lined
<1>7. ASSUME NEW p \in Lined, p # q, s # <<>> PROVE End(s) \notin Members(p)
  BY <1>0, <1>5, <1>7 DEF Members, Linked, ServiceInv, Queued, Lined
<1> DEFINE Kept(r, to) ==
             /\ to \in Pushing /\ (pc[t] \in Linked => to \in Linked)
             /\ pc' = [pc EXCEPT ![t] = to]
             /\ loc'[t].q = q /\ (\A u \in Threads \ {t} : loc'[u] = loc[u])
             /\ UNCHANGED sem
             /\ (\A p \in Queues : p # q => queue'[p] = queue[p])
             /\ (\A p \in Lined : p # q => \A c \in Members(p) : next'[c] = next[c])
             /\ Chained(r, queue'[q].head, next')
             /\ (to \notin Editing => queue'[q].tail = End(r) /\ queue'[q].size = Len(r))
             /\ Elements(r) = IF to \in Linked THEN Elements(s) \cup {t} ELSE Elements(s)
           Becomes(r) == r = IF pc[t] \in {"link_first", "link_next"} THEN Append(s, t) ELSE s
<1> HIDE DEF Becomes
<1>8. ASSUME NEW to, NEW r, Becomes(r), Kept(r, to), Line(q)' = r => Editor(t)'
      PROVE  /\ ServiceInv'
             /\ \A p \in Lined : Line(p)' = IF p = q /\ pc[t] \in {"link_first", "link_next"}
                                            THEN Append(Line(p), t) ELSE Line(p)
  <2>1. /\ Line(q)' = r /\ LinesKept' /\ (Editor(t)' => Editors')
        /\ \A p \in Lined : p # q => Line(p)' = Line(p) /\ Members(p)' = Members(p)
    BY <1>0, <1>3, <1>8, ListStep
  <2>2. Members(q)' = IF to \in Linked THEN Members(q) \cup {t} ELSE Members(q)
    BY <1>8, <2>1 DEF Members
  <2>3. queue'["standing"] = queue["standing"]
    BY <1>0, <1>8 DEF Queues
  <2>4. NobodyStood' /\ Queued' /\ Handled' /\ Posted'
    BY <1>1, <1>8, <2>1, <2>2, <2>3, PushKeeps
  <2>5. \A p \in Lined : Line(p)' = IF p = q THEN r ELSE Line(p)
    BY <1>8, <2>1 DEF Line
  <2>6. ServiceInv'
    BY <1>8, <2>1, <2>4 DEF ServiceInv
  <2>7. Becomes(r)
    BY <1>8
  <2> QED BY <2>5, <2>6, <2>7 DEF Becomes
<1> HIDE DEF Kept
<1>9. CASE Links(t, "push", IF queue[q].tail = None THEN "link_first" ELSE "load_tail",
                 queue, [next EXCEPT ![t] = None], loc[t].reg)
  <2> DEFINE to == IF queue[q].tail = None THEN "link_first" ELSE "load_tail"
  <2>1. /\ pc[t] = "push" /\ pc' = [pc EXCEPT ![t] = to] /\ queue' = queue /\ UNCHANGED sem
        /\ next' = [next EXCEPT ![t] = None] /\ loc' = [loc EXCEPT ![t].reg = loc[t].reg]
    BY <1>9 DEF Links, At, Goto
  <2>2. /\ pc'[t] = to /\ loc'[t].q = q /\ (\A u \in Threads \ {t} : loc'[u] = loc[u])
        /\ next'[t] = None
        /\ pc[t] \notin Linked /\ pc[t] \notin Editing
        /\ to \in {"link_first", "load_tail"} /\ to \in Pushing /\ to \notin Linked \cup Editing
    BY <1>0, <2>1 DEF Local, Linked, Editing, Pushing
  <2>3. \A p \in Lined : \A c \in Members(p) : next'[c] = next[c]
    BY <1>0, <1>6, <2>1, <2>2
  <2>4. Chained(s, queue'[q].head, next')
    BY <1>0, <1>4, <2>1, <2>3, ChainKept DEF Members
  <2>5. Kept(s, to)
    BY <1>4, <2>1, <2>2, <2>3, <2>4 DEF Kept
  <2>6. (queue[q].tail = None) <=> s = <<>>
    BY <1>0, <1>4, <1>5, <2>2 DEF End
  <2>7. Line(q)' = s => Editor(t)'
    BY <2>2, <2>6 DEF Editor, Linked
  <2>8. Becomes(s)
    BY <2>1 DEF Becomes
  <2> QED BY <1>8, <2>5, <2>7, <2>8
<1>10. CASE Links(t, "link_first", "push_size", [queue EXCEPT ![q].head = t, ![q].tail = t],
                  next, queue[q].size)
  <2> DEFINE r == Append(s, t)
  <2>1. /\ pc[t] = "link_first" /\ pc' = [pc EXCEPT ![t] = "push_size"] /\ UNCHANGED sem
        /\ queue' = [queue EXCEPT ![q].head = t, ![q].tail = t]
        /\ next' = next /\ loc' = [loc EXCEPT ![t].reg = queue[q].size]
    BY <1>10 DEF Links, At, Goto
  <2>2. /\ pc'[t] = "push_size" /\ loc'[t].q = q /\ (\A u \in Threads \ {t} : loc'[u] = loc[u])
        /\ loc'[t].reg = queue[q].size
        /\ pc[t] \notin Linked /\ pc[t] \notin Editing
        /\ \A p \in Queues : p # q => queue'[p] = queue[p]
        /\ queue'[q].head = t /\ queue'[q].tail = t /\ queue'[q].size = queue[q].size
    BY <1>0, <2>1 DEF Local, Linked, Editing, QueueType
  <2>3. t \notin Elements(s) /\ s = <<>> /\ next[t] = None /\ queue[q].size = Len(s)
    BY <1>0, <1>4, <1>6, <2>1, <2>2 DEF Editor, Members
  <2>4. /\ Elements(r) = Elements(s) \cup {t} /\ End(r) = t /\ Len(r) = Len(s) + 1
        /\ Chained(r, t, next)
    <3> HIDE DEF s
    <3>1. /\ Chained(s, queue[q].head, next) /\ next \in [Customers -> Customers \cup {None}]
          /\ t \in Customers /\ t \notin Elements(s) /\ next[t] = None
      BY <1>0, <1>4, <2>3
    <3>2. /\ Elements(Append(s, t)) = Elements(s) \cup {t} /\ End(Append(s, t)) = t
          /\ Append(s, t) # <<>> /\ Len(Append(s, t)) = Len(s) + 1
          /\ s = <<>> => Chained(Append(s, t), t, next)
          /\ s # <<>> => Chained(Append(s, t), queue[q].head, [next EXCEPT ![End(s)] = t])
      BY <3>1, ChainGrows, Zenon
    <3> QED BY <2>3, <3>2
  <2>0. r = Append(s, t)
    OBVIOUS
  <2> HIDE DEF r
  <2>5. "push_size" \in Pushing /\ "push_size" \in Linked /\ "push_size" \in Editing
    BY DEF Pushing, Linked, Editing
  <2>6. Kept(r, "push_size")
    BY <2>1, <2>2, <2>4, <2>5 DEF Kept
  <2>7. Line(q)' = r => Editor(t)'
    BY <1>0, <1>5, <2>2, <2>3, <2>4 DEF Editor, Linked
  <2>8. Becomes(r)
    BY <2>0, <2>1 DEF Becomes
  <2> QED BY <1>8, <2>6, <2>7, <2>8
<1>11. CASE Sets(t, "load_tail", "link_next", [loc[t] EXCEPT !.node = queue[q].tail])
  <2>1. /\ pc[t] = "load_tail" /\ pc' = [pc EXCEPT ![t] = "link_next"] /\ UNCHANGED <<queue, next, sem>>
        /\ loc' = [loc EXCEPT ![t] = [loc[t] EXCEPT !.node = queue[q].tail]]
    BY <1>11 DEF Sets, At, Goto, lists
  <2>2. /\ pc'[t] = "link_next" /\ loc'[t].q = q /\ (\A u \in Threads \ {t} : loc'[u] = loc[u])
        /\ loc'[t].node = queue[q].tail
        /\ pc[t] \notin Linked /\ pc[t] \notin Editing
        /\ "link_next" \in Pushing /\ "link_next" \notin Linked \cup Editing
    BY <1>0, <2>1 DEF Local, Linked, Editing, Pushing
  <2>3. Kept(s, "link_next")
    BY <1>4, <2>1, <2>2 DEF Kept
  <2>4. s # <<>> /\ next[t] = None /\ queue[q].tail = End(s)
    BY <1>4, <2>1, <2>2 DEF Editor
  <2>5. Line(q)' = s => Editor(t)'
    BY <2>1, <2>2, <2>4 DEF Editor, Linked
  <2>6. Becomes(s)
    BY <2>1 DEF Becomes
  <2> QED BY <1>8, <2>3, <2>5, <2>6
<1>12. CASE Links(t, "link_next", "link_tail", queue, [next EXCEPT ![loc[t].node] = t], loc[t].reg)
  <2> DEFINE r == Append(s, t)
  <2>1. /\ pc[t] = "link_next" /\ pc' = [pc EXCEPT ![t] = "link_tail"] /\ UNCHANGED sem
        /\ queue' = queue /\ next' = [next EXCEPT ![loc[t].node] = t]
        /\ loc' = [loc EXCEPT ![t].reg = loc[t].reg]
    BY <1>12 DEF Links, At, Goto
  <2>2. /\ pc'[t] = "link_tail" /\ loc'[t].q = q /\ (\A u \in Threads \ {t} : loc'[u] = loc[u])
        /\ pc[t] \notin Linked /\ pc[t] \notin Editing
    BY <1>0, <2>1 DEF Local, Linked, Editing
  <2>3. /\ t \notin Elements(s) /\ s # <<>> /\ next[t] = None /\ queue[q].size = Len(s)
        /\ loc[t].node = End(s)
    BY <1>0, <1>4, <1>6, <2>1, <2>2 DEF Editor, Members
  <2>4. /\ Elements(r) = Elements(s) \cup {t} /\ End(r) = t /\ Len(r) = Len(s) + 1 /\ r # <<>>
        /\ Chained(r, queue[q].head, next')
    <3> HIDE DEF s
    <3>1. /\ Chained(s, queue[q].head, next) /\ next \in [Customers -> Customers \cup {None}]
          /\ t \in Customers /\ t \notin Elements(s) /\ next[t] = None
      BY <1>0, <1>4, <2>3
    <3>2. /\ Elements(Append(s, t)) = Elements(s) \cup {t} /\ End(Append(s, t)) = t
          /\ Append(s, t) # <<>> /\ Len(Append(s, t)) = Len(s) + 1
          /\ s = <<>> => Chained(Append(s, t), t, next)
          /\ s # <<>> => Chained(Append(s, t), queue[q].head, [next EXCEPT ![End(s)] = t])
      BY <3>1, ChainGrows, Zenon
    <3> QED BY <2>1, <2>3, <3>2
  <2>0. r = Append(s, t)
    OBVIOUS
  <2> HIDE DEF r
  <2>5. "link_tail" \in Pushing /\ "link_tail" \in Linked /\ "link_tail" \in Editing
    BY DEF Pushing, Linked, Editing
  <2>6. \A p \in Lined : p # q => \A c \in Members(p) : next'[c] = next[c]
    BY <1>0, <1>7, <2>1, <2>3
  <2>7. Kept(r, "link_tail")
    BY <2>1, <2>2, <2>4, <2>5, <2>6 DEF Kept
  <2>8. Line(q)' = r => Editor(t)'
    <3>1. Len(s) \in Nat
      BY <1>5
    <3> QED BY <2>1, <2>2, <2>3, <2>4, <3>1 DEF Editor, Linked
  <2>9. Becomes(r)
    BY <2>0, <2>1 DEF Becomes
  <2> QED BY <1>8, <2>7, <2>8, <2>9
<1>13. CASE Links(t, "link_tail", "push_size", [queue EXCEPT ![q].tail = t], next, queue[q].size)
  <2>1. /\ pc[t] = "link_tail" /\ pc' = [pc EXCEPT ![t] = "push_size"] /\ UNCHANGED sem
        /\ queue' = [queue EXCEPT ![q].tail = t]
        /\ next' = next /\ loc' = [loc EXCEPT ![t].reg = queue[q].size]
    BY <1>13 DEF Links, At, Goto
  <2>2. /\ pc'[t] = "push_size" /\ loc'[t].q = q /\ (\A u \in Threads \ {t} : loc'[u] = loc[u])
        /\ loc'[t].reg = queue[q].size
        /\ \A p \in Queues : p # q => queue'[p] = queue[p]
        /\ queue'[q].head = queue[q].head /\ queue'[q].tail = t /\ queue'[q].size = queue[q].size
        /\ "push_size" \in Pushing /\ "push_size" \in Linked /\ "push_size" \in Editing
    BY <1>0, <2>1 DEF Local, QueueType, Linked, Editing, Pushing
  <2>3. End(s) = t /\ s # <<>> /\ queue[q].size = Len(s) - 1
    BY <1>4, <2>1 DEF Editor, Linked
  <2>4. t \in Elements(s)
    BY <1>5, <2>3
  <2>5. Kept(s, "push_size")
    BY <1>4, <2>1, <2>2, <2>4 DEF Kept
  <2>6. Line(q)' = s => Editor(t)'
    BY <2>1, <2>2, <2>3 DEF Editor, Linked
  <2>7. Becomes(s)
    BY <2>1 DEF Becomes
  <2> QED BY <1>8, <2>5, <2>6, <2>7
<1>14. CASE Links(t, "push_size", "pushed", [queue EXCEPT ![q].size = loc[t].reg + 1],
                  next, loc[t].reg)
  <2>1. /\ pc[t] = "push_size" /\ pc' = [pc EXCEPT ![t] = "pushed"] /\ UNCHANGED sem
        /\ queue' = [queue EXCEPT ![q].size = loc[t].reg + 1]
        /\ next' = next /\ loc' = [loc EXCEPT ![t].reg = loc[t].reg]
    BY <1>14 DEF Links, At, Goto
  <2>2. /\ pc'[t] = "pushed" /\ loc'[t].q = q /\ (\A u \in Threads \ {t} : loc'[u] = loc[u])
        /\ \A p \in Queues : p # q => queue'[p] = queue[p]
        /\ queue'[q].head = queue[q].head /\ queue'[q].tail = queue[q].tail
        /\ queue'[q].size = loc[t].reg + 1
        /\ "pushed" \in Pushing /\ "pushed" \in Linked /\ "pushed" \notin Editing
    BY <1>0, <2>1 DEF Local, QueueType, Linked, Editing, Pushing
  <2>3. End(s) = t /\ queue[q].size = Len(s) - 1 /\ queue[q].tail = End(s) /\ loc[t].reg = queue[q].size
    BY <1>4, <2>1 DEF Editor, Linked
  <2>4. t \in Elements(s) /\ Len(s) \in Nat
    BY <1>0, <1>5, <2>3 DEF End
  <2>5. Kept(s, "pushed")
    BY <1>4, <2>1, <2>2, <2>3, <2>4 DEF Kept
  <2>6. Line(q)' = s => Editor(t)'
    BY <2>1, <2>2, <2>3 DEF Editor, Linked
  <2>7. Becomes(s)
    BY <2>1 DEF Becomes
  <2> QED BY <1>8, <2>5, <2>6, <2>7
<1> QED BY <1>9, <1>10, <1>11, <1>12, <1>13, <1>14 DEF QPush

\* Popping, a chef takes one customer off a list and handles him from then on.
LEMMA PopKeeps ==
    ASSUME TypeInv, ServiceInv, NEW k \in Chefs, Alone(k), pc[k] \in {"pick"} \cup Popping,
           NEW to \in Popping \cup {"popped"},
           pc' = [pc EXCEPT ![k] = to], loc'[k].q \in Lined,
           \A u \in Threads \ {k} : loc'[u] = loc[u],
           UNCHANGED sem, queue'["standing"] = queue["standing"],
           \A q \in Lined : Members(q)' \subseteq Members(q),
           pc[k] \in Handling => to \in Taken /\ loc'[k].node = loc[k].node /\ loc'[k].q = loc[k].q,
           to \in Taken /\ pc[k] \notin Handling =>
              /\ loc'[k].q = loc[k].q
              /\ loc'[k].node \in Members(loc[k].q) /\ loc'[k].node \notin Members(loc[k].q)'
    PROVE  NobodyStood' /\ Queued' /\ Handled' /\ Posted'
<1> USE DEF ServiceInv
<1> DEFINE x == loc'[k].node  q == loc[k].q
           HandlesNow(j, c) == pc'[j] \in Handling /\ loc'[j].node = c
<1>0. /\ pc \in [Threads -> Labels] /\ k \in Threads /\ k \notin Customers /\ q \in Lined
      /\ Customers \subseteq Threads /\ Chefs \subseteq Threads
  BY ThreadFacts, BakeryAssumption DEF TypeInv, TypeOK, NobodyStood
<1>1. /\ pc'[k] = to /\ \A u \in Threads \ {k} : pc'[u] = pc[u]
      /\ \A c \in Customers : pc'[c] = pc[c] /\ loc'[c] = loc[c]
  BY <1>0
<1>2. NobodyStood'
  BY <1>0, <1>1 DEF NobodyStood, Pushing, Popping, ListLabels, Standing
<1>3. Queued'
  BY <1>1 DEF Queued, Lined
<1>4. \A j \in Chefs \ {k} : pc'[j] = pc[j] /\ loc'[j] = loc[j] /\ HandledBy(j)
  BY <1>0, <1>1 DEF Handled
<1>5. pc[k] \in Handling => pc[k] \in {"pop_tail", "pop_size"} /\ HandledBy(k)
  BY DEF Handling, Taken, Popping, Handled
<1>6. ASSUME to \in Taken, pc[k] \notin Handling
      PROVE  /\ x \in Customers /\ x \in Members(q)
             /\ q = "sofa" => pc[x] = "await_served" /\ sem["served"][x] = 0
             /\ q = "payment" => pc[x] = "await_payment" /\ sem["payment_ok"][x] = 0
             /\ \A p \in Lined : x \notin Members(p)'
             /\ \A j \in Chefs : ~Handles(j, x)
  <2>1. x \in Members(q)
    BY <1>6
  <2>2. x \in Customers
    BY <1>0, <2>1 DEF LinesKept, Chained, Members, Elements
  <2>3. pc[x] \notin Linked
    BY <1>0, <2>2 DEF Alone, Linked, ListLabels, Pushing
  <2>4. /\ q = "sofa" => pc[x] = "await_served" /\ sem["served"][x] = 0
        /\ q = "payment" => pc[x] = "await_payment" /\ sem["payment_ok"][x] = 0
    BY <2>1, <2>2, <2>3 DEF Queued
  <2>5. ASSUME NEW p \in Lined, x \in Members(p)' PROVE FALSE
    BY <1>0, <1>6, <2>2, <2>3, <2>4, <2>5 DEF Queued, Lined
  <2>6. ASSUME NEW j \in Chefs, Handles(j, x) PROVE FALSE
    <3>1. x \notin Members(q)
      BY <1>0, <2>6 DEF Handles, Handled, HandledBy, Lined
    <3> QED BY <2>1, <3>1
  <2> QED BY <2>1, <2>2, <2>4, <2>5, <2>6
<1>7. ASSUME NEW j \in Chefs, NEW c
      PROVE  HandlesNow(j, c) <=>
               (Handles(j, c) \/ (j = k /\ c = x /\ to \in Taken /\ pc[k] \notin Handling))
  <2>1. to \in Handling <=> to \in Taken
    BY DEF Handling, Taken, Popping
  <2>2. CASE j # k
    BY <1>4, <2>2 DEF Handles
  <2>3. CASE j = k
    BY <1>1, <2>1, <2>3 DEF Handles
  <2> QED BY <2>2, <2>3
<1>8. ASSUME NEW j \in Chefs PROVE HandledBy(j)'
  <2>1. CASE j # k
    <3>1. HandledBy(j) /\ pc'[j] = pc[j] /\ loc'[j] = loc[j]
      BY <1>4, <2>1
    <3>2. ASSUME pc[j] \in Handling
          PROVE  /\ loc[j].node \in Customers
                 /\ loc[j].node \notin Members("sofa")' /\ loc[j].node \notin Members("payment")'
                 /\ \A i \in Chefs : HandlesNow(i, loc[j].node) => i = j
      <4>1. /\ loc[j].node \in Customers /\ Handles(j, loc[j].node)
            /\ loc[j].node \notin Members("sofa")' /\ loc[j].node \notin Members("payment")'
            /\ \A i \in Chefs : Handles(i, loc[j].node) => i = j
        BY <3>1, <3>2 DEF HandledBy, Handles, Lined
      <4> QED BY <1>6, <1>7, <4>1
    <3> QED BY <1>1, <3>1, <3>2 DEF HandledBy, TookFrom, Handles, Handling, Taken
  <2>2. CASE j = k /\ to \notin Taken
    BY <1>1, <2>2 DEF HandledBy, TookFrom, Handling, Taken, Popping
  <2>3. CASE j = k /\ to \in Taken /\ pc[k] \in Handling
    <3>1. HandledBy(k) /\ pc[k] \in Taken /\ x = loc[k].node /\ loc'[k].q = q
      BY <1>5, <2>3 DEF Taken
    <3>2. /\ x \in Customers /\ x \notin Members("sofa")' /\ x \notin Members("payment")'
          /\ \A i \in Chefs : HandlesNow(i, x) => i = k
          /\ q = "sofa" => pc[x] = "await_served" /\ sem["served"][x] = 0
          /\ q = "payment" => pc[x] = "await_payment"
      BY <1>7, <2>3, <3>1 DEF HandledBy, TookFrom, Lined
    <3> QED BY <1>1, <2>3, <3>1, <3>2 DEF HandledBy, TookFrom, Handles, Handling, Taken
  <2>4. CASE j = k /\ to \in Taken /\ pc[k] \notin Handling
    <3>1. /\ x \in Customers /\ x \notin Members("sofa")' /\ x \notin Members("payment")'
          /\ \A i \in Chefs : HandlesNow(i, x) => i = k
          /\ q = "sofa" => pc[x] = "await_served" /\ sem["served"][x] = 0
          /\ q = "payment" => pc[x] = "await_payment"
          /\ loc'[k].q = q
      BY <1>6, <1>7, <2>4 DEF Lined
    <3> QED BY <1>1, <2>4, <3>1 DEF HandledBy, TookFrom, Handles, Handling, Taken
  <2> QED BY <2>1, <2>2, <2>3, <2>4
<1>9. Posted'
  <2>1. ASSUME NEW c \in Customers, sem["served"][c] > 0
        PROVE  \E j \in Chefs : pc'[j] = "await_start" /\ loc'[j].node = c
    <3>1. PICK j \in Chefs : pc[j] = "await_start" /\ loc[j].node = c
      BY <2>1 DEF Posted
    <3>2. j # k
      BY <3>1 DEF Popping
    <3> QED BY <1>4, <3>1, <3>2
  <2>2. ASSUME NEW c \in Customers, sem["bake_done"][c] > 0, NEW j \in Chefs, HandlesNow(j, c)
        PROVE  FALSE
    <3>1. pc[c] = "await_bake" /\ ~Handles(j, c)
      BY <2>2 DEF Posted
    <3> QED BY <1>0, <1>6, <1>7, <2>2, <3>1 DEF Lined
  <2>3. ASSUME NEW c \in Customers, sem["payment_ok"][c] > 0, NEW j \in Chefs, HandlesNow(j, c)
        PROVE  FALSE
    <3>1. pc[c] = "await_payment" /\ ~Handles(j, c)
      BY <2>3 DEF Posted
    <3> QED BY <1>0, <1>6, <1>7, <2>3, <3>1 DEF Lined
  <2> QED BY <1>1, <2>1, <2>2, <2>3 DEF Posted, Handles
<1> QED BY <1>2, <1>3, <1>8, <1>9 DEF Handled

\* A chef picks his work while he is alone at the lists.
LEMMA ChefPicksKeeps ==
    ASSUME TypeInv, LockInv, SafeUntilShutdown, ServiceInv, NEW k \in Chefs,
           NEW from \in {"pick", "fell"}, NEW q \in Lined, pc[k] = from,
           Work(q), q = "sofa" => ~Work("payment"), Sets(k, from, "pop", [loc[k] EXCEPT !.q = q])
    PROVE  ServiceInv' /\ ~shutdown_flag
<1>0. /\ pc \in [Threads -> Labels] /\ loc \in [Threads -> Local] /\ k \in Threads
      /\ k \notin Customers
  BY ThreadFacts, BakeryAssumption DEF TypeInv, TypeOK, Local
<1>1. ~shutdown_flag
  <2>1. shutdown_flag => queue[q].size = 0
    BY ClosedQuiet DEF LockInv
  <2> QED BY <2>1 DEF Work
<1>2. pc[k] = "pick" /\ Alone(k)
  <2>1. ~stolen
    BY <1>1 DEF SafeUntilShutdown
  <2>2. pc[k] = "pick"
    BY <1>1, <2>1 DEF LockInv, FellIdle
  <2> QED BY <1>0, <2>1, <2>2, SectionAlone DEF InSection, Locked, LockInv, ServiceInv
<1>3. \A p : ~Edited(p)
  BY <1>0, <1>2, AloneEdits DEF Editing
<1>4. \A p \in Lined : /\ Chained(Line(p), queue[p].head, next)
                       /\ queue[p].tail = End(Line(p)) /\ queue[p].size = Len(Line(p))
  BY <1>3 DEF ServiceInv, LinesKept
<1>5. /\ UNCHANGED <<queue, next, sem>> /\ pc' = [pc EXCEPT ![k] = "pop"]
      /\ loc' = [loc EXCEPT ![k] = [loc[k] EXCEPT !.q = q]]
  BY DEF Sets, Goto, lists
<1>6. /\ pc'[k] = "pop" /\ loc'[k].q = q /\ (\A u \in Threads \ {k} : pc'[u] = pc[u] /\ loc'[u] = loc[u])
  BY <1>0, <1>5 DEF Local
<1>7. \A p : Line(p)' = Line(p) /\ Members(p)' = Members(p)
  BY <1>5 DEF Line, Members
<1>8. LinesKept'
  <2>1. \A p \in Lined : Chained(Line(p)', queue'[p].head, next')
                         /\ queue'[p].tail = End(Line(p)') /\ queue'[p].size = Len(Line(p)')
    BY <1>4, <1>5, <1>7
  <2> QED BY <2>1 DEF LinesKept
<1>9. Editors'
  <2>1. \A p \in Lined : Line(p) \in Seq(Customers) /\ (Len(Line(p)) = 0 <=> Line(p) = <<>>)
    BY <1>4 DEF Chained
  <2>2. Line(q) # <<>> /\ (q = "sofa" => Line("payment") = <<>>)
    <3>1. queue[q].size > 0 /\ (q = "sofa" => ~(queue["payment"].size > 0))
      BY DEF Work
    <3>2. \A p \in Lined : Len(Line(p)) \in Nat
      BY <2>1
    <3> QED BY <1>4, <2>1, <3>1, <3>2 DEF Lined
  <2>3. Editor(k)'
    BY <1>6, <1>7, <2>2 DEF Editor, Linked
  <2>4. ASSUME NEW u \in Threads, u # k PROVE Editor(u)'
    <3>1. pc'[u] \notin ListLabels
      BY <1>2, <1>6, <2>4 DEF Alone
    <3> QED BY <3>1 DEF Editor, ListLabels, Pushing, Popping, Linked
  <2> QED BY <2>3, <2>4 DEF Editors
<1>10. NobodyStood' /\ Queued' /\ Handled' /\ Posted'
  <2>1. pc[k] \notin Handling /\ "pop" \notin Taken /\ "pop" \in Popping
    BY <1>2 DEF Handling, Taken, Popping
  <2> QED BY <1>2, <1>5, <1>6, <1>7, <2>1, PopKeeps
<1> QED BY <1>1, <1>8, <1>9, <1>10 DEF ServiceInv

\* q_pop on the sofa or the payment queue.
LEMMA QPopKeeps ==
    ASSUME TypeInv, LockInv, SafeUntilShutdown, ServiceInv, NEW k \in Chefs, QPop(k)
    PROVE  /\ ServiceInv' /\ ~shutdown_flag
           /\ \A p \in Lined : Line(p)' = IF p = loc[k].q /\ pc[k] = "pop_head"
                                          THEN Tail(Line(p)) ELSE Line(p)
<1> DEFINE q == loc[k].q  s == Line(q)  x == loc[k].node
<1>0. /\ pc \in [Threads -> Labels] /\ loc \in [Threads -> Local] /\ k \in Threads /\ q \in Lined
      /\ q \in Queues /\ q # "standing" /\ k \notin Customers
      /\ queue \in [Queues -> QueueType] /\ next \in [Customers -> Customers \cup {None}]
      /\ None \notin Customers
  BY ThreadFacts, BakeryAssumption
     DEF TypeInv, TypeOK, Local, QueueType, ServiceInv, NobodyStood, Lined, Queues
<1>1. pc[k] \in Popping
  BY DEF QPop, Links, Sets, At, Popping
<1>2. ~shutdown_flag /\ ~stolen
  <2>1. ~shutdown_flag
    BY <1>1, ClosedQuiet DEF LockInv
  <2> QED BY <2>1 DEF SafeUntilShutdown
<1>3. Alone(k)
  BY <1>0, <1>1, <1>2, SectionAlone DEF InSection, Locked, LockInv, ServiceInv
<1>4. /\ Chained(s, queue[q].head, next) /\ Editor(k) /\ HandledBy(k)
      /\ pc[k] \notin Editing => queue[q].tail = End(s) /\ queue[q].size = Len(s)
  BY <1>0, <1>3, AloneEdits DEF ServiceInv, LinesKept, Editors, Handled
<1>5. /\ s \in Seq(Customers) /\ (queue[q].head = None <=> s = <<>>)
      /\ s # <<>> => queue[q].head \in Customers /\ queue[q].head \in Members(q)
  <2>1. s # <<>> => queue[q].head \in Customers /\ queue[q].head \in Members(q)
    BY <1>4, ChainShrinks DEF Members
  <2>2. s = <<>> => queue[q].head = None
    BY <1>4 DEF Chained, IsChain
  <2> QED BY <1>0, <1>4, <2>1, <2>2 DEF Chained
<1>6. ASSUME NEW p \in Lined, p # q, s # <<>> PROVE queue[q].head \notin Members(p)
  BY <1>0, <1>5, <1>6 DEF Linked, ServiceInv, Queued, Lined
<1> DEFINE Kept(r, to) ==
             /\ to \in Popping \cup {"popped"}
             /\ pc' = [pc EXCEPT ![k] = to]
             /\ loc'[k].q = q /\ (\A u \in Threads \ {k} : loc'[u] = loc[u])
             /\ UNCHANGED sem
             /\ (\A p \in Queues : p # q => queue'[p] = queue[p])
             /\ (\A p \in Lined : p # q => \A c \in Members(p) : next'[c] = next[c])
             /\ Chained(r, queue'[q].head, next')
             /\ (to \notin Editing => queue'[q].tail = End(r) /\ queue'[q].size = Len(r))
             /\ Elements(r) \subseteq Elements(s)
             /\ (pc[k] \in Handling => to \in Taken /\ loc'[k].node = x)
             /\ (to \in Taken /\ pc[k] \notin Handling =>
                    loc'[k].node \in Elements(s) /\ loc'[k].node \notin Elements(r))
           Becomes(r) == r = IF pc[k] = "pop_head" THEN Tail(s) ELSE s
<1> HIDE DEF Becomes
<1>7. ASSUME NEW to, NEW r, Becomes(r), Kept(r, to), Line(q)' = r => Editor(k)'
      PROVE  /\ ServiceInv'
             /\ \A p \in Lined : Line(p)' = IF p = q /\ pc[k] = "pop_head"
                                            THEN Tail(Line(p)) ELSE Line(p)
  <2>1. /\ Line(q)' = r /\ LinesKept' /\ (Editor(k)' => Editors')
        /\ \A p \in Lined : p # q => Line(p)' = Line(p) /\ Members(p)' = Members(p)
    BY <1>0, <1>3, <1>7, ListStep
  <2>2. Members(q)' = Elements(r) /\ Members(q) = Elements(s)
    BY <2>1 DEF Members
  <2>3. queue'["standing"] = queue["standing"] /\ \A p \in Lined : Members(p)' \subseteq Members(p)
    BY <1>0, <1>7, <2>1, <2>2 DEF Queues
  <2>4. to \in Taken /\ pc[k] \notin Handling =>
              /\ loc'[k].q = loc[k].q
              /\ loc'[k].node \in Members(loc[k].q) /\ loc'[k].node \notin Members(loc[k].q)'
    BY <1>7, <2>2
  <2>5. NobodyStood' /\ Queued' /\ Handled' /\ Posted'
    BY <1>0, <1>1, <1>3, <1>7, <2>3, <2>4, PopKeeps
  <2>6. \A p \in Lined : Line(p)' = IF p = q THEN r ELSE Line(p)
    BY <1>7, <2>1 DEF Line
  <2>7. ServiceInv'
    BY <1>2, <1>7, <2>1, <2>5 DEF ServiceInv
  <2>8. Becomes(r)
    BY <1>7
  <2> QED BY <2>6, <2>7, <2>8 DEF Becomes
<1> HIDE DEF Kept
<1>8. CASE Sets(k, "pop", IF queue[q].head = None THEN AfterPop(k) ELSE "pop_head",
                [loc[k] EXCEPT !.node = queue[q].head])
  <2>1. pc[k] = "pop" /\ s # <<>> /\ queue[q].head # None
    BY <1>4, <1>5, <1>8 DEF Sets, At, Editor
  <2>2. /\ pc' = [pc EXCEPT ![k] = "pop_head"] /\ UNCHANGED <<queue, next, sem>>
        /\ loc' = [loc EXCEPT ![k] = [loc[k] EXCEPT !.node = queue[q].head]]
    BY <1>8, <2>1 DEF Sets, Goto, lists
  <2>3. /\ pc'[k] = "pop_head" /\ loc'[k].q = q /\ (\A u \in Threads \ {k} : loc'[u] = loc[u])
        /\ loc'[k].node = queue[q].head
        /\ pc[k] \notin Handling /\ pc[k] \notin Editing
        /\ "pop_head" \in Popping /\ "pop_head" \notin Editing \cup Taken
    BY <1>0, <2>1, <2>2 DEF Local, Editing, Popping, Handling, Taken
  <2>4. Kept(s, "pop_head")
    BY <1>4, <2>2, <2>3 DEF Kept
  <2>5. Line(q)' = s => Editor(k)'
    <3>1. q = "sofa" => Line("payment") = <<>>
      BY <1>4, <2>1 DEF Editor
    <3>2. Line("payment")' = Line("payment")
      BY <2>2 DEF Line
    <3> QED BY <2>1, <2>2, <2>3, <3>1, <3>2 DEF Editor, Linked
  <2>6. Becomes(s)
    BY <2>1 DEF Becomes
  <2> QED BY <1>2, <1>7, <2>4, <2>5, <2>6
<1>9. CASE Links(k, "pop_head", "pop_tail", [queue EXCEPT ![q].head = next[x]], next, loc[k].reg)
  <2> DEFINE r == Tail(s)
  <2>1. /\ pc[k] = "pop_head" /\ pc' = [pc EXCEPT ![k] = "pop_tail"] /\ UNCHANGED <<next, sem>>
        /\ queue' = [queue EXCEPT ![q].head = next[x]] /\ loc' = [loc EXCEPT ![k].reg = loc[k].reg]
    BY <1>9 DEF Links, At, Goto
  <2>2. /\ pc'[k] = "pop_tail" /\ loc'[k].q = q /\ (\A u \in Threads \ {k} : loc'[u] = loc[u])
        /\ loc'[k].node = x
        /\ \A p \in Queues : p # q => queue'[p] = queue[p]
        /\ queue'[q].head = next[x] /\ queue'[q].tail = queue[q].tail /\ queue'[q].size = queue[q].size
        /\ pc[k] \notin Handling /\ pc[k] \notin Editing
        /\ "pop_tail" \in Popping /\ "pop_tail" \in Editing
    BY <1>0, <2>1 DEF Local, QueueType, Editing, Popping, Handling, Taken
  <2>3. s # <<>> /\ x = queue[q].head /\ queue[q].tail = End(s) /\ queue[q].size = Len(s)
    BY <1>4, <2>1, <2>2 DEF Editor
  <2>4. /\ Chained(r, next[x], next) /\ x \in Elements(s) /\ Elements(r) = Elements(s) \ {x}
        /\ Len(r) = Len(s) - 1 /\ (r # <<>> => End(r) = End(s))
    <3> HIDE DEF s
    <3> QED BY <1>4, <2>3, ChainShrinks
  <2>0. r = Tail(s)
    OBVIOUS
  <2> HIDE DEF r
  <2>5. Kept(r, "pop_tail")
    BY <2>1, <2>2, <2>4 DEF Kept
  <2>6. Line(q)' = r => Editor(k)'
    <3>1. Len(s) \in Nat
      BY <1>5
    <3> QED BY <2>2, <2>3, <2>4, <3>1 DEF Editor, Linked
  <2>7. Becomes(r)
    BY <2>0, <2>1 DEF Becomes
  <2> QED BY <1>2, <1>7, <2>5, <2>6, <2>7
<1>10. CASE Links(k, "pop_tail", "pop_size",
                  [queue EXCEPT ![q].tail = IF queue[q].head = None THEN None ELSE @],
                  [next EXCEPT ![x] = None], queue[q].size)
  <2>1. /\ pc[k] = "pop_tail" /\ pc' = [pc EXCEPT ![k] = "pop_size"] /\ UNCHANGED sem
        /\ queue' = [queue EXCEPT ![q].tail = IF queue[q].head = None THEN None ELSE @]
        /\ next' = [next EXCEPT ![x] = None] /\ loc' = [loc EXCEPT ![k].reg = queue[q].size]
    BY <1>10 DEF Links, At, Goto
  <2>2. /\ pc'[k] = "pop_size" /\ loc'[k].q = q /\ (\A u \in Threads \ {k} : loc'[u] = loc[u])
        /\ loc'[k].node = x /\ loc'[k].reg = queue[q].size
        /\ \A p \in Queues : p # q => queue'[p] = queue[p]
        /\ queue'[q].head = queue[q].head /\ queue'[q].size = queue[q].size
        /\ queue'[q].tail = IF queue[q].head = None THEN None ELSE queue[q].tail
        /\ pc[k] \in Handling /\ "pop_size" \in Popping \cap Taken \cap Editing
    BY <1>0, <2>1 DEF Local, QueueType, Editing, Popping, Handling, Taken
  <2>3. queue[q].size = Len(s) + 1 /\ (s # <<>> => queue[q].tail = End(s))
    BY <1>4, <2>1 DEF Editor
  <2>4. \A p \in Lined : x \notin Members(p)
    BY <1>4, <2>2 DEF HandledBy, Lined
  <2>5. \A p \in Lined : \A c \in Members(p) : next'[c] = next[c]
    BY <1>0, <2>1, <2>4
  <2>6. Chained(s, queue'[q].head, next')
    BY <1>0, <1>4, <2>2, <2>5, ChainKept DEF Members
  <2>7. Kept(s, "pop_size")
    BY <2>1, <2>2, <2>5, <2>6 DEF Kept
  <2>8. Line(q)' = s => Editor(k)'
    <3>1. queue'[q].tail = End(s)
      BY <1>5, <2>2, <2>3 DEF End
    <3> QED BY <2>2, <2>3, <3>1 DEF Editor, Linked
  <2>9. Becomes(s)
    BY <2>1 DEF Becomes
  <2> QED BY <1>2, <1>7, <2>7, <2>8, <2>9
<1>11. CASE Links(k, "pop_size", AfterPop(k), [queue EXCEPT ![q].size = loc[k].reg - 1],
                  next, loc[k].reg)
  <2>1. /\ pc[k] = "pop_size" /\ pc' = [pc EXCEPT ![k] = "popped"] /\ UNCHANGED <<next, sem>>
        /\ queue' = [queue EXCEPT ![q].size = loc[k].reg - 1]
        /\ loc' = [loc EXCEPT ![k].reg = loc[k].reg]
    BY <1>11 DEF Links, At, Goto, AfterPop
  <2>2. /\ pc'[k] = "popped" /\ loc'[k].q = q /\ (\A u \in Threads \ {k} : loc'[u] = loc[u])
        /\ loc'[k].node = x
        /\ \A p \in Queues : p # q => queue'[p] = queue[p]
        /\ queue'[q].head = queue[q].head /\ queue'[q].tail = queue[q].tail
        /\ queue'[q].size = loc[k].reg - 1
        /\ pc[k] \in Handling /\ "popped" \in Taken /\ "popped" \notin Editing
    BY <1>0, <2>1 DEF Local, QueueType, Editing, Handling, Taken
  <2>3. queue[q].size = Len(s) + 1 /\ queue[q].tail = End(s) /\ loc[k].reg = queue[q].size
    BY <1>4, <2>1 DEF Editor
  <2>4. Len(s) \in Nat
    BY <1>5
  <2>5. Kept(s, "popped")
    BY <1>4, <2>1, <2>2, <2>3, <2>4 DEF Kept
  <2>6. Line(q)' = s => Editor(k)'
    BY <2>2 DEF Editor, Linked
  <2>7. Becomes(s)
    BY <2>1 DEF Becomes
  <2> QED BY <1>2, <1>7, <2>5, <2>6, <2>7
<1> QED BY <1>2, <1>8, <1>9, <1>10, <1>11 DEF QPop

\* Only t does something, away from the lists; it may wake chefs.
OnlyWakes(t) ==
    \A u \in Threads \ {t} :
        loc'[u] = loc[u] /\ (pc'[u] = pc[u] \/ (pc[u] = "chef_cv" /\ pc'[u] = "chef_wake"))

LEMMA OffLists ==
    ASSUME ServiceInv, NEW t \in Threads, OnlyWakes(t), UNCHANGED lists,
           pc[t] \notin Editing, pc'[t] \notin ListLabels \cup Standing, loc'[t].q \in Lined
    PROVE  /\ LinesKept' /\ Editors' /\ NobodyStood'
           /\ \A q : Line(q)' = Line(q) /\ Members(q)' = Members(q)
           /\ \A u \in Threads \ {t} : /\ loc'[u] = loc[u]
                                       /\ pc'[u] = pc[u] \/ (pc[u] \notin Marked /\ pc'[u] \notin Marked)
<1>0. {"chef_cv", "chef_wake"} \cap Marked = {} /\ UNCHANGED <<queue, next>>
  BY DEF Marked, ListLabels, Handling, Taken, Standing, Pushing, Popping, lists
<1>1. \A u \in Threads \ {t} : /\ loc'[u] = loc[u]
                               /\ pc'[u] = pc[u] \/ (pc[u] \notin Marked /\ pc'[u] \notin Marked)
  BY <1>0 DEF OnlyWakes
<1>2. Editing \subseteq ListLabels /\ ListLabels \subseteq Marked /\ Standing \subseteq Marked
  BY DEF Editing, ListLabels, Pushing, Popping, Marked
<1>3. \A u \in Threads : \/ pc'[u] = pc[u] /\ loc'[u] = loc[u]
                         \/ pc'[u] \notin ListLabels /\ pc[u] \notin Editing
  BY <1>1, <1>2
<1>4. /\ LinesKept' /\ Editors'
      /\ \A q : Line(q)' = Line(q) /\ Members(q)' = Members(q)
  BY <1>3, ListsStay DEF ServiceInv
<1>5. NobodyStood'
  <2>1. \A u \in Threads : loc'[u].q \in Lined /\ (pc'[u] \in ListLabels => pc'[u] = pc[u])
    BY <1>1, <1>2 DEF ServiceInv, NobodyStood
  <2>2. \A u \in Threads : pc'[u] \notin Standing
    BY <1>1, <1>2 DEF ServiceInv, NobodyStood
  <2> QED BY <1>0, <2>1, <2>2 DEF ServiceInv, NobodyStood
<1> QED BY <1>1, <1>4, <1>5

\* Where customers wait for a chef.
Awaiting == {"await_served", "await_bake", "await_payment"}

\* A chef goes on with his customer, or finishes with him, and may post to him.
LEMMA ChefHandles ==
    ASSUME TypeInv, ServiceInv, NEW k \in Chefs, pc[k] \in Handling \ Editing,
           NEW to \in (Handling \cup {"top"}) \ (Taken \cup {"bake"}),
           pc' = [pc EXCEPT ![k] = to], UNCHANGED <<loc, lists>>,
           \A s \in Semaphores \ {"start_bake"} : \A c \in Customers : c # loc[k].node => sem'[s][c] = sem[s][c],
           LET c == loc[k].node
           IN  /\ sem'["served"][c] = IF to = "await_start" THEN 1 ELSE sem["served"][c]
               /\ sem'["bake_done"][c] = IF pc[k] = "bake" THEN 1 ELSE sem["bake_done"][c]
               /\ sem'["payment_ok"][c] = IF pc[k] = "accept" THEN 1 ELSE sem["payment_ok"][c]
               /\ to \in {"register", "accept"} => pc[c] = "await_payment"
               /\ to = "serve" => pc[c] = "await_served" /\ sem["served"][c] = 0
               /\ to = "await_start" => pc[c] = "await_served"
               /\ to = "top" <=> pc[k] \in {"bake", "accept"}
               /\ pc[k] # "await_start"
    PROVE  ServiceInv'
<1> USE DEF ServiceInv
<1> DEFINE x == loc[k].node
<1>0. /\ pc \in [Threads -> Labels] /\ k \in Threads /\ k \notin Customers
      /\ Customers \subseteq Threads /\ Chefs \subseteq Threads /\ loc[k].q \in Lined
      /\ pc'[k] = to /\ \A u \in Threads \ {k} : pc'[u] = pc[u]
  BY ThreadFacts, BakeryAssumption DEF TypeInv, TypeOK, NobodyStood
<1>1. /\ x \in Customers /\ x \notin Members("sofa") /\ x \notin Members("payment")
      /\ \A j \in Chefs : Handles(j, x) => j = k
      /\ pc[x] \in Awaiting
  BY <1>0 DEF Handled, HandledBy, TookFrom, Handling, Taken, Awaiting, Lined
<1>2. \A c \in Customers : pc'[c] = pc[c]
  BY <1>0
<1>3. /\ LinesKept' /\ Editors' /\ NobodyStood'
      /\ \A q : Line(q)' = Line(q) /\ Members(q)' = Members(q)
  <2>1. pc'[k] \notin ListLabels \cup Standing
    BY <1>0 DEF ListLabels, Standing, Handling, Taken, Pushing, Popping
  <2> QED BY <1>0, <2>1, OffLists DEF OnlyWakes
<1>4. \A s \in {"served", "bake_done", "payment_ok"} : \A c \in Customers : c # x => sem'[s][c] = sem[s][c]
  BY DEF Semaphores
<1>5. Queued'
  BY <1>1, <1>2, <1>3, <1>4 DEF Queued
<1>6. ASSUME NEW j \in Chefs, NEW c
      PROVE  (pc'[j] \in Handling /\ loc'[j].node = c) <=> (Handles(j, c) /\ ~(j = k /\ to = "top"))
  BY <1>0 DEF Handles, Handling, Taken
<1>7. ASSUME NEW j \in Chefs PROVE HandledBy(j)'
  <2>1. CASE j # k
    <3>1. pc'[j] = pc[j] /\ loc'[j] = loc[j] /\ HandledBy(j)
      BY <1>0, <2>1 DEF Handled
    <3>2. pc[j] \in Handling => loc[j].node \in Customers /\ loc[j].node # x
      BY <1>1, <2>1, <3>1 DEF HandledBy, Handles
    <3>3. pc[j] \in Handling => sem'["served"][loc[j].node] = sem["served"][loc[j].node]
      BY <1>4, <3>2
    <3>4. pc[j] \in Handling =>
             /\ loc[j].node \notin Members("sofa")' /\ loc[j].node \notin Members("payment")'
             /\ \A i \in Chefs : pc'[i] \in Handling /\ loc'[i].node = loc[j].node => i = j
      BY <1>3, <1>6, <3>1 DEF HandledBy
    <3> QED BY <1>2, <3>1, <3>2, <3>3, <3>4 DEF HandledBy, TookFrom, Handles, Handling, Taken
  <2>2. CASE j = k /\ to # "top"
    <3>1. /\ pc'[j] = to /\ loc'[j] = loc[j] /\ pc'[x] = pc[x] /\ x = loc[j].node
          /\ x \notin Members("sofa")' /\ x \notin Members("payment")'
          /\ \A i \in Chefs : pc'[i] \in Handling /\ loc'[i].node = x => i = j
      BY <1>0, <1>1, <1>2, <1>3, <1>6, <2>2
    <3>2. /\ to \in {"register", "accept"} => pc[x] = "await_payment"
          /\ to = "serve" => pc[x] = "await_served" /\ sem'["served"][x] = 0
          /\ to = "await_start" => pc[x] = "await_served" /\ sem'["served"][x] = 1
      OBVIOUS
    <3>3. to \in {"serve", "await_start", "register", "accept"}
      BY <2>2 DEF Handling
    <3> QED BY <1>1, <3>1, <3>2, <3>3 DEF HandledBy, TookFrom, Handles, Handling, Taken
  <2>3. CASE j = k /\ to = "top"
    BY <1>0, <2>3 DEF HandledBy, TookFrom, Handling, Taken
  <2> QED BY <2>1, <2>2, <2>3
<1>8. Posted'
  <2>1. ASSUME NEW c \in Customers, sem'["served"][c] > 0
        PROVE  /\ pc'[c] = "await_served"
               /\ \E j \in Chefs : pc'[j] = "await_start" /\ loc'[j].node = c
    <3>1. CASE c = x /\ to = "await_start"
      BY <1>0, <1>2, <3>1
    <3>2. CASE ~(c = x /\ to = "await_start")
      <4>1. sem["served"][c] > 0
        BY <1>4, <2>1, <3>2
      <4>2. pc[c] = "await_served" /\ \E j \in Chefs : pc[j] = "await_start" /\ loc[j].node = c
        BY <4>1 DEF Posted
      <4> QED BY <1>0, <1>2, <4>2
    <3> QED BY <3>1, <3>2
  <2>2. ASSUME NEW c \in Customers, sem'["bake_done"][c] > 0
        PROVE  /\ pc'[c] = "await_bake" /\ sem'["bake_done"][c] = 1
               /\ \A j \in Chefs : ~(pc'[j] \in Handling /\ loc'[j].node = c)
    <3>1. CASE c = x /\ pc[k] = "bake"
      <4>1. pc[x] = "await_bake" /\ to = "top"
        BY <3>1 DEF Handled, HandledBy
      <4> QED BY <1>1, <1>2, <1>6, <3>1, <4>1
    <3>2. CASE ~(c = x /\ pc[k] = "bake")
      <4>1. sem["bake_done"][c] = sem'["bake_done"][c]
        BY <1>4, <2>2, <3>2
      <4>2. pc[c] = "await_bake" /\ sem["bake_done"][c] = 1 /\ \A j \in Chefs : ~Handles(j, c)
        BY <2>2, <4>1 DEF Posted
      <4> QED BY <1>2, <1>6, <4>1, <4>2
    <3> QED BY <3>1, <3>2
  <2>3. ASSUME NEW c \in Customers, sem'["payment_ok"][c] > 0
        PROVE  /\ pc'[c] = "await_payment" /\ sem'["payment_ok"][c] = 1
               /\ \A j \in Chefs : ~(pc'[j] \in Handling /\ loc'[j].node = c)
    <3>1. CASE c = x /\ pc[k] = "accept"
      <4>1. pc[x] = "await_payment" /\ to = "top"
        BY <3>1 DEF Handled, HandledBy
      <4> QED BY <1>1, <1>2, <1>6, <3>1, <4>1
    <3>2. CASE ~(c = x /\ pc[k] = "accept")
      <4>1. sem["payment_ok"][c] = sem'["payment_ok"][c]
        BY <1>4, <2>3, <3>2
      <4>2. pc[c] = "await_payment" /\ sem["payment_ok"][c] = 1 /\ \A j \in Chefs : ~Handles(j, c)
        BY <2>3, <4>1 DEF Posted
      <4> QED BY <1>2, <1>6, <4>1, <4>2
    <3> QED BY <3>1, <3>2
  <2> QED BY <2>1, <2>2, <2>3 DEF Posted, Handles
<1> QED BY <1>3, <1>5, <1>7, <1>8 DEF Handled

\* A chef starts to bake when the customer has ordered.
LEMMA ChefBakesOrdered ==
    ASSUME TypeInv, CakeBakedOnce, ServiceInv, NEW k \in Chefs, ChefStartsBaking(k)
    PROVE  ServiceInv'
<1> USE DEF ServiceInv
<1> DEFINE x == loc[k].node
<1>0. /\ pc \in [Threads -> Labels] /\ k \in Threads /\ k \notin Customers
      /\ Customers \subseteq Threads /\ Chefs \subseteq Threads /\ loc[k].q \in Lined
      /\ pc[k] = "await_start" /\ sem["start_bake"][x] > 0
      /\ sem \in [Semaphores -> [Customers -> Nat]]
      /\ pc' = [pc EXCEPT ![k] = "bake"] /\ UNCHANGED <<loc, lists>>
  BY ThreadFacts, BakeryAssumption
     DEF TypeInv, TypeOK, NobodyStood, ChefStartsBaking, Signals, At, Goto
<1>1. HandledBy(k) /\ x \in Customers
  BY <1>0 DEF Handled, HandledBy, Handling
<1>2. pc[x] = "await_bake"
  <2>1. IsFiniteSet({j \in Chefs : pc[j] = "bake" /\ loc[j].node = x})
    BY BakeryAssumption, FS_Subset
  <2>2. Cardinality({j \in Chefs : pc[j] = "bake" /\ loc[j].node = x}) \in Nat
    BY <2>1, FS_CardinalityType
  <2>3. sem["start_bake"][x] \in Nat /\ sem["bake_done"][x] \in Nat
    BY <1>0, <1>1 DEF Semaphores
  <2> HIDE DEF x
  <2>4. sem["start_bake"][x] + sem["bake_done"][x]
          + Cardinality({j \in Chefs : pc[j] = "bake" /\ loc[j].node = x})
        = IF pc[x] = "await_bake" THEN 1 ELSE 0
    BY <1>1 DEF CakeBakedOnce
  <2>5. sem["start_bake"][x] > 0
    BY <1>0 DEF x
  <2> QED BY <2>2, <2>3, <2>4, <2>5
<1>3. \A s \in {"served", "bake_done", "payment_ok"} : sem'[s] = sem[s]
  BY <1>0 DEF ChefStartsBaking, Signals, Wait, Semaphores
<1>4. /\ pc'[k] = "bake" /\ (\A u \in Threads \ {k} : pc'[u] = pc[u])
      /\ \A c \in Customers : pc'[c] = pc[c]
  BY <1>0
<1>5. /\ LinesKept' /\ Editors' /\ NobodyStood'
      /\ \A q : Line(q)' = Line(q) /\ Members(q)' = Members(q)
  <2>1. pc'[k] \notin ListLabels \cup Standing /\ pc[k] \notin Editing
    BY <1>0, <1>4 DEF ListLabels, Standing, Editing, Pushing, Popping
  <2> QED BY <1>0, <1>4, <2>1, OffLists DEF OnlyWakes
<1>6. Queued'
  BY <1>0, <1>3, <1>4, <1>5 DEF Queued
<1>7. \A j \in Chefs : \A c : (pc'[j] \in Handling /\ loc'[j].node = c) <=> Handles(j, c)
  BY <1>0, <1>4 DEF Handles, Handling
<1>8. ASSUME NEW j \in Chefs PROVE HandledBy(j)'
  <2>1. CASE j # k
    BY <1>0, <1>3, <1>4, <1>5, <1>7, <2>1
       DEF Handled, HandledBy, TookFrom, Handles, Handling, Taken
  <2>2. CASE j = k
    BY <1>0, <1>1, <1>2, <1>4, <1>5, <1>7, <2>2 DEF HandledBy, TookFrom, Handles, Handling, Taken
  <2> QED BY <2>1, <2>2
<1>9. Posted'
  <2>1. ASSUME NEW c \in Customers, sem'["served"][c] > 0
        PROVE  /\ pc'[c] = "await_served"
               /\ \E j \in Chefs : pc'[j] = "await_start" /\ loc'[j].node = c
    <3>1. pc[c] = "await_served" /\ \E j \in Chefs : pc[j] = "await_start" /\ loc[j].node = c
      BY <1>3, <2>1 DEF Posted
    <3>2. PICK j \in Chefs : pc[j] = "await_start" /\ loc[j].node = c
      BY <3>1
    <3>3. j # k
      BY <1>2, <3>1, <3>2
    <3> QED BY <1>0, <1>4, <3>1, <3>2, <3>3
  <2> QED BY <1>3, <1>4, <1>7, <2>1 DEF Posted, Handles
<1> QED BY <1>5, <1>6, <1>8, <1>9 DEF Handled

\* A label change of one thread away from the lists and the customers.
LEMMA PassesBy ==
    ASSUME TypeInv, ServiceInv, NEW t \in Threads, OnlyWakes(t), UNCHANGED <<lists, sem>>,
           pc[t] \notin Marked, pc'[t] \notin Marked, loc'[t].q \in Lined
    PROVE  ServiceInv'
<1>1. {"chef_cv", "chef_wake"} \cap Marked = {}
  BY DEF Marked, ListLabels, Handling, Taken, Standing, Pushing, Popping
<1>2. \A u \in Threads \ {t} : /\ loc'[u] = loc[u]
                               /\ pc'[u] = pc[u] \/ (pc'[u] \notin Marked /\ pc[u] \notin Marked)
  BY <1>1 DEF OnlyWakes
<1>3. \A u \in Threads : loc[u].q \in Lined
  BY DEF ServiceInv, NobodyStood
<1>4. Elsewhere
  BY <1>2, <1>3 DEF Elsewhere
<1> QED BY <1>4, ElsewhereKeeps

\* Every step of a chef.
LEMMA ChefKeeps ==
    ASSUME TypeInv, LockInv, CakeBakedOnce, SafeUntilShutdown, ServiceInv, NEW k \in Chefs, Chef(k)
    PROVE  ServiceInv'
<1> DEFINE x == loc[k].node
<1>0. /\ pc \in [Threads -> Labels] /\ loc \in [Threads -> Local] /\ k \in Threads /\ loc[k].q \in Lined
      /\ sem \in [Semaphores -> [Customers -> Nat]]
  BY ThreadFacts DEF TypeInv, TypeOK, Local, ServiceInv, NobodyStood
<1>a. ASSUME NEW to, pc' = [pc EXCEPT ![k] = to], UNCHANGED <<loc, lists, sem>>,
             pc[k] \notin Marked, to \notin Marked
      PROVE  ServiceInv'
  BY <1>0, <1>a, PassesBy DEF OnlyWakes
<1>b. {"top", "lock", "check", "pick", "fell", "chef_cv", "exit"} \cap Marked = {}
  BY DEF Marked, ListLabels, Handling, Taken, Standing, Pushing, Popping
<1>c. /\ {"popped", "serve", "await_start", "bake", "register", "accept"} \subseteq Handling \ Editing
      /\ {"serve", "await_start", "register", "accept", "top"}
            \subseteq (Handling \cup {"top"}) \ (Taken \cup {"bake"})
  BY DEF Handling, Taken, Editing
<1>1. CASE ChefTop(k)
  <2>1. PICK to \in {"exit", "lock"} : Jumps(k, "top", to)
    BY <1>1 DEF ChefTop
  <2> QED BY <1>a, <1>b, <2>1 DEF Jumps, At, Goto
<1>2. CASE ChefSeesWork(k)
  BY <1>2, <1>a, <1>b DEF ChefSeesWork, Jumps, At, Goto
<1>3. CASE ChefWaits(k)
  <2>1. PICK to \in {"fell", "chef_cv"} : Unlocks(k, "check", to)
    BY <1>3 DEF ChefWaits
  <2> QED BY <1>a, <1>b, <2>1 DEF Unlocks, At, Goto
<1>4. ASSUME NEW from \in {"pick", "fell"}, ChefPicks(k, from)
      PROVE  ServiceInv'
  <2>1. CASE Unlocks(k, from, "top")
    BY <2>1, <1>a, <1>b DEF Unlocks, At, Goto
  <2>2. CASE \E q \in {"payment", "sofa"} :
                /\ Work(q) /\ (q = "sofa" => ~Work("payment"))
                /\ Sets(k, from, "pop", [loc[k] EXCEPT !.q = q])
    <3>1. PICK q \in Lined : /\ Work(q) /\ (q = "sofa" => ~Work("payment"))
                             /\ Sets(k, from, "pop", [loc[k] EXCEPT !.q = q])
      BY <2>2 DEF Lined
    <3>2. pc[k] = from
      BY <3>1 DEF Sets, At
    <3> QED BY <3>1, <3>2, ChefPicksKeeps
  <2> QED BY <1>4, <2>1, <2>2 DEF ChefPicks
<1>h. HandledBy(k)
  BY DEF ServiceInv, Handled
<1>p. pc[k] \in Handling => x \in Customers /\ sem["bake_done"][x] = 0 /\ sem["payment_ok"][x] = 0
  <2>1. pc[k] \in Handling => x \in Customers /\ Handles(k, x)
    BY <1>h DEF HandledBy, Handles
  <2> QED BY <1>0, <2>1 DEF ServiceInv, Posted, Semaphores
<1>5. CASE ChefUnlocks(k)
  <2> DEFINE to == IF loc[k].q = "payment" THEN "register" ELSE "serve"
  <2>1. pc[k] = "popped" /\ pc' = [pc EXCEPT ![k] = to] /\ UNCHANGED <<loc, lists, sem>>
    BY <1>5 DEF ChefUnlocks, Unlocks, At, Goto
  <2>2. /\ to = "register" => pc[x] = "await_payment"
        /\ to = "serve" => pc[x] = "await_served" /\ sem["served"][x] = 0
    BY <1>0, <1>h, <2>1 DEF HandledBy, TookFrom, Taken, Lined
  <2>3. to \in {"register", "serve"}
    OBVIOUS
  <2> HIDE DEF to
  <2> QED BY <1>c, <2>1, <2>2, <2>3, ChefHandles
<1>6. CASE ChefTakesRegister(k)
  <2>1. /\ pc[k] = "register" /\ pc' = [pc EXCEPT ![k] = "accept"] /\ UNCHANGED <<loc, lists, sem>>
        /\ pc[x] = "await_payment"
    BY <1>6, <1>h DEF ChefTakesRegister, Registers, At, Goto, HandledBy
  <2> QED BY <1>c, <2>1, ChefHandles
<1>7. CASE ChefAccepts(k)
  <2>1. /\ pc[k] = "accept" /\ pc' = [pc EXCEPT ![k] = "top"] /\ UNCHANGED <<loc, lists>>
        /\ sem' = [sem EXCEPT !["payment_ok"][x] = @ + 1]
    BY <1>7 DEF ChefAccepts, Registers, At, Goto, Post
  <2>2. x \in Customers /\ sem["payment_ok"][x] = 0
    BY <1>c, <1>p, <2>1
  <2>3. /\ \A s \in Semaphores \ {"start_bake"} : \A c \in Customers : c # x => sem'[s][c] = sem[s][c]
        /\ sem'["served"][x] = sem["served"][x] /\ sem'["bake_done"][x] = sem["bake_done"][x]
        /\ sem'["payment_ok"][x] = 1
    BY <1>0, <2>1, <2>2 DEF Semaphores
  <2> QED BY <1>c, <2>1, <2>3, ChefHandles
<1>8. CASE ChefServes(k)
  <2>1. /\ pc[k] = "serve" /\ pc' = [pc EXCEPT ![k] = "await_start"] /\ UNCHANGED <<loc, lists>>
        /\ sem' = [sem EXCEPT !["served"][x] = @ + 1]
    BY <1>8 DEF ChefServes, Signals, At, Goto, Post
  <2>2. x \in Customers /\ sem["served"][x] = 0 /\ pc[x] = "await_served"
    BY <1>c, <1>h, <2>1 DEF HandledBy
  <2>3. /\ \A s \in Semaphores \ {"start_bake"} : \A c \in Customers : c # x => sem'[s][c] = sem[s][c]
        /\ sem'["served"][x] = 1 /\ sem'["bake_done"][x] = sem["bake_done"][x]
        /\ sem'["payment_ok"][x] = sem["payment_ok"][x]
    BY <1>0, <2>1, <2>2 DEF Semaphores
  <2> QED BY <1>c, <2>1, <2>2, <2>3, ChefHandles
<1>9. CASE ChefStartsBaking(k)
  BY <1>9, ChefBakesOrdered
<1>10. CASE ChefBakes(k)
  <2>1. /\ pc[k] = "bake" /\ pc' = [pc EXCEPT ![k] = "top"] /\ UNCHANGED <<loc, lists>>
        /\ sem' = [sem EXCEPT !["bake_done"][x] = @ + 1]
    BY <1>10 DEF ChefBakes, Signals, At, Goto, Post
  <2>2. x \in Customers /\ sem["bake_done"][x] = 0
    BY <1>c, <1>p, <2>1
  <2>3. /\ \A s \in Semaphores \ {"start_bake"} : \A c \in Customers : c # x => sem'[s][c] = sem[s][c]
        /\ sem'["served"][x] = sem["served"][x] /\ sem'["payment_ok"][x] = sem["payment_ok"][x]
        /\ sem'["bake_done"][x] = 1
    BY <1>0, <2>1, <2>2 DEF Semaphores
  <2> QED BY <1>c, <2>1, <2>3, ChefHandles
<1>11. CASE QPop(k)
  BY <1>11, QPopKeeps
<1> QED BY <1>1, <1>2, <1>3, <1>4, <1>5, <1>6, <1>7, <1>8, <1>9, <1>10, <1>11 DEF Chef

\* A customer goes from one wait to the next.
LEMMA CustomerWaits ==
    ASSUME TypeInv, ServiceInv, NEW c \in Customers, OnlyWakes(c), UNCHANGED lists,
           pc[c] \notin Editing, pc'[c] \notin ListLabels \cup Standing, loc'[c].q \in Lined,
           \A s \in {"served", "bake_done", "payment_ok"} :
              sem'[s][c] = 0 /\ \A d \in Customers \ {c} : sem'[s][d] = sem[s][d],
           c \in Members("sofa") => pc'[c] = "await_served",
           c \in Members("payment") => pc'[c] = "await_payment",
           \A k \in Chefs : Handles(k, c) => pc[k] = "await_start" /\ pc'[c] = "await_bake"
    PROVE  ServiceInv'
<1> USE DEF ServiceInv
<1>0. /\ c \in Threads /\ c \notin Chefs /\ Customers \subseteq Threads /\ Chefs \subseteq Threads
      /\ \A t \in Threads : loc[t].q \in Lined
  BY ThreadFacts, BakeryAssumption DEF NobodyStood
<1>1. /\ LinesKept' /\ Editors' /\ NobodyStood'
      /\ \A q : Line(q)' = Line(q) /\ Members(q)' = Members(q)
      /\ \A u \in Threads \ {c} : /\ loc'[u] = loc[u]
                                  /\ pc'[u] = pc[u] \/ (pc[u] \notin Marked /\ pc'[u] \notin Marked)
  BY <1>0, OffLists
<1>2. /\ Handling \subseteq Marked /\ Awaiting \subseteq Marked /\ Linked \subseteq Marked
  BY DEF Marked, ListLabels, Linked, Awaiting, Pushing
<1>3. Queued'
  <2>1. ASSUME NEW d \in Customers, d # c, d \in Members("sofa")
        PROVE  /\ pc'[d] = "await_served" \/ (pc'[d] \in Linked /\ loc'[d].q = "sofa")
               /\ sem'["served"][d] = 0
    BY <1>0, <1>1, <1>2, <2>1 DEF Queued, Awaiting
  <2>2. ASSUME NEW d \in Customers, d # c, d \in Members("payment")
        PROVE  /\ pc'[d] = "await_payment" \/ (pc'[d] \in Linked /\ loc'[d].q = "payment")
               /\ sem'["payment_ok"][d] = 0
    BY <1>0, <1>1, <1>2, <2>2 DEF Queued, Awaiting
  <2> QED BY <1>1, <2>1, <2>2 DEF Queued
<1>4. ASSUME NEW j \in Chefs
      PROVE  /\ \A d : (pc'[j] \in Handling /\ loc'[j].node = d) <=> Handles(j, d)
             /\ pc'[j] \in Handling => pc'[j] = pc[j]
             /\ pc[j] \in Handling => pc'[j] = pc[j]
             /\ loc'[j] = loc[j]
  BY <1>0, <1>1, <1>2 DEF Handles
<1>5. ASSUME NEW d \in Customers, d # c, pc[d] \in Awaiting PROVE pc'[d] = pc[d]
  BY <1>0, <1>1, <1>2, <1>5
<1>6. ASSUME NEW j \in Chefs PROVE HandledBy(j)'
  <2>0. HandledBy(j) /\ loc[j].q \in Lined
    BY <1>0 DEF Handled
  <2>1. CASE pc'[j] \notin Handling
    BY <2>1 DEF HandledBy, TookFrom, Handling
  <2> DEFINE d == loc[j].node
  <2>2. CASE pc'[j] \in Handling
    <3>1. /\ pc'[j] = pc[j] /\ pc[j] \in Handling /\ loc'[j] = loc[j]
          /\ d \in Customers /\ d \notin Members("sofa")' /\ d \notin Members("payment")'
          /\ \A i \in Chefs : pc'[i] \in Handling /\ loc'[i].node = d => i = j
          /\ pc[d] \in Awaiting
      BY <1>1, <1>4, <2>0, <2>2 DEF HandledBy, TookFrom, Handling, Taken, Awaiting, Lined
    <3>2. CASE d # c
      <4>1. pc'[d] = pc[d] /\ sem'["served"][d] = sem["served"][d]
        BY <1>5, <3>1, <3>2
      <4> QED BY <2>0, <3>1, <4>1 DEF HandledBy, TookFrom, Handles, Handling, Taken
    <3>3. CASE d = c
      <4>1. pc[j] = "await_start" /\ pc'[d] = "await_bake"
        BY <3>1, <3>3 DEF Handles
      <4> QED BY <3>1, <4>1 DEF HandledBy, TookFrom, Handles, Handling, Taken
    <3> QED BY <3>2, <3>3
  <2> QED BY <2>1, <2>2
<1>7. Posted'
  <2>1. ASSUME NEW d \in Customers
        PROVE  /\ sem'["served"][d] > 0 =>
                     /\ pc'[d] = "await_served"
                     /\ \E k \in Chefs : pc'[k] = "await_start" /\ loc'[k].node = d
               /\ sem'["bake_done"][d] > 0 =>
                     /\ pc'[d] = "await_bake" /\ sem'["bake_done"][d] = 1
                     /\ \A k \in Chefs : ~(pc'[k] \in Handling /\ loc'[k].node = d)
               /\ sem'["payment_ok"][d] > 0 =>
                     /\ pc'[d] = "await_payment" /\ sem'["payment_ok"][d] = 1
                     /\ \A k \in Chefs : ~(pc'[k] \in Handling /\ loc'[k].node = d)
    <3>1. CASE d = c
      BY <3>1
    <3>2. CASE d # c
      <4>1. /\ sem'["served"][d] = sem["served"][d] /\ sem'["bake_done"][d] = sem["bake_done"][d]
            /\ sem'["payment_ok"][d] = sem["payment_ok"][d]
        BY <3>2
      <4>2. /\ sem["served"][d] > 0 =>
                  pc[d] = "await_served" /\ \E k \in Chefs : pc[k] = "await_start" /\ loc[k].node = d
            /\ sem["bake_done"][d] > 0 => /\ pc[d] = "await_bake" /\ sem["bake_done"][d] = 1
                                          /\ \A k \in Chefs : ~Handles(k, d)
            /\ sem["payment_ok"][d] > 0 => /\ pc[d] = "await_payment" /\ sem["payment_ok"][d] = 1
                                           /\ \A k \in Chefs : ~Handles(k, d)
        BY DEF Posted
      <4>3. \A k \in Chefs : pc[k] = "await_start" => pc'[k] = "await_start" /\ loc'[k] = loc[k]
        BY <1>4 DEF Handling
      <4> QED BY <1>4, <1>5, <3>2, <4>1, <4>2, <4>3 DEF Awaiting
    <3> QED BY <3>1, <3>2
  <2> QED BY <2>1 DEF Posted, Handles
<1> QED BY <1>1, <1>3, <1>6, <1>7 DEF Handled

\* With a seat for everyone, a customer who enters finds one.
LEMMA SeatFree ==
    ASSUME NobodyStands, TypeInv, CountInv, ~stolen, NEW c \in Customers, pc[c] = "enters"
    PROVE  sofa_occupied < SOFA_SEATS
<1>1. /\ Seated = {u \in Customers : HasSeat(u)} /\ IsFiniteSet(Seated) /\ IsFiniteSet(Inside)
      /\ Inside = {u \in Customers : pc[u] \notin Out \/ (pc[Main] = "create" /\ u = cur)}
  BY CountedSets
<1>2. /\ sofa_occupied = Cardinality(Seated) /\ Cardinality(Inside) <= MAX_CAPACITY
      /\ MAX_CAPACITY \in Nat /\ SOFA_SEATS \in Nat /\ Arrivals \in Nat
  BY BakeryAssumption DEF CountInv, SeatsCounted, CapacityKept
<1>3. Seated \subseteq Inside \ {c} /\ c \in Inside
  BY <1>1 DEF HasSeat, Out, SeatLabels, Pushing
<1>4. /\ Cardinality(Inside \ {c}) = Cardinality(Inside) - 1 /\ IsFiniteSet(Inside \ {c})
      /\ Cardinality(Inside) \in Nat
  BY <1>1, <1>3, FS_RemoveElement, FS_CardinalityType
<1>5. Cardinality(Seated) <= Cardinality(Inside \ {c}) /\ Cardinality(Seated) \in Nat
  BY <1>1, <1>3, <1>4, FS_Subset, FS_CardinalityType
<1>6. Cardinality(Inside) <= Arrivals
  <2>1. IsFiniteSet(Customers) /\ Cardinality(Customers) = Arrivals
    <3>1. 1 \in Int /\ Arrivals \in Int /\ Arrivals >= 0
      BY BakeryAssumption
    <3> QED BY <3>1, FS_Interval DEF Customers
  <2>2. Inside \subseteq Customers
    BY <1>1
  <2> QED BY <2>1, <2>2, FS_Subset
<1> QED BY <1>2, <1>4, <1>5, <1>6 DEF NobodyStands

\* Every step of a customer, when there is a seat for him.
LEMMA CustomerKeeps ==
    ASSUME FindsSeat, TypeInv, LockInv, CountInv, SafeUntilShutdown, ServiceInv,
           NEW c \in Customers, Customer(c)
    PROVE  ServiceInv'
<1>0. /\ pc \in [Threads -> Labels] /\ loc \in [Threads -> Local] /\ c \in Threads /\ c \notin Chefs
      /\ loc[c].q \in Lined /\ "standing" \notin Lined /\ sem \in [Semaphores -> [Customers -> Nat]]
      /\ pc[c] \notin Standing /\ \A u \in Threads : pc[u] # "standing_cv"
      /\ queue["standing"].size = 0 /\ Chefs \subseteq Threads
      /\ pc[c] \in ListLabels => pc[c] \in Pushing
  BY ThreadFacts, BakeryAssumption
     DEF TypeInv, TypeOK, Local, ServiceInv, NobodyStood, Lined, Standing
<1>1. ~shutdown_flag /\ ~stolen
  BY ActorFacts DEF LockInv, Closing, SafeUntilShutdown
<1>2. OnlyWakes(c) => \A u \in Threads \ {c} : loc'[u] = loc[u]
  BY DEF OnlyWakes
<1>a. ASSUME NEW to, pc' = [pc EXCEPT ![c] = to], \A u \in Threads \ {c} : loc'[u] = loc[u],
             loc'[c].q \in Lined, UNCHANGED <<lists, sem>>, pc[c] \notin Marked, to \notin Marked
      PROVE  ServiceInv'
  BY <1>0, <1>a, PassesBy DEF OnlyWakes
<1>b. {"enters", "peek_queue", "sit_lock", "sit", "sit_store", "join_lock", "pay_lock", "leave_lock",
       "leave", "leave_sofa", "leave_shop", "free", "gone"} \cap Marked = {}
  BY DEF Marked, ListLabels, Handling, Taken, Standing, Pushing, Popping
<1>c. ASSUME NEW locals, loc' = [loc EXCEPT ![c] = locals], locals.q \in Lined
      PROVE  loc'[c].q \in Lined /\ \A u \in Threads \ {c} : loc'[u] = loc[u]
  BY <1>0, <1>c
<1>3. CASE PeekSofa(c)
  <2>1. pc[c] = "enters"
    BY <1>3 DEF PeekSofa, GoStand, Jumps, Sets, At
  <2>2. sofa_occupied < SOFA_SEATS /\ sofa_occupied \in Int /\ SOFA_SEATS \in Int
    BY <1>1, <2>1, BakeryAssumption DEF FindsSeat, TypeInv, TypeOK
  <2>3. Jumps(c, "enters", "peek_queue")
    BY <1>3, <2>2 DEF PeekSofa
  <2> QED BY <1>0, <1>a, <1>b, <2>3 DEF Jumps, At, Goto
<1>4. CASE PeekQueue(c)
  BY <1>0, <1>4, <1>a, <1>b DEF PeekQueue, Jumps, At, Goto
<1>5. CASE Stand(c) \/ StandOn(c) \/ LeaveQueue(c)
  BY <1>0, <1>5 DEF Stand, StandOn, LeaveQueue, Unlocks, Jumps, At, Standing
<1>6. CASE Sit(c)
  <2>1. [loc[c] EXCEPT !.reg = sofa_occupied].q \in Lined
    BY <1>0 DEF Local
  <2> QED BY <1>6, <1>a, <1>b, <1>c, <2>1 DEF Sit, Sets, At, Goto
<1>7. CASE SitStore(c)
  <2>1. loc'[c].q \in Lined /\ \A u \in Threads \ {c} : loc'[u] = loc[u]
    BY <1>0, <1>7 DEF SitStore, Local, Lined
  <2> QED BY <1>7, <1>a, <1>b, <2>1 DEF SitStore, At, Goto
<1>8. CASE Leave(c)
  <2>1. [loc[c] EXCEPT !.reg = sofa_occupied].q \in Lined
    BY <1>0 DEF Local
  <2> QED BY <1>8, <1>a, <1>b, <1>c, <2>1 DEF Leave, Sets, At, Goto
<1>9. CASE LeaveSofa(c)
  <2>1. loc'[c].q \in Lined /\ \A u \in Threads \ {c} : loc'[u] = loc[u]
    BY <1>0, <1>9 DEF LeaveSofa, Local
  <2> QED BY <1>9, <1>a, <1>b, <2>1 DEF LeaveSofa, At, Goto
<1>10. CASE LeaveShop(c)
  <2>1. /\ pc[c] = "leave_shop" /\ pc'[c] = "free" /\ UNCHANGED <<loc, lists, sem>>
        /\ \A u \in Threads \ {c} : pc'[u] = Woken(pc[u], {"standing_cv", "chef_cv"})
    BY <1>0, <1>10 DEF LeaveShop, BroadcastAndGoto, At
  <2>2. OnlyWakes(c)
    BY <1>0, <2>1 DEF OnlyWakes, Woken
  <2> QED BY <1>0, <1>b, <2>1, <2>2, PassesBy
<1>11. CASE Free(c)
  BY <1>0, <1>11, <1>a, <1>b DEF Free, Jumps, At, Goto
<1>12. CASE QPush(c)
  BY <1>12, QPushKeeps
<1>13. CASE QPop(c)
  <2>1. pc[c] \in Popping
    BY <1>13 DEF QPop, Sets, Links, At, Popping
  <2> QED BY <1>0, <2>1 DEF ListLabels, Popping, Pushing
\* The waits.
<1>d. ASSUME pc[c] \notin Awaiting, NEW k \in Chefs PROVE ~Handles(k, c)
  <2>1. HandledBy(k) /\ loc[k].q \in Lined
    BY <1>0 DEF ServiceInv, Handled, NobodyStood
  <2> QED BY <1>d, <2>1 DEF Handles, Awaiting, HandledBy, TookFrom, Handling, Taken, Lined
<1>e. \A q \in Lined : c \in Members(q) => pc[c] \in Linked \cup {"await_served", "await_payment"}
  BY DEF ServiceInv, Queued, Lined
<1>f. /\ pc[c] # "await_served" => sem["served"][c] = 0
      /\ pc[c] # "await_bake" => sem["bake_done"][c] = 0
      /\ pc[c] # "await_payment" => sem["payment_ok"][c] = 0
  BY <1>0 DEF ServiceInv, Posted, Semaphores
<1>g. /\ {"await_served", "await_bake", "await_payment", "pay_lock", "leave_lock"}
            \cap (ListLabels \cup Standing \cup Editing) = {}
      /\ "pushed" \notin Editing \cup Awaiting
  BY DEF ListLabels, Standing, Editing, Awaiting, Pushing, Popping
<1>14. CASE Announce(c)
  <2> DEFINE to == IF loc[c].q = "sofa" THEN "await_served" ELSE "await_payment"
  <2>1. /\ pc[c] = "pushed" /\ pc'[c] = to /\ UNCHANGED <<loc, lists, sem>>
        /\ \A u \in Threads \ {c} : pc'[u] = Woken(pc[u], {"chef_cv"})
    BY <1>0, <1>14 DEF Announce, BroadcastAndGoto, At
  <2>2. OnlyWakes(c)
    BY <2>1 DEF OnlyWakes, Woken
  <2>3. /\ c \in Members("sofa") => to = "await_served"
        /\ c \in Members("payment") => to = "await_payment"
    BY <1>0, <2>1 DEF ServiceInv, Queued
  <2>4. \A s \in {"served", "bake_done", "payment_ok"} :
            sem'[s][c] = 0 /\ \A d \in Customers \ {c} : sem'[s][d] = sem[s][d]
    BY <1>f, <2>1
  <2>5. \A k \in Chefs : ~Handles(k, c)
    BY <1>d, <1>g, <2>1
  <2> QED BY <1>0, <1>g, <2>1, <2>2, <2>3, <2>4, <2>5, CustomerWaits
<1>15. CASE RequestCake(c)
  <2>1. /\ pc[c] = "await_served" /\ sem["served"][c] > 0 /\ pc' = [pc EXCEPT ![c] = "await_bake"]
        /\ sem' = [sem EXCEPT !["served"][c] = @ - 1, !["start_bake"][c] = @ + 1]
        /\ UNCHANGED <<loc, lists>>
    BY <1>15 DEF RequestCake, Signals, At, Goto
  <2>2. PICK k \in Chefs : pc[k] = "await_start" /\ loc[k].node = c
    BY <2>1 DEF ServiceInv, Posted
  <2>3. sem["served"][c] = 1 /\ \A j \in Chefs : Handles(j, c) => j = k
    BY <2>1, <2>2 DEF ServiceInv, Handled, HandledBy, Handling
  <2>4. c \notin Members("sofa") /\ c \notin Members("payment")
    BY <2>1 DEF ServiceInv, Queued, Linked
  <2>5. \A s \in {"served", "bake_done", "payment_ok"} :
            sem'[s][c] = 0 /\ \A d \in Customers \ {c} : sem'[s][d] = sem[s][d]
    BY <1>0, <1>f, <2>1, <2>3 DEF Semaphores
  <2>6. pc'[c] = "await_bake" /\ OnlyWakes(c) /\ loc'[c].q \in Lined
    BY <1>0, <2>1 DEF OnlyWakes
  <2> QED BY <1>g, <2>1, <2>2, <2>3, <2>4, <2>5, <2>6, CustomerWaits
<1>16. CASE Pay(c)
  <2>1. /\ pc[c] = "await_bake" /\ sem["bake_done"][c] > 0 /\ pc' = [pc EXCEPT ![c] = "pay_lock"]
        /\ sem' = [sem EXCEPT !["bake_done"][c] = @ - 1]
        /\ loc' = [loc EXCEPT ![c].q = "payment"] /\ UNCHANGED lists
    BY <1>16 DEF Pay, Wait, At, Goto
  <2>2. sem["bake_done"][c] = 1 /\ \A k \in Chefs : ~Handles(k, c)
    BY <2>1 DEF ServiceInv, Posted
  <2>3. c \notin Members("sofa") /\ c \notin Members("payment")
    BY <2>1 DEF ServiceInv, Queued, Linked
  <2>4. \A s \in {"served", "bake_done", "payment_ok"} :
            sem'[s][c] = 0 /\ \A d \in Customers \ {c} : sem'[s][d] = sem[s][d]
    BY <1>0, <1>f, <2>1, <2>2 DEF Semaphores
  <2>5. pc'[c] = "pay_lock" /\ OnlyWakes(c) /\ loc'[c].q \in Lined
    BY <1>0, <2>1 DEF OnlyWakes, Local, Lined
  <2> QED BY <1>g, <2>1, <2>2, <2>3, <2>4, <2>5, CustomerWaits
<1>17. CASE Paid(c)
  <2>1. /\ pc[c] = "await_payment" /\ sem["payment_ok"][c] > 0
        /\ pc' = [pc EXCEPT ![c] = "leave_lock"]
        /\ sem' = [sem EXCEPT !["payment_ok"][c] = @ - 1] /\ UNCHANGED <<loc, lists>>
    BY <1>17 DEF Paid, Signals, Wait, At, Goto
  <2>2. sem["payment_ok"][c] = 1 /\ \A k \in Chefs : ~Handles(k, c)
    BY <2>1 DEF ServiceInv, Posted
  <2>3. c \notin Members("sofa") /\ c \notin Members("payment")
    BY <1>0, <2>1, <2>2 DEF ServiceInv, Queued, Linked, Semaphores
  <2>4. \A s \in {"served", "bake_done", "payment_ok"} :
            sem'[s][c] = 0 /\ \A d \in Customers \ {c} : sem'[s][d] = sem[s][d]
    BY <1>0, <1>f, <2>1, <2>2 DEF Semaphores
  <2>5. pc'[c] = "leave_lock" /\ OnlyWakes(c) /\ loc'[c].q \in Lined
    BY <1>0, <2>1 DEF OnlyWakes
  <2> QED BY <1>g, <2>1, <2>2, <2>3, <2>4, <2>5, CustomerWaits
<1> QED BY <1>3, <1>4, <1>5, <1>6, <1>7, <1>8, <1>9, <1>10, <1>11, <1>12, <1>13, <1>14, <1>15,
           <1>16, <1>17 DEF Customer

\* Every step of main: the arrival in hand is at the door.
LEMMA MainKeeps ==
    ASSUME TypeInv, AwayUntilTurn, ServiceInv, MainStep
    PROVE  ServiceInv'
<1>0. /\ pc \in [Threads -> Labels] /\ loc \in [Threads -> Local] /\ Main \in Threads
      /\ \A u \in Threads : loc[u].q \in Lined /\ pc[u] # "standing_cv"
      /\ Customers \subseteq Threads
  BY ThreadFacts DEF TypeInv, TypeOK, Local, ServiceInv, NobodyStood, Standing
<1>b. {"away", "refused", "enters", "admit", "count", "create", "created", "arrive", "join", "close",
       "shutdown", "join_chefs", "chef_cv", "chef_wake"} \cap Marked = {}
  BY DEF Marked, ListLabels, Handling, Taken, Standing, Pushing, Popping
<1>1. CASE Refuse \/ Create
  <2>1. cur \in Customers /\ pc[cur] = "away"
    BY <1>1, BakeryAssumption
       DEF Refuse, Create, At, Customers, TypeInv, TypeOK, ArrivalPending, AwayUntilTurn
  <2>2. PICK m \in {"arrive", "join", "created"}, a \in {"refused", "enters"} :
            pc' = [pc EXCEPT ![Main] = m, ![cur] = a]
    BY <1>1 DEF Refuse, Create, AfterArrival
  <2>3. pc[Main] \in {"admit", "create"} /\ UNCHANGED <<loc, lists, sem>>
    BY <1>1 DEF Refuse, Create, At, NextArrival
  <2>4. \A u \in Threads : pc'[u] = pc[u] \/ (pc[u] \notin Marked /\ pc'[u] \notin Marked)
    BY <1>0, <1>b, <2>1, <2>2, <2>3
  <2> QED BY <1>0, <2>3, <2>4, ElsewhereKeeps DEF Elsewhere
<1>2. CASE Admit
  <2>1. loc' = [loc EXCEPT ![Main] = [loc[Main] EXCEPT !.reg = current_customers]]
    BY <1>2 DEF Admit, Sets
  <2>2. loc'[Main].q \in Lined /\ \A u \in Threads \ {Main} : loc'[u] = loc[u]
    BY <1>0, <2>1 DEF Local
  <2> QED BY <1>0, <1>2, <1>b, <2>2, PassesBy DEF Admit, Sets, At, Goto, OnlyWakes
<1>3. CASE Count
  BY <1>0, <1>3, <1>b, PassesBy DEF Count, At, Goto, OnlyWakes
<1>4. CASE Created
  <2>1. PICK to \in {"arrive", "join"} : Goto(Main, to)
    BY <1>4 DEF Created, AfterArrival
  <2> QED BY <1>0, <1>4, <1>b, <2>1, PassesBy DEF Created, NextArrival, At, Goto, OnlyWakes
<1>5. CASE JoinCustomers
  BY <1>0, <1>5, <1>b, PassesBy DEF JoinCustomers, Jumps, At, Goto, OnlyWakes
<1>6. CASE Shutdown
  <2>1. /\ pc[Main] = "shutdown" /\ pc'[Main] = "join_chefs" /\ UNCHANGED <<loc, lists, sem>>
        /\ \A u \in Threads \ {Main} : pc'[u] = Woken(pc[u], {"chef_cv"})
    BY <1>0, <1>6 DEF Shutdown, ShutsDown, BroadcastAndGoto, At
  <2>2. OnlyWakes(Main)
    BY <2>1 DEF OnlyWakes, Woken
  <2> QED BY <1>0, <1>b, <2>1, <2>2, PassesBy
<1>7. CASE JoinChefs
  BY <1>0, <1>7, ElsewhereKeeps DEF JoinChefs, Ends, Elsewhere
<1> QED BY <1>1, <1>2, <1>3, <1>4, <1>5, <1>6, <1>7 DEF MainStep

\* Every step of anyone.
LEMMA ServiceNext ==
    ASSUME FindsSeat, TypeInv, LockInv, AwayUntilTurn, CountInv, CakeBakedOnce,
           SafeUntilShutdown, ServiceInv, [Next]_vars
    PROVE  ServiceInv'
<1>0. /\ pc \in [Threads -> Labels]
      /\ \A u \in Threads : loc[u].q \in Lined /\ pc[u] \notin Standing
  BY DEF TypeInv, TypeOK, ServiceInv, NobodyStood
<1>b. {"lock", "check", "sit_lock", "sit", "join_lock", "pay_lock", "push", "leave_lock", "leave",
       "arrive", "admit", "close", "shutdown", "chef_cv", "chef_wake"} \cap Marked = {}
  BY DEF Marked, ListLabels, Handling, Taken, Standing, Pushing, Popping
<1>1. ASSUME NEW t \in Threads, Lock(t)
      PROVE  ServiceInv'
  <2>1. /\ pc[t] \in DOMAIN AfterLock /\ pc' = [pc EXCEPT ![t] = AfterLock[pc[t]]]
        /\ UNCHANGED <<loc, lists, sem>>
    BY <1>1 DEF Lock, Goto
  <2>2. pc[t] \notin Marked /\ AfterLock[pc[t]] \notin Marked
    BY <1>0, <1>b, <2>1 DEF AfterLock, Standing
  <2> QED BY <1>0, <2>1, <2>2, PassesBy DEF OnlyWakes
<1>2. ASSUME NEW k \in Chefs, Chef(k)
      PROVE  ServiceInv'
  BY <1>2, ChefKeeps
<1>3. ASSUME NEW c \in Customers, Customer(c)
      PROVE  ServiceInv'
  BY <1>3, CustomerKeeps
<1>4. CASE MainStep
  BY <1>4, MainKeeps
<1>5. ASSUME NEW t \in Threads, PlatformStep(t)
      PROVE  ServiceInv'
  <2>1. CASE SpuriousWakeup(t)
    <3>1. pc[t] = "chef_cv" /\ pc' = [pc EXCEPT ![t] = "chef_wake"] /\ UNCHANGED <<loc, lists, sem>>
      BY <1>0, <2>1 DEF SpuriousWakeup, Goto, Standing
    <3> QED BY <1>0, <1>b, <3>1, PassesBy DEF OnlyWakes
  <2>2. CASE BadPointer(t) \/ OwnerAssertion(t) \/ CreateFails
    BY <1>0, <2>2, ElsewhereKeeps DEF BadPointer, OwnerAssertion, CreateFails, Ends, Elsewhere
  <2> QED BY <1>5, <2>1, <2>2 DEF PlatformStep
<1>6. CASE UNCHANGED vars
  BY <1>0, <1>6, ElsewhereKeeps DEF vars, Elsewhere
<1> QED BY <1>1, <1>2, <1>3, <1>4, <1>5, <1>6, ThreadFacts DEF Next, Step, Halted, PlatformStep

\* In the beginning the lists are empty and nobody waits.
LEMMA InitService == Init => ServiceInv
<1> SUFFICES ASSUME Init PROVE ServiceInv
  OBVIOUS
<1>0. /\ \A t \in Threads : pc[t] \in {"top", "away", "arrive", "join"} /\ loc[t].q = "sofa"
      /\ Customers \subseteq Threads /\ Chefs \subseteq Threads
      /\ \A q \in Queues : queue[q].head = None /\ queue[q].tail = None /\ queue[q].size = 0
      /\ \A s \in Semaphores, c \in Customers : sem[s][c] = 0
  BY ThreadFacts DEF Init
<1>1. /\ <<>> \in Seq(Customers) /\ DOMAIN <<>> = {} /\ Len(<<>>) = 0
      /\ \A i : i \notin 1 .. 0
  OBVIOUS
<1>2. Chained(<<>>, None, next)
  BY <1>1 DEF Chained, Distinct, IsChain
<1>3. \A q \in Lined : Line(q) = <<>> /\ Chained(Line(q), queue[q].head, next) /\ Members(q) = {}
  <2> SUFFICES ASSUME NEW q \in Lined
               PROVE  Line(q) = <<>> /\ Chained(Line(q), queue[q].head, next) /\ Members(q) = {}
    OBVIOUS
  <2>1. queue[q].head = None
    BY <1>0 DEF Lined, Queues
  <2>2. Line(q) = <<>>
    BY <1>2, <2>1, ChainIs DEF Line
  <2>3. Members(q) = {}
    BY <1>1, <2>2 DEF Members, Elements
  <2> QED BY <1>2, <2>1, <2>2, <2>3
<1>4. LinesKept
  <2>1. \A q \in Lined : queue[q].tail = None /\ queue[q].size = 0
    BY <1>0 DEF Lined, Queues
  <2> QED BY <1>1, <1>3, <2>1 DEF LinesKept, End
<1>5. Editors
  BY <1>0 DEF Editors, Editor, Linked
<1>6. NobodyStood
  BY <1>0 DEF NobodyStood, Lined, Standing, ListLabels, Pushing, Popping, Queues
<1>7. Queued
  BY <1>3 DEF Queued, Lined
<1>8. Handled
  BY <1>0 DEF Handled, HandledBy, Handling, Taken, TookFrom
<1>9. Posted
  BY <1>0 DEF Posted, Semaphores
<1> QED BY <1>4, <1>5, <1>6, <1>7, <1>8, <1>9 DEF ServiceInv

\* Only chefs cook and take customers off the lists.
ChefsCook == \A t \in Threads : pc[t] \in Handling \cup Popping => t \in Chefs

\* What customers, main and the platform do takes nobody there.
LEMMA ChefsCookNext ==
    ASSUME TypeInv, AwayUntilTurn, ServiceInv, ChefsCook, [Next]_vars
    PROVE  ChefsCook'
<1> DEFINE Cooking == Handling \cup Popping
<1>0. /\ pc \in [Threads -> Labels] /\ Main \in Threads
      /\ \A c \in Customers : c \in Threads /\ c \notin Chefs
      /\ \A k \in Chefs : k \in Threads
      /\ \A u \in Threads : pc[u] \notin Standing
  BY ThreadFacts, BakeryAssumption DEF TypeInv, TypeOK, ServiceInv, NobodyStood
<1>a. ASSUME \A u \in Threads : pc'[u] = pc[u] \/ pc'[u] \notin Cooking \/ u \in Chefs
      PROVE  ChefsCook'
  BY <1>a DEF ChefsCook
<1>b. {"chef_wake", "standing_wake", "check", "my_turn", "sit", "push", "leave", "admit", "shutdown",
       "arrive", "join", "count", "create", "created", "close", "join_chefs", "refused", "enters"}
            \cap Cooking = {}
  BY DEF Handling, Taken, Popping
<1>1. ASSUME NEW t \in Threads, Lock(t)
      PROVE  ChefsCook'
  <2>1. pc[t] \in DOMAIN AfterLock /\ pc' = [pc EXCEPT ![t] = AfterLock[pc[t]]]
    BY <1>1 DEF Lock, Goto
  <2> HIDE DEF Cooking
  <2> QED BY <1>0, <1>a, <1>b, <2>1, AfterLockLabels
<1>2. ASSUME NEW k \in Chefs, Chef(k)
      PROVE  ChefsCook'
  BY <1>2, <1>a, ChefsLeaveMain
<1>3. ASSUME NEW c \in Customers, Customer(c)
      PROVE  ChefsCook'
  <2>0. SUFFICES pc'[c] \notin Cooking
    BY <1>0, <1>3, <1>a, <1>b, CustomerDisciplined DEF Disciplined, OthersStay
  <2>1. pc[c] \notin Popping \cup Standing
    BY <1>0 DEF ChefsCook
  <2>2. ASSUME NEW to, pc' = [pc EXCEPT ![c] = to] PROVE pc'[c] = to
    BY <1>0, <2>2
  <2> USE DEF Jumps, Sets, Signals, Unlocks, Links, At, Goto
  <2>3. CASE PeekSofa(c) \/ PeekQueue(c)
    BY <2>2, <2>3 DEF PeekSofa, PeekQueue, GoStand, Handling, Taken, Popping
  <2>4. CASE Stand(c) \/ StandOn(c) \/ LeaveQueue(c)
    BY <2>1, <2>2, <2>4 DEF Stand, StandOn, LeaveQueue, Handling, Taken, Popping, Standing
  <2>5. CASE Sit(c) \/ SitStore(c) \/ Leave(c) \/ LeaveSofa(c) \/ Free(c)
    BY <2>2, <2>5 DEF Sit, SitStore, Leave, LeaveSofa, Free, Handling, Taken, Popping
  <2>6. CASE Announce(c) \/ LeaveShop(c)
    BY <1>0, <2>6 DEF Announce, LeaveShop, BroadcastAndGoto, Handling, Taken, Popping
  <2>7. CASE RequestCake(c) \/ Pay(c) \/ Paid(c)
    BY <2>2, <2>7 DEF RequestCake, Pay, Paid, Handling, Taken, Popping
  <2>8. CASE QPush(c)
    <3>1. PICK to \in Pushing : pc' = [pc EXCEPT ![c] = to]
      BY <2>8 DEF QPush, Pushing
    <3> QED BY <2>2, <3>1 DEF Handling, Taken, Popping, Pushing
  <2>9. ~QPop(c)
    BY <2>1 DEF QPop, Popping
  <2> QED BY <1>3, <2>3, <2>4, <2>5, <2>6, <2>7, <2>8, <2>9 DEF Customer
<1>4. CASE MainStep
  <2>1. cur \in Customers \/ ~(Refuse \/ Create)
    BY BakeryAssumption DEF Refuse, Create, At, Customers, TypeInv, TypeOK, ArrivalPending
  <2>2. CASE Refuse \/ Create
    BY <1>0, <1>a, <1>b, <2>1, <2>2 DEF Refuse, Create, AfterArrival
  <2>3. CASE Admit \/ Count \/ Created \/ JoinCustomers
    BY <1>0, <1>a, <1>b, <2>3 DEF Admit, Count, Created, JoinCustomers, Sets, Jumps, Goto, AfterArrival
  <2>4. CASE Shutdown
    BY <1>0, <1>a, <1>b, <2>4 DEF Shutdown, BroadcastAndGoto, Woken
  <2>5. CASE JoinChefs
    BY <1>a, <2>5 DEF JoinChefs, Ends
  <2> QED BY <1>4, <2>2, <2>3, <2>4, <2>5 DEF MainStep
<1>5. ASSUME NEW t \in Threads, PlatformStep(t)
      PROVE  ChefsCook'
  BY <1>5, <1>a, <1>b, PlatformFacts
<1>6. CASE UNCHANGED vars
  BY <1>6 DEF vars, ChefsCook
<1> QED BY <1>0, <1>1, <1>2, <1>3, <1>4, <1>5, <1>6 DEF Next, Step, Halted, PlatformStep

\* A thread follows only pointers to customers who are still there.
LEMMA NodesAlive ==
    ASSUME TypeInv, ServiceInv, ChefsCook, NEW t \in Threads, pc[t] \in Dereferencing
    PROVE  Alive(loc[t].node)
<1> DEFINE q == loc[t].q  x == loc[t].node  s == Line(q)
<1>0. /\ None \notin Customers /\ q \in Lined /\ Chained(s, queue[q].head, next)
      /\ Editor(t) /\ (t \in Chefs => HandledBy(t))
  BY ThreadFacts DEF ServiceInv, NobodyStood, LinesKept, Editors, Handled
<1>1. SUFFICES x \in Customers /\ pc[x] # "gone"
  BY <1>0 DEF Alive
<1>2. ASSUME x \in Customers, x \in Members(q) PROVE pc[x] # "gone"
  BY <1>0, <1>2 DEF ServiceInv, Queued, Lined, Linked
<1>3. CASE pc[t] = "link_next"
  <2>1. x = End(s) /\ s # <<>>
    BY <1>0, <1>3 DEF Editor
  <2>2. x \in Elements(s) /\ x \in Customers
    BY <1>0, <2>1 DEF Chained, End, Elements
  <2> QED BY <1>2, <2>2 DEF Members
<1>4. CASE pc[t] = "pop_head"
  <2>1. x = queue[q].head /\ s # <<>>
    BY <1>0, <1>4 DEF Editor
  <2>2. x \in Elements(s) /\ x \in Customers
    <3> HIDE DEF s
    <3> QED BY <1>0, <2>1, ChainShrinks
  <2> QED BY <1>2, <2>2 DEF Members
<1>5. CASE pc[t] \in {"pop_tail", "accept", "serve", "await_start", "bake"}
  <2>1. t \in Chefs /\ pc[t] \in Handling
    BY <1>5 DEF ChefsCook, Handling, Taken
  <2>2. HandledBy(t)
    BY <1>0, <2>1
  <2> QED BY <1>0, <1>5, <2>1, <2>2 DEF HandledBy, TookFrom, Taken, Lined
<1> QED BY <1>3, <1>4, <1>5 DEF Dereferencing

\* Who releases `lock' before the shutdown is its holder.
LEMMA OwnRelease ==
    ASSUME LockExclusion, ~stolen, NEW t \in Threads, InSection(t), Release(t)
    PROVE  ~stolen'
BY DEF LockExclusion, Release

\* Before the shutdown nobody steals the lock.
LEMMA NobodySteals ==
    ASSUME TypeInv, LockInv, ServiceInv, ~stolen, ~shutdown_flag, [Next]_vars
    PROVE  ~stolen'
<1>0. /\ LockExclusion /\ Main \in Threads /\ Customers \subseteq Threads /\ Chefs \subseteq Threads
      /\ \A u \in Threads : loc[u].q \in Lined /\ pc[u] \notin Standing
      /\ \A k \in Chefs : pc[k] # "fell"
  BY ThreadFacts DEF LockInv, FellIdle, ServiceInv, NobodyStood
<1>a. ASSUME NEW t \in Threads, pc[t] \in Locked, Release(t) PROVE ~stolen'
  BY <1>0, <1>a, OwnRelease DEF InSection
<1>b. {"check", "pick", "popped", "sit_store", "leave_shop", "admit", "created", "shutdown"}
         \subseteq Locked
  BY DEF Locked
<1> USE DEF Jumps, Sets, Signals, Unlocks, Links, At, mutexes
<1>1. ASSUME NEW t \in Threads, Lock(t)
      PROVE  ~stolen'
  BY <1>1 DEF Lock
<1>2. ASSUME NEW t, QPush(t) \/ QPop(t)
      PROVE  ~stolen'
  BY <1>2 DEF QPush, QPop
<1>3. ASSUME NEW k \in Chefs, Chef(k)
      PROVE  ~stolen'
  <2>1. CASE ChefTop(k) \/ ChefSeesWork(k) \/ ChefWaits(k) \/ ChefUnlocks(k)
    BY <1>0, <1>a, <1>b, <2>1 DEF ChefTop, ChefSeesWork, ChefWaits, ChefUnlocks
  <2>2. CASE ChefPicks(k, "pick") \/ ChefPicks(k, "fell")
    BY <1>0, <1>a, <1>b, <2>2 DEF ChefPicks
  <2>3. CASE ChefTakesRegister(k) \/ ChefAccepts(k)
    BY <2>3 DEF ChefTakesRegister, ChefAccepts, Registers
  <2>4. CASE ChefServes(k) \/ ChefStartsBaking(k) \/ ChefBakes(k)
    BY <2>4 DEF ChefServes, ChefStartsBaking, ChefBakes
  <2> QED BY <1>2, <1>3, <2>1, <2>2, <2>3, <2>4 DEF Chef
<1>4. ASSUME NEW c \in Customers, Customer(c)
      PROVE  ~stolen'
  <2>1. CASE PeekSofa(c) \/ PeekQueue(c) \/ Sit(c) \/ RequestCake(c) \/ Pay(c) \/ Paid(c)
    BY <2>1 DEF PeekSofa, PeekQueue, GoStand, Sit, RequestCake, Pay, Paid
  <2>2. CASE Leave(c) \/ LeaveSofa(c) \/ Free(c)
    BY <2>2 DEF Leave, LeaveSofa, Free
  <2>3. CASE Stand(c) \/ StandOn(c) \/ LeaveQueue(c)
    BY <1>0, <2>3 DEF Stand, StandOn, LeaveQueue, Lined, Standing
  <2>4. CASE SitStore(c) \/ LeaveShop(c)
    BY <1>0, <1>a, <1>b, <2>4 DEF SitStore, LeaveShop
  <2>5. CASE Announce(c)
    <3>1. InSection(c) /\ Release(c)
      BY <2>5 DEF Announce, InSection, Pushing
    <3> QED BY <1>0, <3>1, OwnRelease
  <2> QED BY <1>2, <1>4, <2>1, <2>2, <2>3, <2>4, <2>5 DEF Customer
<1>5. CASE MainStep
  <2>1. CASE Refuse \/ Created \/ Shutdown
    BY <1>0, <1>a, <1>b, <2>1 DEF Refuse, Created, Shutdown, ShutsDown, NextArrival
  <2>2. CASE Admit \/ Count \/ Create \/ JoinCustomers \/ JoinChefs
    BY <2>2 DEF Admit, Count, Create, JoinCustomers, JoinChefs, Ends
  <2> QED BY <1>5, <2>1, <2>2 DEF MainStep
<1>6. ASSUME NEW t \in Threads, PlatformStep(t)
      PROVE  ~stolen'
  BY <1>6, PlatformFacts
<1>7. CASE UNCHANGED vars
  BY <1>7 DEF vars
<1> QED BY <1>0, <1>1, <1>3, <1>4, <1>5, <1>6, <1>7 DEF Next, Step, Halted, PlatformStep

\* What changes the state of the process, and the flag.
LEMMA ProcessSteps ==
    ASSUME TypeInv, [Next]_vars
    PROVE  /\ shutdown_flag => shutdown_flag'
           /\ \/ process' = process \/ process' \in {"failed", "exited"}
              \/ \E t \in Threads : BadPointer(t) \/ OwnerAssertion(t)
<1> DEFINE P == /\ shutdown_flag => shutdown_flag'
                /\ \/ process' = process \/ process' \in {"failed", "exited"}
                   \/ \E t \in Threads : BadPointer(t) \/ OwnerAssertion(t)
<1>1. ASSUME NEW t \in Threads, Lock(t)
      PROVE  P
  BY <1>1 DEF Lock, control
<1>2. ASSUME NEW k \in Chefs, Chef(k)
      PROVE  P
  BY <1>2, ChefsLeaveMain DEF control
<1>3. ASSUME NEW c \in Customers, Customer(c)
      PROVE  P
  BY <1>3, CustomersLeaveMain DEF control
<1>4. CASE MainStep
  BY <1>4 DEF MainStep, Refuse, Admit, Sets, Count, Create, Created, NextArrival, JoinCustomers, Jumps,
              Shutdown, ShutsDown, JoinChefs, Ends, control
<1>5. ASSUME NEW t \in Threads, PlatformStep(t)
      PROVE  P
  BY <1>5 DEF PlatformStep, SpuriousWakeup, CreateFails, OwnerAssertion, BadPointer, Ends
<1>6. CASE UNCHANGED vars
  BY <1>6 DEF vars, control
<1> QED BY <1>1, <1>2, <1>3, <1>4, <1>5, <1>6, ThreadFacts DEF Next, Step, Halted, PlatformStep

\* Before the shutdown nothing crashes.
LEMMA SafeNext ==
    ASSUME TypeInv, LockInv, SafeUntilShutdown, ServiceInv, ChefsCook, [Next]_vars
    PROVE  SafeUntilShutdown'
<1>1. CASE shutdown_flag
  BY <1>1, ProcessSteps DEF SafeUntilShutdown
<1>2. CASE ~shutdown_flag
  <2>1. ~stolen /\ process # "crashed" /\ LockExclusion
    BY <1>2 DEF SafeUntilShutdown, LockInv
  <2>2. ~stolen'
    BY <1>2, <2>1, NobodySteals
  <2>3. ASSUME NEW t \in Threads PROVE ~BadPointer(t) /\ ~OwnerAssertion(t)
    <3>1. ~BadPointer(t)
      BY NodesAlive DEF BadPointer
    <3>2. ~OwnerAssertion(t)
      BY <2>1, ThreadFacts DEF OwnerAssertion, LockExclusion
    <3> QED BY <3>1, <3>2
  <2>4. process' # "crashed"
    BY <2>1, <2>3, ProcessSteps
  <2> QED BY <2>2, <2>4 DEF SafeUntilShutdown
<1> QED BY <1>1, <1>2

\* The facts that hold together, and each step keeps.
ShopInv == /\ TypeInv /\ LockInv /\ AwayUntilTurn /\ CountInv /\ CakeBakedOnce
           /\ SafeUntilShutdown /\ ServiceInv /\ ChefsCook

LEMMA InitShop == Init => ShopInv
<1> SUFFICES ASSUME Init PROVE ShopInv
  OBVIOUS
<1>1. SafeUntilShutdown
  BY DEF Init, SafeUntilShutdown
<1>2. ChefsCook
  BY DEF Init, ChefsCook, Handling, Taken, Popping
<1> QED BY <1>1, <1>2, InitType, InitAway, InitCakes, InitCounts, InitService DEF ShopInv

LEMMA ShopNext ==
    ASSUME FindsSeat, ShopInv, [Next]_vars
    PROVE  ShopInv'
<1> USE DEF ShopInv
<1>1. TypeInv' /\ LockInv' /\ AwayUntilTurn' /\ CountInv' /\ CakeBakedOnce'
  BY NextType, LockInvNext, AwayNext, CountNext, CakeNext
<1>2. ServiceInv'
  BY ServiceNext
<1>3. SafeUntilShutdown' /\ ChefsCook'
  BY SafeNext, ChefsCookNext
<1> QED BY <1>1, <1>2, <1>3

\* Those who could stand are inside: with a seat for each, nobody has to.
LEMMA NoneStands == NobodyStands /\ ShopInv => FindsSeat
<1> SUFFICES ASSUME NobodyStands, ShopInv, NEW c \in Customers, pc[c] = "enters"
             PROVE  sofa_occupied < SOFA_SEATS
  BY DEF FindsSeat
<1>1. ~stolen
  BY DEF ShopInv, LockInv, Closing, SafeUntilShutdown
<1> QED BY <1>1, SeatFree DEF ShopInv

\* As long as each customer who looks finds a seat free, whatever the number of
\* customers, chefs and seats, only the holder of `lock' releases it, and every
\* pointer that q_push, q_pop and the chefs follow leads to a customer who is
\* still there, until the shutdown.
THEOREM SafeWhileSeats == Spec /\ []FindsSeat => []SafeUntilShutdown
<1>1. ShopInv => SafeUntilShutdown
  BY DEF ShopInv
<1>2. FindsSeat /\ ShopInv /\ [Next]_vars => ShopInv'
  BY ShopNext
<1> QED BY InitShop, <1>1, <1>2, PTL DEF Spec

\* So it is in every execution when there is a seat for everyone.
THEOREM SafeWithSeats ==
    ASSUME NobodyStands
    PROVE  Spec => []SafeUntilShutdown
<1>1. ShopInv => SafeUntilShutdown
  BY DEF ShopInv
<1>2. ShopInv /\ [Next]_vars => ShopInv'
  BY ShopNext, NoneStands
<1> QED BY InitShop, <1>1, <1>2, PTL DEF Spec

-----------------------------------------------------------------------------
(***************************************************************************)
(* The steps of the threads as steps of the service.                       *)
(***************************************************************************)

\* The stage of a customer and the task of a chef, from what they depend on.
StageAt(label, q, baked, paid) ==
    CASE label = "away" -> "outside"
      [] label = "refused" -> "refused"
      [] label \in {"free", "gone"} -> "left"
      [] label = "await_served" \/ (label \in Linked /\ q = "sofa") -> "seated"
      [] label = "await_bake" -> IF baked = 0 THEN "ordered" ELSE "served"
      [] label = "pay_lock" \/ (label \in Pushing \ Linked /\ q = "payment") -> "served"
      [] label = "await_payment" -> IF paid = 0 THEN "paying" ELSE "paid"
      [] label \in Linked /\ q = "payment" -> IF paid = 0 THEN "paying" ELSE "paid"
      [] label \in {"leave_lock", "leave", "leave_sofa", "leave_shop"} -> "paid"
      [] OTHER -> "inside"
TaskAt(label, q, node) ==
    LET taken == label \in {"pop_tail", "pop_size", "popped"}
    IN  IF label \in {"register", "accept"} \/ (taken /\ q = "payment")
        THEN [does |-> "register", for |-> node]
        ELSE IF label \in {"serve", "await_start", "bake"} \/ (taken /\ q = "sofa")
        THEN [does |-> "bakes", for |-> node]
        ELSE [does |-> "nothing"]

LEMMA StagesAndTasks ==
    /\ \A c : /\ StageOf(c) = StageAt(pc[c], loc[c].q, sem["bake_done"][c], sem["payment_ok"][c])
              /\ StageOf(c)' = StageAt(pc'[c], loc'[c].q, sem'["bake_done"][c], sem'["payment_ok"][c])
    /\ \A k : /\ TaskOf(k) = TaskAt(pc[k], loc[k].q, loc[k].node)
              /\ TaskOf(k)' = TaskAt(pc'[k], loc'[k].q, loc'[k].node)
<1>1. ASSUME NEW c
      PROVE  /\ StageOf(c) = StageAt(pc[c], loc[c].q, sem["bake_done"][c], sem["payment_ok"][c])
             /\ StageOf(c)' = StageAt(pc'[c], loc'[c].q, sem'["bake_done"][c], sem'["payment_ok"][c])
  BY DEF StageOf, StageAt
<1>2. ASSUME NEW k
      PROVE  /\ TaskOf(k) = TaskAt(pc[k], loc[k].q, loc[k].node)
             /\ TaskOf(k)' = TaskAt(pc'[k], loc'[k].q, loc'[k].node)
  BY DEF TaskOf, TaskAt
<1> QED BY <1>1, <1>2

\* What a label says of the stage.
LEMMA StageFacts ==
    ASSUME NEW q \in Lined, NEW baked, NEW paid
    PROVE  /\ \A label \in {"enters", "peek_queue", "sit_lock", "sit", "sit_store", "join_lock", "chef_cv",
                            "chef_wake", "standing_cv", "standing_wake", "lock", "check", "arrive",
                            "admit", "close", "shutdown"} :
                 StageAt(label, q, baked, paid) = "inside"
           /\ \A label \in Pushing \ Linked :
                 StageAt(label, q, baked, paid) = IF q = "sofa" THEN "inside" ELSE "served"
           /\ \A label \in Linked :
                 StageAt(label, q, baked, 0) = IF q = "sofa" THEN "seated" ELSE "paying"
           /\ StageAt("pay_lock", q, baked, paid) = "served"
           /\ StageAt("await_served", q, baked, paid) = "seated"
           /\ StageAt("await_bake", q, 0, paid) = "ordered" /\ StageAt("await_bake", q, 1, paid) = "served"
           /\ StageAt("await_payment", q, baked, 0) = "paying"
           /\ StageAt("await_payment", q, baked, 1) = "paid"
           /\ \A label \in {"leave_lock", "leave", "leave_sofa", "leave_shop"} :
                 StageAt(label, q, baked, paid) = "paid"
           /\ \A label \in {"free", "gone"} : StageAt(label, q, baked, paid) = "left"
           /\ StageAt("away", q, baked, paid) = "outside"
           /\ StageAt("refused", q, baked, paid) = "refused"
BY DEF StageAt, Linked, Pushing, Lined

\* What a label says of the task.
LEMMA TaskFacts ==
    ASSUME NEW label, NEW q \in Lined, NEW node
    PROVE  /\ label \notin Handling => TaskAt(label, q, node) = Service!Idle
           /\ label \in {"serve", "await_start", "bake"} =>
                 TaskAt(label, q, node) = [does |-> "bakes", for |-> node]
           /\ label \in {"register", "accept"} =>
                 TaskAt(label, q, node) = [does |-> "register", for |-> node]
           /\ label \in Taken =>
                 TaskAt(label, q, node) = [does |-> IF q = "sofa" THEN "bakes" ELSE "register", for |-> node]
BY DEF TaskAt, Taken, Handling, Lined, Service!Idle

\* The lines change with the lists only.
LEMMA LinesStay == UNCHANGED lists => \A p : Line(p)' = Line(p)
BY DEF lists, Line

\* What nobody sees.
LEMMA Unseen ==
    ASSUME \A c \in Customers : StageOf(c)' = StageOf(c),
           \A k \in Chefs : TaskOf(k)' = TaskOf(k),
           \A p \in Lined : Line(p)' = Line(p), UNCHANGED shutdown_flag
    PROVE  UNCHANGED Service!vars
BY DEF Service!vars, Lined

\* One customer moves.
LEMMA StageMoves ==
    ASSUME NEW c \in Customers, NEW from, NEW to, StageOf(c) = from, StageOf(c)' = to,
           \A d \in Customers \ {c} : StageOf(d)' = StageOf(d)
    PROVE  Service!Move(c, from, to)
BY DEF Service!Move

\* One chef goes from one task to the next.
LEMMA TaskMoves ==
    ASSUME NEW k \in Chefs, NEW to, TaskOf(k)' = to,
           \A j \in Chefs \ {k} : TaskOf(j)' = TaskOf(j)
    PROVE  [j \in Chefs |-> TaskOf(j)]' = [[j \in Chefs |-> TaskOf(j)] EXCEPT ![k] = to]
OBVIOUS

\* The others look the same when one thread moves.
LEMMA OthersLook ==
    ASSUME TypeInv, ServiceInv, NEW t \in Threads, OthersStay(t),
           \A s \in {"bake_done", "payment_ok"} :
              \A d \in Customers \ {t} : sem'[s][d] = sem[s][d]
    PROVE  /\ \A d \in Customers \ {t} : StageOf(d)' = StageOf(d)
           /\ \A k \in Chefs \ {t} : TaskOf(k)' = TaskOf(k)
<1>0. /\ Customers \subseteq Threads /\ Chefs \subseteq Threads
      /\ \A u \in Threads : loc[u].q \in Lined
      /\ {"chef_cv", "standing_cv", "chef_wake", "standing_wake"} \cap Handling = {}
  BY ThreadFacts DEF ServiceInv, NobodyStood, Handling, Taken
<1>1. ASSUME NEW d \in Customers, d # t PROVE StageOf(d)' = StageOf(d)
  <2>1. CASE pc'[d] = pc[d]
    BY <1>0, <1>1, <2>1, StagesAndTasks DEF OthersStay
  <2>2. CASE pc[d] \in {"chef_cv", "standing_cv"} /\ pc'[d] \in {"chef_wake", "standing_wake"}
    <3>1. loc'[d] = loc[d] /\ loc[d].q \in Lined
      BY <1>0, <1>1 DEF OthersStay
    <3> QED BY <2>2, <3>1, StagesAndTasks, StageFacts
  <2> QED BY <1>0, <1>1, <2>1, <2>2 DEF OthersStay
<1>2. ASSUME NEW k \in Chefs, k # t PROVE TaskOf(k)' = TaskOf(k)
  <2>0. loc'[k] = loc[k] /\ loc[k].q \in Lined
    BY <1>0, <1>2 DEF OthersStay
  <2>1. CASE pc'[k] = pc[k]
    BY <2>0, <2>1, StagesAndTasks
  <2>2. CASE pc[k] \in {"chef_cv", "standing_cv"} /\ pc'[k] \in {"chef_wake", "standing_wake"}
    <3>1. pc[k] \notin Handling /\ pc'[k] \notin Handling
      BY <1>0, <2>2
    <3>2. TaskAt(pc[k], loc[k].q, loc[k].node) = TaskAt(pc'[k], loc[k].q, loc[k].node)
      <4>1. TaskAt(pc[k], loc[k].q, loc[k].node) = Service!Idle
        BY <2>0, <3>1, TaskFacts, Zenon
      <4>2. TaskAt(pc'[k], loc[k].q, loc[k].node) = Service!Idle
        BY <2>0, <3>1, TaskFacts, Zenon
      <4> QED BY <4>1, <4>2
    <3> QED BY <2>0, <3>2, StagesAndTasks
  <2> QED BY <1>0, <1>2, <2>1, <2>2 DEF OthersStay
<1> QED BY <1>1, <1>2

\* Every step of a customer is one of the service, or nobody sees it.
LEMMA CustomerServed ==
    ASSUME FindsSeat, ShopInv, NEW c \in Customers, Customer(c)
    PROVE  Service!Next \/ UNCHANGED Service!vars
<1> DEFINE From == StageAt(pc[c], loc[c].q, sem["bake_done"][c], sem["payment_ok"][c])
           To == StageAt(pc'[c], loc'[c].q, sem'["bake_done"][c], sem'["payment_ok"][c])
<1>0. /\ TypeInv /\ LockInv /\ CountInv /\ SafeUntilShutdown /\ ServiceInv
      /\ OthersStay(c) /\ UNCHANGED shutdown_flag /\ ~shutdown_flag /\ ~stolen
  BY ActorFacts, CustomerDisciplined DEF ShopInv, Disciplined, LockInv, Closing, SafeUntilShutdown
<1>1. /\ pc \in [Threads -> Labels] /\ loc \in [Threads -> Local] /\ c \in Threads /\ c \notin Chefs
      /\ loc[c].q \in Lined /\ "standing" \notin Lined /\ sem \in [Semaphores -> [Customers -> Nat]]
      /\ pc[c] \notin Standing /\ queue["standing"].size = 0
      /\ pc[c] \in ListLabels => pc[c] \in Pushing
  BY <1>0, ThreadFacts, BakeryAssumption
     DEF TypeInv, TypeOK, Local, ServiceInv, NobodyStood, Lined
<1>2. /\ pc[c] # "await_served" => sem["served"][c] = 0
      /\ pc[c] # "await_bake" => sem["bake_done"][c] = 0
      /\ pc[c] # "await_payment" => sem["payment_ok"][c] = 0
      /\ sem["bake_done"][c] > 0 => sem["bake_done"][c] = 1
      /\ sem["payment_ok"][c] > 0 => sem["payment_ok"][c] = 1
  BY <1>0, <1>1 DEF ServiceInv, Posted, Semaphores
<1>3. StageOf(c) = From /\ StageOf(c)' = To
  BY StagesAndTasks, Zenon
<1> HIDE DEF From, To
<1>a. ASSUME \A s \in {"bake_done", "payment_ok"} :
                \A d \in Customers \ {c} : sem'[s][d] = sem[s][d]
      PROVE  /\ \A d \in Customers \ {c} : StageOf(d)' = StageOf(d)
             /\ \A k \in Chefs : TaskOf(k)' = TaskOf(k)
  BY <1>0, <1>1, <1>a, OthersLook
<1>b. ASSUME UNCHANGED lists, From = To,
             \A s \in {"bake_done", "payment_ok"} :
                \A d \in Customers \ {c} : sem'[s][d] = sem[s][d]
      PROVE  UNCHANGED Service!vars
  <2>1. \A d \in Customers : StageOf(d)' = StageOf(d)
    BY <1>3, <1>a, <1>b
  <2>2. \A p \in Lined : Line(p)' = Line(p)
    BY <1>b, LinesStay
  <2> QED BY <1>0, <1>a, <1>b, <2>1, <2>2, Unseen
<1>c. ASSUME UNCHANGED <<lists, sem>>, From = To
      PROVE  UNCHANGED Service!vars
  BY <1>b, <1>c
<1>d. ASSUME UNCHANGED <<lists, sem>>, loc'[c].q \in Lined,
             pc[c] \in {"enters", "peek_queue", "sit_lock", "sit", "sit_store", "join_lock"},
             pc'[c] \in {"enters", "peek_queue", "sit_lock", "sit", "sit_store", "join_lock"}
      PROVE  UNCHANGED Service!vars
  <2>1. From = "inside" /\ To = "inside"
    BY <1>1, <1>d, StageFacts DEF From, To
  <2> QED BY <1>c, <1>d, <2>1
<1>e. ASSUME UNCHANGED <<lists, sem>>, loc'[c].q \in Lined,
             pc[c] \in {"leave_lock", "leave", "leave_sofa"},
             pc'[c] \in {"leave_lock", "leave", "leave_sofa", "leave_shop"}
      PROVE  UNCHANGED Service!vars
  <2>1. From = "paid" /\ To = "paid"
    BY <1>1, <1>e, StageFacts DEF From, To
  <2> QED BY <1>c, <1>e, <2>1
<1>4. CASE PeekSofa(c)
  <2>1. pc[c] = "enters"
    BY <1>4 DEF PeekSofa, GoStand, Jumps, Sets, At
  <2>2. sofa_occupied < SOFA_SEATS /\ sofa_occupied \in Int /\ SOFA_SEATS \in Int
    BY <1>0, <2>1, BakeryAssumption DEF FindsSeat, TypeInv, TypeOK
  <2>3. Jumps(c, "enters", "peek_queue")
    BY <1>4, <2>2 DEF PeekSofa
  <2> QED BY <1>1, <1>d, <2>3 DEF Jumps, At, Goto
<1>5. CASE PeekQueue(c)
  BY <1>1, <1>d, <1>5 DEF PeekQueue, Jumps, At, Goto
<1>6. CASE Stand(c) \/ StandOn(c) \/ LeaveQueue(c)
  BY <1>1, <1>6 DEF Stand, StandOn, LeaveQueue, Unlocks, Jumps, At, Standing
<1>7. CASE Sit(c)
  BY <1>1, <1>d, <1>7 DEF Sit, Sets, At, Goto, Local
<1>8. CASE SitStore(c)
  BY <1>1, <1>d, <1>8 DEF SitStore, At, Goto, Local, Lined
<1>9. CASE Leave(c)
  BY <1>1, <1>e, <1>9 DEF Leave, Sets, At, Goto, Local
<1>10. CASE LeaveSofa(c)
  BY <1>1, <1>e, <1>10 DEF LeaveSofa, At, Goto, Local
<1>11. CASE LeaveShop(c)
  <2>1. pc[c] = "leave_shop" /\ pc'[c] = "free" /\ UNCHANGED <<loc, lists, sem>>
    BY <1>1, <1>11 DEF LeaveShop, BroadcastAndGoto, At
  <2>2. From = "paid" /\ To = "left"
    BY <1>1, <2>1, StageFacts DEF From, To
  <2>3. Service!Move(c, "paid", "left")
    BY <1>3, <1>a, <2>1, <2>2, StageMoves
  <2>4. Service!Leave(c)
    BY <1>0, <1>a, <2>1, <2>3, LinesStay DEF Service!Leave, Lined
  <2> QED BY <2>4 DEF Service!Next, Service!Customers, Customers
<1>12. CASE Free(c)
  <2>1. pc[c] = "free" /\ pc'[c] = "gone" /\ UNCHANGED <<loc, lists, sem>>
    BY <1>1, <1>12 DEF Free, Jumps, At, Goto
  <2>2. From = "left" /\ To = "left"
    BY <1>1, <2>1, StageFacts DEF From, To
  <2> QED BY <1>c, <2>1, <2>2
<1>13. CASE QPop(c)
  <2>1. pc[c] \in Popping
    BY <1>13 DEF QPop, Sets, Links, At, Popping
  <2> QED BY <1>1, <2>1 DEF ListLabels, Popping, Pushing
<1>14. CASE Announce(c)
  <2>1. /\ pc[c] = "pushed" /\ UNCHANGED <<loc, lists, sem>>
        /\ pc'[c] = IF loc[c].q = "sofa" THEN "await_served" ELSE "await_payment"
    BY <1>1, <1>14 DEF Announce, BroadcastAndGoto, At
  <2>2. sem["payment_ok"][c] = 0 /\ "pushed" \in Linked
    BY <1>2, <2>1 DEF Linked
  <2>3. From = (IF loc[c].q = "sofa" THEN "seated" ELSE "paying") /\ To = From
    BY <1>1, <2>1, <2>2 DEF From, To, StageAt, Linked, Pushing, Lined
  <2> QED BY <1>c, <2>1, <2>3
<1>15. CASE RequestCake(c)
  <2>1. /\ pc[c] = "await_served" /\ sem["served"][c] > 0 /\ pc' = [pc EXCEPT ![c] = "await_bake"]
        /\ sem' = [sem EXCEPT !["served"][c] = @ - 1, !["start_bake"][c] = @ + 1]
        /\ UNCHANGED <<loc, lists>>
    BY <1>15 DEF RequestCake, Signals, At, Goto
  <2>2. sem'["bake_done"] = sem["bake_done"] /\ sem'["payment_ok"] = sem["payment_ok"]
    BY <1>1, <2>1 DEF Semaphores
  <2>3. From = "seated" /\ To = "ordered"
    <3>1. pc'[c] = "await_bake" /\ sem'["bake_done"][c] = 0
      BY <1>1, <1>2, <2>1, <2>2
    <3> QED BY <1>1, <2>1, <3>1 DEF From, To, StageAt, Linked, Pushing, Lined
  <2>4. PICK k \in Chefs : pc[k] = "await_start" /\ loc[k].node = c
    BY <1>0, <2>1 DEF ServiceInv, Posted
  <2>5. TaskOf(k) = [does |-> "bakes", for |-> c]
    <3>1. TaskOf(k) = TaskAt(pc[k], loc[k].q, loc[k].node)
      BY StagesAndTasks, Zenon
    <3> QED BY <2>4, <3>1 DEF TaskAt
  <2>6. Service!Move(c, "seated", "ordered")
    BY <1>3, <1>a, <2>2, <2>3, StageMoves
  <2>7. Service!Order(c)
    BY <1>0, <1>a, <2>1, <2>2, <2>5, <2>6, LinesStay DEF Service!Order, Lined
  <2> QED BY <2>7 DEF Service!Next, Service!Customers, Customers
<1>16. CASE Pay(c)
  <2>1. /\ pc[c] = "await_bake" /\ sem["bake_done"][c] > 0 /\ pc' = [pc EXCEPT ![c] = "pay_lock"]
        /\ sem' = [sem EXCEPT !["bake_done"][c] = @ - 1]
        /\ loc' = [loc EXCEPT ![c].q = "payment"] /\ UNCHANGED lists
    BY <1>16 DEF Pay, Wait, At, Goto
  <2>2. \A s \in {"bake_done", "payment_ok"} : \A d \in Customers \ {c} : sem'[s][d] = sem[s][d]
    BY <1>1, <2>1 DEF Semaphores
  <2>3. pc'[c] = "pay_lock" /\ loc'[c].q \in Lined /\ sem["bake_done"][c] = 1
    BY <1>1, <1>2, <2>1 DEF Local, Lined
  <2>4. From = "served" /\ To = "served"
    BY <1>1, <2>1, <2>3, StageFacts DEF From, To
  <2> QED BY <1>b, <2>1, <2>2, <2>4
<1>17. CASE Paid(c)
  <2>1. /\ pc[c] = "await_payment" /\ sem["payment_ok"][c] > 0
        /\ pc' = [pc EXCEPT ![c] = "leave_lock"]
        /\ sem' = [sem EXCEPT !["payment_ok"][c] = @ - 1] /\ UNCHANGED <<loc, lists>>
    BY <1>17 DEF Paid, Signals, Wait, At, Goto
  <2>2. \A s \in {"bake_done", "payment_ok"} : \A d \in Customers \ {c} : sem'[s][d] = sem[s][d]
    BY <1>1, <2>1 DEF Semaphores
  <2>3. pc'[c] = "leave_lock" /\ loc'[c].q \in Lined /\ sem["payment_ok"][c] = 1
    BY <1>1, <1>2, <2>1
  <2>4. From = "paid" /\ To = "paid"
    BY <1>1, <2>1, <2>3 DEF From, To, StageAt, Linked, Pushing, Lined
  <2> QED BY <1>b, <2>1, <2>2, <2>4
<1>18. CASE QPush(c)
  <2>1. PICK to \in Pushing : /\ pc' = [pc EXCEPT ![c] = to] /\ UNCHANGED sem
                              /\ pc[c] \in Pushing /\ (pc[c] \in Linked => to \in Linked)
                              /\ pc[c] \in {"link_first", "link_next"} => to \in Linked
                              /\ pc[c] \notin Linked \cup {"link_first", "link_next"} => to \notin Linked
    BY <1>18 DEF QPush, Links, Sets, At, Goto, Pushing, Linked
  <2>2. pc'[c] = to /\ loc'[c].q = loc[c].q
    BY <1>1, <1>18, <2>1 DEF QPush, Links, Sets, Local
  <2>3. \A p \in Lined : Line(p)' = IF p = loc[c].q /\ pc[c] \in {"link_first", "link_next"}
                                    THEN Append(Line(p), c) ELSE Line(p)
    BY <1>0, <1>18, QPushKeeps
  <2>4. sem["payment_ok"][c] = 0 /\ \A d \in Customers \ {c} : StageOf(d)' = StageOf(d)
    BY <1>2, <1>a, <2>1 DEF Pushing
  <2>5. /\ From = IF pc[c] \in Linked THEN IF loc[c].q = "sofa" THEN "seated" ELSE "paying"
                                      ELSE IF loc[c].q = "sofa" THEN "inside" ELSE "served"
        /\ To = IF to \in Linked THEN IF loc[c].q = "sofa" THEN "seated" ELSE "paying"
                                 ELSE IF loc[c].q = "sofa" THEN "inside" ELSE "served"
    BY <1>1, <2>1, <2>2, <2>4 DEF From, To, StageAt, Linked, Pushing, Lined
  <2>6. CASE pc[c] \notin {"link_first", "link_next"}
    <3>1. From = To
      BY <2>1, <2>5, <2>6
    <3>2. \A d \in Customers : StageOf(d)' = StageOf(d)
      BY <1>3, <2>4, <3>1
    <3>3. \A p \in Lined : Line(p)' = Line(p)
      BY <2>3, <2>6
    <3> QED BY <1>0, <1>a, <2>1, <3>2, <3>3, Unseen
  <2>7. CASE pc[c] \in {"link_first", "link_next"}
    <3>1. pc[c] \notin Linked /\ to \in Linked
      BY <2>1, <2>7 DEF Linked
    <3>2. CASE loc[c].q = "sofa"
      <4>1. Service!Move(c, "inside", "seated")
        BY <1>3, <2>4, <2>5, <3>1, <3>2, StageMoves
      <4>2. Service!JoinSofaLine(c)
        BY <1>0, <1>a, <2>1, <2>3, <2>7, <3>2, <4>1 DEF Service!JoinSofaLine, Lined
      <4> QED BY <4>2 DEF Service!Next, Service!Customers, Customers
    <3>3. CASE loc[c].q = "payment"
      <4>1. Service!Move(c, "served", "paying")
        BY <1>3, <2>4, <2>5, <3>1, <3>3, StageMoves
      <4>2. Service!JoinPayLine(c)
        BY <1>0, <1>a, <2>1, <2>3, <2>7, <3>3, <4>1 DEF Service!JoinPayLine, Lined
      <4> QED BY <4>2 DEF Service!Next, Service!Customers, Customers
    <3> QED BY <1>1, <3>2, <3>3 DEF Lined
  <2> QED BY <2>6, <2>7
<1> QED BY <1>4, <1>5, <1>6, <1>7, <1>8, <1>9, <1>10, <1>11, <1>12, <1>13, <1>14, <1>15, <1>16,
           <1>17, <1>18 DEF Customer

\* Every step of a chef is one of the service, or nobody sees it.
LEMMA ChefServed ==
    ASSUME ShopInv, NEW k \in Chefs, Chef(k)
    PROVE  Service!Next \/ UNCHANGED Service!vars
<1> DEFINE From == TaskAt(pc[k], loc[k].q, loc[k].node)
           To == TaskAt(pc'[k], loc'[k].q, loc'[k].node)
           q == loc[k].q  x == loc[k].node
<1>0. /\ TypeInv /\ LockInv /\ SafeUntilShutdown /\ ServiceInv /\ UNCHANGED shutdown_flag
      /\ \A u \in Threads \ {k} : pc'[u] = pc[u] /\ loc'[u] = loc[u]
  BY ActorFacts, ChefsLeaveMain DEF ShopInv
<1>1. /\ pc \in [Threads -> Labels] /\ loc \in [Threads -> Local] /\ k \in Threads /\ k \notin Customers
      /\ q \in Lined /\ sem \in [Semaphores -> [Customers -> Nat]]
      /\ HandledBy(k) /\ Editor(k) /\ Customers \subseteq Threads /\ Chefs \subseteq Threads
  BY <1>0, ThreadFacts, BakeryAssumption
     DEF TypeInv, TypeOK, Local, ServiceInv, NobodyStood, Handled, Editors
<1>2. TaskOf(k) = From /\ TaskOf(k)' = To
  BY StagesAndTasks, Zenon
<1>3. \A j \in Chefs \ {k} : TaskOf(j)' = TaskOf(j)
  <2> SUFFICES ASSUME NEW j \in Chefs, j # k PROVE TaskOf(j)' = TaskOf(j)
    OBVIOUS
  <2>1. pc'[j] = pc[j] /\ loc'[j] = loc[j]
    BY <1>0, <1>1
  <2> QED BY <2>1, StagesAndTasks
<1> HIDE DEF From, To
<1>a. ASSUME NEW d \in Customers, sem'["bake_done"][d] = sem["bake_done"][d],
             sem'["payment_ok"][d] = sem["payment_ok"][d]
      PROVE  StageOf(d)' = StageOf(d)
  <2>1. pc'[d] = pc[d] /\ loc'[d] = loc[d]
    BY <1>0, <1>1
  <2> QED BY <1>a, <2>1, StagesAndTasks
<1>b. ASSUME From = To, \A p \in Lined : Line(p)' = Line(p),
             \A s \in {"bake_done", "payment_ok"} : sem'[s] = sem[s]
      PROVE  UNCHANGED Service!vars
  <2>1. \A d \in Customers : StageOf(d)' = StageOf(d)
    BY <1>a, <1>b
  <2>2. \A j \in Chefs : TaskOf(j)' = TaskOf(j)
    BY <1>2, <1>3, <1>b
  <2> QED BY <1>0, <1>b, <2>1, <2>2, Unseen
<1>c. ASSUME UNCHANGED <<lists, sem>>, loc'[k].q \in Lined, pc[k] \notin Handling, pc'[k] \notin Handling
      PROVE  UNCHANGED Service!vars
  <2>1. From = Service!Idle
    BY <1>1, <1>c, TaskFacts, Zenon DEF From
  <2>2. To = Service!Idle
    BY <1>c, TaskFacts, Zenon DEF To
  <2> QED BY <1>b, <1>c, <2>1, <2>2, LinesStay
<1>d. {"top", "lock", "check", "pick", "fell", "chef_cv", "exit", "pop", "pop_head"} \cap Handling = {}
  BY DEF Handling, Taken
<1>4. CASE ChefTop(k) \/ ChefSeesWork(k)
  BY <1>1, <1>4, <1>c, <1>d DEF ChefTop, ChefSeesWork, Jumps, At, Goto
<1>5. CASE ChefWaits(k)
  BY <1>1, <1>5, <1>c, <1>d DEF ChefWaits, Unlocks, At, Goto
<1>6. ASSUME NEW from \in {"pick", "fell"}, ChefPicks(k, from)
      PROVE  UNCHANGED Service!vars
  <2>1. CASE Unlocks(k, from, "top")
    BY <1>1, <1>c, <1>d, <2>1 DEF Unlocks, At, Goto
  <2>2. CASE \E p \in {"payment", "sofa"} : Sets(k, from, "pop", [loc[k] EXCEPT !.q = p])
    <3>1. PICK p \in Lined : Sets(k, from, "pop", [loc[k] EXCEPT !.q = p])
      BY <2>2 DEF Lined
    <3>2. loc'[k].q \in Lined
      BY <1>1, <3>1 DEF Sets, Local
    <3> QED BY <1>1, <1>c, <1>d, <3>1, <3>2 DEF Sets, At, Goto
  <2> QED BY <1>6, <2>1, <2>2 DEF ChefPicks
<1>7. CASE ChefUnlocks(k)
  <2>1. /\ pc[k] = "popped" /\ pc'[k] = IF q = "payment" THEN "register" ELSE "serve"
        /\ UNCHANGED <<loc, lists, sem>>
    BY <1>1, <1>7 DEF ChefUnlocks, Unlocks, At, Goto
  <2>2. From = To
    BY <1>1, <2>1 DEF From, To, TaskAt, Lined
  <2> QED BY <1>b, <2>1, <2>2, LinesStay
<1>8. CASE ChefTakesRegister(k)
  <2>1. pc[k] = "register" /\ pc'[k] = "accept" /\ UNCHANGED <<loc, lists, sem>>
    BY <1>1, <1>8 DEF ChefTakesRegister, Registers, At, Goto
  <2>2. From = To
    BY <2>1 DEF From, To, TaskAt
  <2> QED BY <1>b, <2>1, <2>2, LinesStay
<1>9. CASE ChefServes(k)
  <2>1. /\ pc[k] = "serve" /\ pc'[k] = "await_start" /\ UNCHANGED <<loc, lists>>
        /\ \A s \in {"bake_done", "payment_ok"} : sem'[s] = sem[s]
    BY <1>1, <1>9 DEF ChefServes, Signals, At, Goto, Post, Semaphores
  <2>2. From = To
    BY <2>1 DEF From, To, TaskAt
  <2> QED BY <1>b, <2>1, <2>2, LinesStay
<1>10. CASE ChefStartsBaking(k)
  <2>1. /\ pc[k] = "await_start" /\ pc'[k] = "bake" /\ UNCHANGED <<loc, lists>>
        /\ \A s \in {"bake_done", "payment_ok"} : sem'[s] = sem[s]
    BY <1>1, <1>10 DEF ChefStartsBaking, Signals, At, Goto, Wait, Semaphores
  <2>2. From = To
    BY <2>1 DEF From, To, TaskAt
  <2> QED BY <1>b, <2>1, <2>2, LinesStay
<1>h. pc[k] \in Handling => x \in Customers /\ sem["bake_done"][x] = 0 /\ sem["payment_ok"][x] = 0
  <2>1. pc[k] \in Handling => x \in Customers /\ Handles(k, x)
    BY <1>1 DEF HandledBy, Handles
  <2> QED BY <1>0, <1>1, <2>1 DEF ServiceInv, Posted, Semaphores
<1>11. CASE ChefBakes(k)
  <2>1. /\ pc[k] = "bake" /\ pc'[k] = "top" /\ UNCHANGED <<loc, lists>>
        /\ sem' = [sem EXCEPT !["bake_done"][x] = @ + 1]
    BY <1>1, <1>11 DEF ChefBakes, Signals, At, Goto, Post
  <2>2. x \in Customers /\ sem["bake_done"][x] = 0 /\ pc[x] = "await_bake"
    BY <1>1, <1>h, <2>1 DEF HandledBy, Handling
  <2>3. /\ sem'["bake_done"][x] = 1 /\ sem'["payment_ok"] = sem["payment_ok"]
        /\ \A d \in Customers \ {x} : sem'["bake_done"][d] = sem["bake_done"][d]
    BY <1>1, <2>1, <2>2 DEF Semaphores
  <2>4. From = [does |-> "bakes", for |-> x] /\ To = Service!Idle
    BY <2>1 DEF From, To, TaskAt, Service!Idle
  <2>p. PICK c \in Customers : c = x /\ pc'[c] = "await_bake" /\ pc[c] = "await_bake"
    BY <1>0, <1>1, <2>2
  <2>5. StageOf(c) = "ordered" /\ StageOf(c)' = "served"
    <3>1. /\ StageOf(c) = StageAt(pc[c], loc[c].q, sem["bake_done"][c], sem["payment_ok"][c])
          /\ StageOf(c)' = StageAt(pc'[c], loc'[c].q, sem'["bake_done"][c], sem'["payment_ok"][c])
      BY StagesAndTasks, Zenon
    <3>2. sem["bake_done"][c] = 0 /\ sem'["bake_done"][c] = 1
      BY <2>2, <2>3, <2>p
    <3> QED BY <2>p, <3>1, <3>2 DEF StageAt, Linked, Pushing
  <2>6. Service!Move(c, "ordered", "served")
    <3>1. \A d \in Customers \ {c} : StageOf(d)' = StageOf(d)
      BY <1>a, <2>3, <2>p
    <3> QED BY <2>5, <3>1, StageMoves
  <2>7. [j \in Chefs |-> TaskOf(j)]' = [[j \in Chefs |-> TaskOf(j)] EXCEPT ![k] = Service!Idle]
    BY <1>2, <1>3, <2>4, TaskMoves
  <2>8. From # Service!Idle /\ From.does = "bakes" /\ From.for = c
    BY <2>4, <2>p DEF Service!Idle
  <2>9. Service!Bake(k)
    BY <1>0, <1>2, <2>1, <2>6, <2>7, <2>8, LinesStay DEF Service!Bake, Lined
  <2> QED BY <2>9 DEF Service!Next
<1>12. CASE ChefAccepts(k)
  <2>1. /\ pc[k] = "accept" /\ pc'[k] = "top" /\ UNCHANGED <<loc, lists>>
        /\ sem' = [sem EXCEPT !["payment_ok"][x] = @ + 1]
    BY <1>1, <1>12 DEF ChefAccepts, Registers, At, Goto, Post
  <2>2. x \in Customers /\ sem["payment_ok"][x] = 0 /\ pc[x] = "await_payment"
    BY <1>1, <1>h, <2>1 DEF HandledBy, Handling
  <2>3. /\ sem'["payment_ok"][x] = 1 /\ sem'["bake_done"] = sem["bake_done"]
        /\ \A d \in Customers \ {x} : sem'["payment_ok"][d] = sem["payment_ok"][d]
    BY <1>1, <2>1, <2>2 DEF Semaphores
  <2>4. From = [does |-> "register", for |-> x] /\ To = Service!Idle
    BY <2>1 DEF From, To, TaskAt, Service!Idle
  <2>p. PICK c \in Customers : c = x /\ pc'[c] = "await_payment" /\ pc[c] = "await_payment"
    BY <1>0, <1>1, <2>2
  <2>5. StageOf(c) = "paying" /\ StageOf(c)' = "paid"
    <3>1. /\ StageOf(c) = StageAt(pc[c], loc[c].q, sem["bake_done"][c], sem["payment_ok"][c])
          /\ StageOf(c)' = StageAt(pc'[c], loc'[c].q, sem'["bake_done"][c], sem'["payment_ok"][c])
      BY StagesAndTasks, Zenon
    <3>2. sem["payment_ok"][c] = 0 /\ sem'["payment_ok"][c] = 1
      BY <2>2, <2>3, <2>p
    <3> QED BY <2>p, <3>1, <3>2 DEF StageAt, Linked, Pushing
  <2>6. Service!Move(c, "paying", "paid")
    <3>1. \A d \in Customers \ {c} : StageOf(d)' = StageOf(d)
      BY <1>a, <2>3, <2>p
    <3> QED BY <2>5, <3>1, StageMoves
  <2>7. [j \in Chefs |-> TaskOf(j)]' = [[j \in Chefs |-> TaskOf(j)] EXCEPT ![k] = Service!Idle]
    BY <1>2, <1>3, <2>4, TaskMoves
  <2>8. From # Service!Idle /\ From.does = "register" /\ From.for = c
    BY <2>4, <2>p DEF Service!Idle
  <2>9. Service!Accept(k)
    BY <1>0, <1>2, <2>1, <2>6, <2>7, <2>8, LinesStay DEF Service!Accept, Lined
  <2> QED BY <2>9 DEF Service!Next
<1>13. CASE QPop(k)
  <2>1. pc[k] \in Popping /\ UNCHANGED sem
    BY <1>13 DEF QPop, Links, Sets, At, Popping
  <2>2. \A p \in Lined : Line(p)' = IF p = q /\ pc[k] = "pop_head" THEN Tail(Line(p)) ELSE Line(p)
    BY <1>0, <1>13, QPopKeeps
  <2>3. CASE pc[k] = "pop"
    <3>1. Line(q) # <<>> /\ Chained(Line(q), queue[q].head, next)
      BY <1>0, <1>1, <2>3 DEF Editor, ServiceInv, LinesKept
    <3>2. queue[q].head # None
      <4>1. queue[q].head \in Customers
        BY <3>1, ChainShrinks
      <4> QED BY <1>1, <4>1, ThreadFacts
    <3>3. /\ pc' = [pc EXCEPT ![k] = "pop_head"] /\ UNCHANGED <<lists, sem>>
          /\ loc' = [loc EXCEPT ![k] = [loc[k] EXCEPT !.node = queue[q].head]]
      BY <1>13, <2>3, <3>2 DEF QPop, Sets, Links, At, Goto
    <3>4. loc'[k].q \in Lined
      BY <1>1, <3>3 DEF Local
    <3> QED BY <1>1, <1>c, <1>d, <2>3, <3>3, <3>4
  <2>4. CASE pc[k] \in {"pop_tail", "pop_size"}
    <3>1. /\ pc'[k] \in {"pop_size", "popped"} /\ loc'[k].q = q /\ loc'[k].node = x
      BY <1>1, <1>13, <2>4 DEF QPop, Sets, Links, At, Goto, AfterPop, Local
    <3>2. From = To
      BY <2>4, <3>1 DEF From, To, TaskAt
    <3>3. \A p \in Lined : Line(p)' = Line(p)
      BY <2>2, <2>4
    <3> QED BY <1>b, <2>1, <3>2, <3>3
  <2>5. CASE pc[k] = "pop_head"
    <3>1. pc'[k] = "pop_tail" /\ loc'[k].q = q /\ loc'[k].node = x
      BY <1>1, <1>13, <2>5 DEF QPop, Sets, Links, At, Goto, Local
    <3>2. /\ Line(q) # <<>> /\ Chained(Line(q), queue[q].head, next) /\ x = queue[q].head
          /\ q = "sofa" => Line("payment") = <<>>
      BY <1>0, <1>1, <2>5 DEF Editor, ServiceInv, LinesKept
    <3>3. Head(Line(q)) = x
      <4>1. Line(q)[1] = x
        BY <3>2, ChainShrinks
      <4> QED BY <3>2, <4>1 DEF Chained
    <3>4. From = Service!Idle /\ To = [does |-> IF q = "sofa" THEN "bakes" ELSE "register", for |-> x]
      BY <1>1, <2>5, <3>1 DEF From, To, TaskAt, Lined, Service!Idle
    <3>5. [j \in Chefs |-> TaskOf(j)]' = [[j \in Chefs |-> TaskOf(j)] EXCEPT ![k] = To]
      BY <1>2, <1>3, TaskMoves
    <3>6. \A d \in Customers : StageOf(d)' = StageOf(d)
      BY <1>a, <2>1
    <3>7. CASE q = "sofa"
      <4>1. Service!Serve(k)
        BY <1>0, <1>2, <2>2, <2>5, <3>2, <3>3, <3>4, <3>5, <3>6, <3>7 DEF Service!Serve, Lined
      <4> QED BY <4>1 DEF Service!Next
    <3>8. CASE q = "payment"
      <4>1. Service!TakePayment(k)
        BY <1>0, <1>2, <2>2, <2>5, <3>2, <3>3, <3>4, <3>5, <3>6, <3>8 DEF Service!TakePayment, Lined
      <4> QED BY <4>1 DEF Service!Next
    <3> QED BY <1>1, <3>7, <3>8 DEF Lined
  <2> QED BY <2>1, <2>3, <2>4, <2>5 DEF Popping
<1> QED BY <1>4, <1>5, <1>6, <1>7, <1>8, <1>9, <1>10, <1>11, <1>12, <1>13 DEF Chef

\* Once in the shop, a customer does not arrive again.
LEMMA NeverAwayAgain ==
    ASSUME TypeInv, NEW c \in Customers, Customer(c)
    PROVE  pc'[c] # "away"
<1>0. pc \in [Threads -> Labels] /\ c \in Threads
  BY ThreadFacts DEF TypeInv, TypeOK
<1> USE DEF Jumps, Sets, Signals, Unlocks, Links, At, Goto
<1>1. CASE QPush(c) \/ QPop(c)
  BY <1>0, <1>1 DEF QPush, QPop, AfterPop
<1>2. CASE PeekSofa(c) \/ PeekQueue(c) \/ Stand(c) \/ StandOn(c) \/ LeaveQueue(c)
  BY <1>0, <1>2 DEF PeekSofa, PeekQueue, GoStand, Stand, StandOn, LeaveQueue
<1>3. CASE Sit(c) \/ SitStore(c) \/ Announce(c) \/ RequestCake(c)
  BY <1>0, <1>3 DEF Sit, SitStore, Announce, RequestCake, BroadcastAndGoto
<1>4. CASE Pay(c) \/ Paid(c) \/ Leave(c) \/ LeaveSofa(c) \/ LeaveShop(c) \/ Free(c)
  BY <1>0, <1>4 DEF Pay, Paid, Leave, LeaveSofa, LeaveShop, Free, BroadcastAndGoto
<1> QED BY <1>1, <1>2, <1>3, <1>4 DEF Customer

\* Main has taken the arrivals before the one in hand.
Passed == \A c \in Customers :
              c < cur \/ (c = cur /\ pc[Main] = "created") => pc[c] # "away"

LEMMA PassedNext ==
    ASSUME TypeInv, Passed, [Next]_vars
    PROVE  Passed'
<1>0. /\ pc \in [Threads -> Labels] /\ Main \in Threads /\ cur \in Int
      /\ \A c \in Customers : c \in Threads /\ c # Main /\ c \notin Chefs /\ c \in Int
  <2>1. \A c \in Customers : c \in Int
    BY BakeryAssumption DEF Customers
  <2> QED BY <2>1, ThreadFacts, BakeryAssumption DEF TypeInv, TypeOK
<1>a. ASSUME UNCHANGED cur, pc'[Main] = "created" => pc[Main] = "created",
             \A c \in Customers : pc'[c] = "away" => pc[c] = "away"
      PROVE  Passed'
  BY <1>0, <1>a DEF Passed
<1>1. ASSUME NEW t \in Threads, Lock(t)
      PROVE  Passed'
  <2>1. /\ UNCHANGED cur /\ pc[t] \in DOMAIN AfterLock /\ pc' = [pc EXCEPT ![t] = AfterLock[pc[t]]]
    BY <1>1 DEF Lock, Goto, control
  <2>2. AfterLock[pc[t]] \notin {"created", "away"}
    BY <2>1, AfterLockLabels
  <2> QED BY <1>0, <1>a, <2>1, <2>2
<1>2. ASSUME NEW k \in Chefs, Chef(k)
      PROVE  Passed'
  <2>1. k \in Threads /\ k # Main
    BY ThreadFacts
  <2>2. UNCHANGED cur /\ \A u \in Threads \ {k} : pc'[u] = pc[u]
    BY <1>2, ChefsLeaveMain DEF control
  <2> QED BY <1>0, <1>a, <2>1, <2>2
<1>3. ASSUME NEW c \in Customers, Customer(c)
      PROVE  Passed'
  <2>1. UNCHANGED cur /\ (pc'[Main] = pc[Main] \/ pc'[Main] \in {"chef_wake", "standing_wake"})
    BY <1>0, <1>3, OthersLeaveMain
  <2>2. pc'[c] # "away"
    BY <1>0, <1>3, NeverAwayAgain
  <2>3. OthersStay(c)
    BY <1>3, CustomerDisciplined DEF Disciplined
  <2>4. \A d \in Customers : pc'[d] = "away" => pc[d] = "away"
    BY <1>0, <2>2, <2>3 DEF OthersStay
  <2> QED BY <1>a, <2>1, <2>4
<1>4. CASE MainStep
  <2>1. CASE Refuse
    BY <1>0, <2>1 DEF Refuse, NextArrival, AfterArrival, Passed
  <2>2. CASE Created
    BY <1>0, <2>2 DEF Created, At, Goto, NextArrival, AfterArrival, Passed
  <2>3. CASE Create
    BY <1>0, <2>3 DEF Create, At, control, Passed
  <2>4. CASE Admit \/ Count \/ JoinCustomers
    BY <1>0, <1>a, <2>4 DEF Admit, Sets, Count, JoinCustomers, Jumps, At, Goto, control
  <2>5. CASE Shutdown
    BY <1>0, <1>a, <2>5 DEF Shutdown, ShutsDown, BroadcastAndGoto, Woken
  <2>6. CASE JoinChefs
    BY <1>a, <2>6 DEF JoinChefs, Ends
  <2> QED BY <1>4, <2>1, <2>2, <2>3, <2>4, <2>5, <2>6 DEF MainStep
<1>5. ASSUME NEW t \in Threads, PlatformStep(t)
      PROVE  Passed'
  <2>1. UNCHANGED cur /\ (pc'[Main] = pc[Main] \/ pc'[Main] \in {"chef_wake", "standing_wake"})
    BY <1>5, OthersLeaveMain
  <2> QED BY <1>0, <1>5, <1>a, <2>1, PlatformFacts
<1>6. CASE UNCHANGED vars
  BY <1>6, <1>a DEF vars, control
<1> QED BY <1>0, <1>1, <1>2, <1>3, <1>4, <1>5, <1>6 DEF Next, Step, Halted, PlatformStep

\* Who is outside, and who has gone.
LEMMA StageSays ==
    ASSUME ServiceInv, NEW c \in Customers
    PROVE  /\ StageOf(c) = "outside" <=> pc[c] = "away"
           /\ StageOf(c) = "refused" <=> pc[c] = "refused"
           /\ StageOf(c) = "left" <=> pc[c] \in {"free", "gone"}
<1>1. StageOf(c) = StageAt(pc[c], loc[c].q, sem["bake_done"][c], sem["payment_ok"][c])
  BY StagesAndTasks, Zenon
<1> QED BY <1>1 DEF StageAt, Linked, Pushing

\* The service counts as FiniteSets does.
LEMMA SameCount == \A S : Service!Cardinality(S) = Cardinality(S)
BY DEF Cardinality, Service!Cardinality

\* The customers whom the service counts.
LEMMA InsideSame ==
    ASSUME ServiceInv
    PROVE  Service!Inside = {c \in Customers : pc[c] \notin Out}
<1>1. \A c \in Customers : StageOf(c) \in {"outside", "refused", "left"} <=> pc[c] \in Out
  BY StageSays DEF Out
<1> QED BY <1>1 DEF Service!Inside, Service!Customers, Customers

\* Main lets in, and refuses, the first who is outside.
LEMMA IsFirst ==
    ASSUME TypeInv, ServiceInv, Passed, cur \in Customers
    PROVE  Service!IsNext(cur)
<1>1. \A d \in 1 .. cur - 1 : d \in Customers /\ d < cur
  BY BakeryAssumption DEF Customers
<1>2. \A d \in 1 .. cur - 1 : pc[d] # "away"
  BY <1>1 DEF Passed
<1> QED BY <1>1, <1>2, StageSays DEF Service!IsNext

\* Every step of main is one of the service, or nobody sees it.
LEMMA MainServed ==
    ASSUME ShopInv, Passed, MainStep
    PROVE  Service!Next \/ UNCHANGED Service!vars
<1>0. /\ TypeInv /\ LockInv /\ AwayUntilTurn /\ CountInv /\ SafeUntilShutdown /\ ServiceInv
      /\ pc \in [Threads -> Labels] /\ loc \in [Threads -> Local] /\ Main \in Threads
      /\ \A c \in Customers : c \in Threads /\ c # Main
      /\ \A k \in Chefs : k \in Threads /\ k # Main
      /\ \A u \in Threads : loc[u].q \in Lined
  BY ThreadFacts DEF ShopInv, TypeInv, TypeOK, Local, ServiceInv, NobodyStood
<1>a. ASSUME OthersStay(Main), UNCHANGED sem
      PROVE  /\ \A c \in Customers : StageOf(c)' = StageOf(c)
             /\ \A k \in Chefs : TaskOf(k)' = TaskOf(k)
  <2>1. \A s \in {"bake_done", "payment_ok"} : \A d \in Customers \ {Main} : sem'[s][d] = sem[s][d]
    BY <1>a
  <2> QED BY <1>0, <1>a, <2>1, OthersLook
<1>b. ASSUME OthersStay(Main), UNCHANGED <<sem, lists, shutdown_flag>>
      PROVE  UNCHANGED Service!vars
  BY <1>a, <1>b, LinesStay, Unseen
<1>c. ASSUME pc[Main] \in {"admit", "create"}
      PROVE  cur \in Customers /\ pc[cur] = "away" /\ Service!IsNext(cur) /\ CapacityKept /\ ~stolen
  <2>1. cur \in Customers /\ pc[cur] = "away"
    BY <1>0, <1>c, BakeryAssumption DEF Customers, TypeInv, TypeOK, ArrivalPending, AwayUntilTurn
  <2>2. ~stolen
    BY <1>0, <1>c DEF LockInv, Closing, SafeUntilShutdown
  <2> QED BY <1>0, <2>1, <2>2, IsFirst DEF CountInv
<1>d. ASSUME NEW from, NEW to, cur \in Customers, pc[cur] = "away",
             pc' = [pc EXCEPT ![Main] = from, ![cur] = to], to \in {"refused", "enters"},
             UNCHANGED <<loc, sem>>
      PROVE  /\ Service!Move(cur, "outside", IF to = "refused" THEN "refused" ELSE "inside")
             /\ \A k \in Chefs : TaskOf(k)' = TaskOf(k)
  <2>1. \A c \in Customers : pc'[c] = IF c = cur THEN to ELSE pc[c]
    BY <1>0, <1>d
  <2>2. \A k \in Chefs : pc'[k] = pc[k]
    BY <1>0, <1>d, BakeryAssumption
  <2>3. \A d \in Customers \ {cur} : StageOf(d)' = StageOf(d)
    <3> SUFFICES ASSUME NEW d \in Customers, d # cur PROVE StageOf(d)' = StageOf(d)
      OBVIOUS
    <3>1. pc'[d] = pc[d] /\ loc' = loc /\ sem' = sem
      BY <1>d, <2>1
    <3> QED BY <3>1, StagesAndTasks
  <2>4. \A k \in Chefs : TaskOf(k)' = TaskOf(k)
    <3> SUFFICES ASSUME NEW k \in Chefs PROVE TaskOf(k)' = TaskOf(k)
      OBVIOUS
    <3>1. pc'[k] = pc[k] /\ loc' = loc
      BY <1>d, <2>2
    <3> QED BY <3>1, StagesAndTasks
  <2>5. PICK c \in Customers : c = cur
    BY <1>d
  <2>6. StageOf(c) = "outside" /\ StageOf(c)' = IF to = "refused" THEN "refused" ELSE "inside"
    <3>1. /\ StageOf(c) = StageAt(pc[c], loc[c].q, sem["bake_done"][c], sem["payment_ok"][c])
          /\ StageOf(c)' = StageAt(pc'[c], loc'[c].q, sem'["bake_done"][c], sem'["payment_ok"][c])
      BY StagesAndTasks, Zenon
    <3>2. pc[c] = "away" /\ pc'[c] = to /\ loc'[c].q \in Lined
      BY <1>0, <1>d, <2>1, <2>5
    <3> QED BY <1>d, <3>1, <3>2 DEF StageAt, Linked, Pushing, Lined
  <2> QED BY <2>3, <2>4, <2>5, <2>6, StageMoves
<1>e. /\ Service!Inside = {c \in Customers : pc[c] \notin Out}
      /\ Inside = {c \in Customers : pc[c] \notin Out \/ (pc[Main] = "create" /\ c = cur)}
      /\ IsFiniteSet(Inside) /\ current_customers \in Int /\ MAX_CAPACITY \in Nat
  BY <1>0, InsideSame, CountedSets, BakeryAssumption DEF TypeInv, TypeOK
<1>1. CASE Refuse
  <2>1. /\ pc[Main] = "admit" /\ current_customers >= MAX_CAPACITY
        /\ pc' = [pc EXCEPT ![Main] = AfterArrival, ![cur] = "refused"]
        /\ UNCHANGED <<loc, sem, lists, shutdown_flag>>
    BY <1>1 DEF Refuse, At, NextArrival
  <2>2. Service!Inside = Inside
    BY <1>e, <2>1
  <2>3. Cardinality(Service!Inside) = MAX_CAPACITY
    <3>1. Cardinality(Inside) \in Nat
      BY <1>e, FS_CardinalityType
    <3> QED BY <1>c, <1>e, <2>1, <2>2, <3>1 DEF CapacityKept
  <2>4. Service!Move(cur, "outside", "refused") /\ \A k \in Chefs : TaskOf(k)' = TaskOf(k)
    BY <1>c, <1>d, <2>1
  <2>5. Service!Refuse(cur)
    BY <1>c, <2>1, <2>3, <2>4, LinesStay, SameCount DEF Service!Refuse, Lined
  <2> QED BY <1>c, <2>1, <2>5 DEF Service!Next, Service!Customers, Customers
<1>2. CASE Create
  <2>1. /\ pc[Main] = "create" /\ pc' = [pc EXCEPT ![Main] = "created", ![cur] = "enters"]
        /\ UNCHANGED <<loc, sem, lists, shutdown_flag>>
    BY <1>2 DEF Create, At, control
  <2>2. Service!Inside = Inside \ {cur} /\ cur \in Inside
    BY <1>c, <1>e, <2>1 DEF Out
  <2>3. Cardinality(Service!Inside) < MAX_CAPACITY
    <3>1. Cardinality(Inside) \in Nat
      BY <1>e, FS_CardinalityType
    <3>2. Cardinality(Inside \ {cur}) = Cardinality(Inside) - 1
      BY <1>e, <2>2, FS_RemoveElement
    <3>3. Cardinality(Inside) <= MAX_CAPACITY
      BY <1>c, <2>1 DEF CapacityKept
    <3>4. Cardinality(Service!Inside) = Cardinality(Inside) - 1
      BY <2>2, <3>2
    <3> QED BY <1>e, <3>1, <3>3, <3>4
  <2>4. Service!Move(cur, "outside", "inside") /\ \A k \in Chefs : TaskOf(k)' = TaskOf(k)
    <3>1. cur \in Customers /\ pc[cur] = "away"
      BY <1>c, <2>1
    <3>2. "enters" # "refused" /\ "enters" \in {"refused", "enters"}
      OBVIOUS
    <3>3. /\ Service!Move(cur, "outside", IF "enters" = "refused" THEN "refused" ELSE "inside")
          /\ \A k \in Chefs : TaskOf(k)' = TaskOf(k)
      BY <1>d, <2>1, <3>1, <3>2
    <3> QED BY <3>2, <3>3
  <2>5. Service!Enter(cur)
    BY <1>c, <2>1, <2>3, <2>4, LinesStay, SameCount DEF Service!Enter, Lined
  <2> QED BY <1>c, <2>1, <2>5 DEF Service!Next, Service!Customers, Customers
<1>3. CASE Admit
  BY <1>0, <1>3, <1>b DEF Admit, Sets, At, Goto, OthersStay, control
<1>4. CASE Count
  BY <1>0, <1>4, <1>b DEF Count, At, Goto, OthersStay, control
<1>5. CASE Created
  BY <1>0, <1>5, <1>b DEF Created, NextArrival, At, Goto, OthersStay
<1>6. CASE JoinCustomers
  BY <1>0, <1>6, <1>b DEF JoinCustomers, Jumps, At, Goto, OthersStay, control
<1>7. CASE Shutdown
  <2>1. /\ pc[Main] = "shutdown" /\ UNCHANGED <<loc, lists, sem>> /\ shutdown_flag' = TRUE
        /\ \A u \in Threads \ {Main} : pc'[u] = Woken(pc[u], {"chef_cv"})
    BY <1>0, <1>7 DEF Shutdown, ShutsDown, BroadcastAndGoto, At
  <2>2. OthersStay(Main)
    BY <2>1 DEF OthersStay, Woken
  <2>3. ~shutdown_flag /\ \A c \in Customers : pc[c] \in {"gone", "refused"}
    BY <1>0, <2>1 DEF LockInv, Closing
  <2>4. \A c \in Customers : StageOf(c) \in {"refused", "left"}
    BY <1>0, <2>3, StageSays
  <2>5. Service!Close
    BY <1>a, <2>1, <2>2, <2>3, <2>4, LinesStay DEF Service!Close, Service!Customers, Customers, Lined
  <2> QED BY <2>5 DEF Service!Next
<1>8. CASE JoinChefs
  BY <1>0, <1>8, <1>b DEF JoinChefs, Ends, OthersStay
<1> QED BY <1>1, <1>2, <1>3, <1>4, <1>5, <1>6, <1>7, <1>8 DEF MainStep

\* To acquire `lock' is seen by nobody.
LEMMA LockUnseen ==
    ASSUME ShopInv, NEW t \in Threads, Lock(t)
    PROVE  UNCHANGED Service!vars
<1>0. /\ TypeInv /\ ServiceInv /\ pc \in [Threads -> Labels] /\ Customers \subseteq Threads
      /\ loc[t].q \in Lined /\ pc[t] \notin Standing /\ OnTheirWay
  BY ThreadFacts DEF ShopInv, CountInv, TypeInv, TypeOK, ServiceInv, NobodyStood
<1>1. /\ pc[t] \in DOMAIN AfterLock /\ pc' = [pc EXCEPT ![t] = AfterLock[pc[t]]]
      /\ UNCHANGED <<loc, sem, lists, shutdown_flag>>
  BY DEF Lock, Goto, control
<1>2. OthersStay(t)
  BY <1>0, <1>1 DEF OthersStay
<1>3. /\ \A d \in Customers \ {t} : StageOf(d)' = StageOf(d)
      /\ \A k \in Chefs \ {t} : TaskOf(k)' = TaskOf(k)
  <2>1. \A s \in {"bake_done", "payment_ok"} : \A d \in Customers \ {t} : sem'[s][d] = sem[s][d]
    BY <1>1
  <2> QED BY <1>0, <1>2, <2>1, OthersLook
<1>4. ASSUME t \in Chefs PROVE TaskOf(t)' = TaskOf(t)
  <2>1. pc[t] \notin Handling /\ pc'[t] \notin Handling
    BY <1>0, <1>1, AfterLockLabels DEF AfterLock, Handling, Taken
  <2>2. TaskAt(pc[t], loc[t].q, loc[t].node) = Service!Idle
    BY <1>0, <2>1, TaskFacts, Zenon
  <2>3. TaskAt(pc'[t], loc[t].q, loc[t].node) = Service!Idle
    BY <1>0, <2>1, TaskFacts, Zenon
  <2>4. loc' = loc
    BY <1>1
  <2>5. /\ TaskOf(t) = TaskAt(pc[t], loc[t].q, loc[t].node)
        /\ TaskOf(t)' = TaskAt(pc'[t], loc'[t].q, loc'[t].node)
    BY StagesAndTasks, Zenon
  <2> QED BY <2>2, <2>3, <2>4, <2>5
<1>5. ASSUME t \in Customers PROVE StageOf(t)' = StageOf(t)
  <2>1. /\ pc[t] = "join_lock" => loc[t].q = "sofa"
        /\ pc[t] = "pay_lock" => loc[t].q = "payment"
    BY <1>0, <1>5 DEF OnTheirWay
  <2>2. pc[t] # "standing_wake" /\ pc'[t] = AfterLock[pc[t]]
    BY <1>0, <1>1 DEF Standing
  <2>3. loc' = loc /\ sem' = sem
    BY <1>1
  <2>4. /\ StageOf(t) = StageAt(pc[t], loc[t].q, sem["bake_done"][t], sem["payment_ok"][t])
        /\ StageOf(t)' = StageAt(pc'[t], loc'[t].q, sem'["bake_done"][t], sem'["payment_ok"][t])
    BY StagesAndTasks, Zenon
  <2>5. \/ pc[t] \in {"lock", "chef_wake"} /\ pc'[t] = "check"
        \/ pc[t] = "sit_lock" /\ pc'[t] = "sit"
        \/ pc[t] \in {"join_lock", "pay_lock"} /\ pc'[t] = "push"
        \/ pc[t] = "leave_lock" /\ pc'[t] = "leave"
        \/ pc[t] = "arrive" /\ pc'[t] = "admit"
        \/ pc[t] = "close" /\ pc'[t] = "shutdown"
    BY <1>1, <2>2 DEF AfterLock
  <2> QED BY <2>1, <2>3, <2>4, <2>5 DEF StageAt, Linked, Pushing
<1>6. /\ \A d \in Customers : StageOf(d)' = StageOf(d)
      /\ \A k \in Chefs : TaskOf(k)' = TaskOf(k)
  BY <1>3, <1>4, <1>5
<1> QED BY <1>1, <1>6, LinesStay, Unseen

\* What the platform does, too.
LEMMA PlatformUnseen ==
    ASSUME ShopInv, NEW t \in Threads, PlatformStep(t)
    PROVE  UNCHANGED Service!vars
<1>0. TypeInv /\ ServiceInv /\ Customers \subseteq Threads /\ Chefs \subseteq Threads
  BY ThreadFacts DEF ShopInv
<1>1. UNCHANGED <<lists, sem, loc, shutdown_flag>>
  BY DEF PlatformStep, SpuriousWakeup, BadPointer, OwnerAssertion, CreateFails, Ends
<1>2. \A u \in Threads : OthersStay(u)
  BY <1>0, <1>1, PlatformFacts DEF OthersStay
<1>3. \A s \in {"bake_done", "payment_ok"} : sem'[s] = sem[s]
  BY <1>1
<1>4. Main \in Threads /\ Main \notin Customers \cup Chefs
  BY ThreadFacts
<1>5. /\ \A d \in Customers : StageOf(d)' = StageOf(d)
      /\ \A k \in Chefs : TaskOf(k)' = TaskOf(k)
  <2>1. /\ \A d \in Customers \ {Main} : StageOf(d)' = StageOf(d)
        /\ \A k \in Chefs \ {Main} : TaskOf(k)' = TaskOf(k)
    BY <1>0, <1>2, <1>3, <1>4, OthersLook
  <2> QED BY <1>4, <2>1
<1> QED BY <1>1, <1>5, LinesStay, Unseen

\* In the beginning everybody is outside and the lines are empty.
LEMMA InitServed == Init => Service!Init
<1> SUFFICES ASSUME Init PROVE Service!Init
  OBVIOUS
<1>0. /\ \A c \in Customers : pc[c] = "away"
      /\ \A k \in Chefs : pc[k] = "top" /\ loc[k].q \in Lined
      /\ ~shutdown_flag /\ \A q \in Lined : queue[q].head = None
  BY ThreadFacts, BakeryAssumption DEF Init, Lined, Queues
<1>1. \A c \in Customers : StageOf(c) = "outside"
  BY <1>0, InitService, StageSays
<1>2. \A k \in Chefs : TaskOf(k) = Service!Idle
  <2> SUFFICES ASSUME NEW k \in Chefs PROVE TaskOf(k) = Service!Idle
    OBVIOUS
  <2>1. pc[k] \notin Handling /\ loc[k].q \in Lined
    BY <1>0 DEF Handling, Taken
  <2>2. TaskAt(pc[k], loc[k].q, loc[k].node) = Service!Idle
    BY <2>1, TaskFacts, Zenon
  <2>3. TaskOf(k) = TaskAt(pc[k], loc[k].q, loc[k].node)
    BY StagesAndTasks, Zenon
  <2> QED BY <2>2, <2>3
<1>3. ASSUME NEW q \in Lined PROVE Line(q) = <<>>
  <2>1. Chained(<<>>, queue[q].head, next)
    BY <1>0, <1>3 DEF Chained, Distinct, IsChain
  <2> QED BY <2>1, ChainIs DEF Line
<1> QED BY <1>0, <1>1, <1>2, <1>3 DEF Service!Init, Service!Customers, Customers, Lined

\* Every step of anyone is one of the service, or nobody sees it.
LEMMA Served ==
    ASSUME FindsSeat, ShopInv, Passed, [Next]_vars
    PROVE  Service!Next \/ UNCHANGED Service!vars
<1>1. ASSUME NEW t \in Threads, Lock(t) PROVE UNCHANGED Service!vars
  BY <1>1, LockUnseen
<1>2. ASSUME NEW c \in Customers, Customer(c) PROVE Service!Next \/ UNCHANGED Service!vars
  BY <1>2, CustomerServed
<1>3. ASSUME NEW k \in Chefs, Chef(k) PROVE Service!Next \/ UNCHANGED Service!vars
  BY <1>3, ChefServed
<1>4. CASE MainStep
  BY <1>4, MainServed
<1>5. ASSUME NEW t \in Threads, PlatformStep(t) PROVE UNCHANGED Service!vars
  BY <1>5, PlatformUnseen
<1>6. CASE UNCHANGED vars
  <2>1. UNCHANGED <<pc, loc, sem, lists, shutdown_flag>>
    BY <1>6 DEF vars, control
  <2>2. \A c \in Customers : StageOf(c)' = StageOf(c)
    BY <2>1, StagesAndTasks
  <2>3. \A k \in Chefs : TaskOf(k)' = TaskOf(k)
    BY <2>1, StagesAndTasks
  <2> QED BY <2>1, <2>2, <2>3, LinesStay, Unseen
<1> QED BY <1>1, <1>2, <1>3, <1>4, <1>5, <1>6, ThreadFacts DEF Next, Step, Halted, PlatformStep

LEMMA InitPassed == Init => Passed
BY BakeryAssumption, ThreadFacts DEF Init, Passed, Customers

\* As long as each customer who looks finds a seat free, the threads implement
\* the service: those on the sofa are served first come, first served, through
\* the linked lists, payments go first, and each customer is let in, served,
\* paid for and let out once and in this order, whatever the number of
\* customers, chefs and seats.
THEOREM ServiceWhileSeats == Spec /\ []FindsSeat => ImplementsService
<1> DEFINE Inv == ShopInv /\ Passed
<1>1. Init => Inv
  BY InitShop, InitPassed
<1>2. FindsSeat /\ Inv /\ [Next]_vars => Inv'
  BY ShopNext, PassedNext DEF ShopInv
<1>3. FindsSeat /\ Inv /\ [Next]_vars => [Service!Next]_Service!vars
  BY Served
<1> QED BY <1>1, <1>2, <1>3, InitServed, PTL DEF Spec, ImplementsService, Service!Spec

\* So they do in every execution when there is a seat for everyone.
THEOREM ServiceImplemented ==
    ASSUME NobodyStands
    PROVE  Spec => ImplementsService
<1> DEFINE Inv == ShopInv /\ Passed
<1>1. Init => Inv
  BY InitShop, InitPassed
<1>2. Inv /\ [Next]_vars => Inv'
  BY ShopNext, PassedNext, NoneStands DEF ShopInv
<1>3. Inv /\ [Next]_vars => [Service!Next]_Service!vars
  BY Served, NoneStands
<1> QED BY <1>1, <1>2, <1>3, InitServed, PTL DEF Spec, ImplementsService, Service!Spec
=============================================================================
