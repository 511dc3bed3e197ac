------------------------------- MODULE Bakery -------------------------------
(***************************************************************************)
(* The threads of src/bakery: main() admits customers, one thread per      *)
(* customer and per chef, the mutexes `lock' and `payment_mutex', the      *)
(* condition variables chef_cv and standing_cv, the semaphores of a        *)
(* Customer and the three linked queues of queue.c.                        *)
(*                                                                         *)
(* Grain: a step ends wherever another thread may observe or disturb what  *)
(* the code is doing.  x++ is a load and a store, and q_push and q_pop are *)
(* cut between their stores, because customers push themselves on          *)
(* standing_queue and call pthread_cond_wait without holding `lock'.  Two  *)
(* places are not cut: head = tail = c and the load of size behind it      *)
(* (queue.c:8), and tail, next and that load of q_pop (queue.c:16-18).     *)
(* Time (sleep) is the order of steps; logging is left out.                *)
(***************************************************************************)
EXTENDS Integers, FiniteSets

CONSTANTS Arrivals,      \* number of arrival lines read by main
          Chefs,         \* the chef threads, NUM_CHEFS of them
          Main,          \* the main thread
          None,          \* NULL, and "nobody" for a mutex
          MAX_CAPACITY, SOFA_SEATS,
          MaxSpurious    \* bound: how often pthread_cond_wait returns unsignalled

Customers == 1 .. Arrivals
Threads == Customers \cup Chefs \cup {Main}

ASSUME BakeryAssumption ==
    /\ Arrivals \in Nat /\ MaxSpurious \in Nat
    /\ MAX_CAPACITY \in Nat /\ SOFA_SEATS \in Nat
    /\ IsFiniteSet(Chefs) /\ Chefs \cap Customers = {}
    /\ Main \notin Customers \cup Chefs
    /\ None \notin Threads

Queues == {"sofa", "standing", "payment"}
Semaphores == {"served", "start_bake", "bake_done", "payment_ok"}

VARIABLES
    pc,                \* where each thread is; "chef_cv" and "standing_cv": blocked there
    loc,               \* locals of a thread: q, the queue it works on; node, the
                       \* Customer * it works on; reg, the value of ++ and --
    lock, payment_mutex,    \* the thread that acquired the mutex last, or None
    stolen,            \* history: a thread has released a lock another one held
    current_customers, sofa_occupied, shutdown_flag,
    queue, next,       \* head, tail and size of each queue; Customer.next
    sem,               \* the semaphores of each customer
    cur,               \* the arrival main is looking at
    process,           \* "running", "crashed" (bad pointer, failed assertion of
                       \* the mutex), "failed" (exit(1)), "exited" (main returned)
    spurious           \* how many unsignalled returns there were

mutexes  == <<lock, payment_mutex, stolen>>
counters == <<current_customers, sofa_occupied>>
lists    == <<queue, next>>
control  == <<shutdown_flag, cur, process, spurious>>
vars == <<pc, loc, mutexes, counters, lists, sem, control>>

-----------------------------------------------------------------------------
(* What the steps are made of. *)

At(t, label) == process = "running" /\ pc[t] = label
Alive(c) == c # None /\ pc[c] # "gone"    \* free() is the step to "gone"
MyQueue(t) == queue[loc[t].q]

\* pthread_cond_broadcast wakes those who are blocked on the condition variables.
Goto(t, label) == pc' = [pc EXCEPT ![t] = label]
Woken(label, cvs) ==
    IF label \notin cvs THEN label
    ELSE IF label = "chef_cv" THEN "chef_wake" ELSE "standing_wake"
BroadcastAndGoto(t, label, cvs) ==
    pc' = [u \in Threads |-> IF u = t THEN label ELSE Woken(pc[u], cvs)]

\* A normal mutex of glibc does not look at who releases it.
Release(t) == /\ lock' = None
              /\ stolen' = (stolen \/ (lock # t /\ lock # None))
              /\ UNCHANGED payment_mutex

\* The kinds of steps from one label to the next, by what they change.
Jumps(t, from, to) ==
    At(t, from) /\ Goto(t, to) /\ UNCHANGED <<loc, mutexes, counters, lists, sem, control>>
Sets(t, from, to, locals) ==
    /\ At(t, from) /\ Goto(t, to) /\ loc' = [loc EXCEPT ![t] = locals]
    /\ UNCHANGED <<mutexes, counters, lists, sem, control>>
Signals(t, from, to, semaphores) ==
    /\ At(t, from) /\ Goto(t, to) /\ sem' = semaphores
    /\ UNCHANGED <<loc, mutexes, counters, lists, control>>
Unlocks(t, from, to) ==
    /\ At(t, from) /\ Goto(t, to) /\ Release(t)
    /\ UNCHANGED <<loc, counters, lists, sem, control>>
Links(t, from, to, queues, nexts, size) ==
    /\ At(t, from) /\ Goto(t, to)
    /\ queue' = queues /\ next' = nexts /\ loc' = [loc EXCEPT ![t].reg = size]
    /\ UNCHANGED <<mutexes, counters, sem, control>>

Post(s, c) == [sem EXCEPT ![s][c] = @ + 1]
Wait(s, c) == [sem EXCEPT ![s][c] = @ - 1]

\* The steps that only acquire `lock', and where they lead.
AfterLock == [lock |-> "check", chef_wake |-> "check",
              standing_wake |-> "my_turn", sit_lock |-> "sit",
              join_lock |-> "push", pay_lock |-> "push", leave_lock |-> "leave",
              arrive |-> "admit", close |-> "shutdown"]

Lock(t) == /\ process = "running" /\ pc[t] \in DOMAIN AfterLock
           /\ lock = None /\ lock' = t
           /\ Goto(t, AfterLock[pc[t]])
           /\ UNCHANGED <<loc, payment_mutex, stolen, counters, lists, sem, control>>

-----------------------------------------------------------------------------
(* q_push(q, t) by the customer t; q_pop(q) by a chef, or by a customer that *)
(* leaves the standing queue.                                                *)

QPush(t) ==
    LET q == loc[t].q  x == loc[t].node
    IN  \/ Links(t, "push", IF queue[q].tail = None THEN "link_first" ELSE "load_tail",
                 queue, [next EXCEPT ![t] = None], loc[t].reg)
        \/ Links(t, "link_first", "push_size", [queue EXCEPT ![q].head = t, ![q].tail = t],
                 next, queue[q].size)
        \/ Sets(t, "load_tail", "link_next", [loc[t] EXCEPT !.node = queue[q].tail])
        \/ Alive(x) /\ Links(t, "link_next", "link_tail", queue, [next EXCEPT ![x] = t], loc[t].reg)
        \/ Links(t, "link_tail", "push_size", [queue EXCEPT ![q].tail = t], next, queue[q].size)
        \/ Links(t, "push_size", "pushed", [queue EXCEPT ![q].size = loc[t].reg + 1], next, loc[t].reg)

AfterPop(t) == IF t \in Chefs THEN "popped" ELSE "sit"

QPop(t) ==
    LET q == loc[t].q  x == loc[t].node
    IN  \/ Sets(t, "pop", IF queue[q].head = None THEN AfterPop(t) ELSE "pop_head",
                [loc[t] EXCEPT !.node = queue[q].head])
        \/ Alive(x) /\ Links(t, "pop_head", "pop_tail", [queue EXCEPT ![q].head = next[x]],
                             next, loc[t].reg)
        \/ Alive(x) /\ Links(t, "pop_tail", "pop_size",
                             [queue EXCEPT ![q].tail = IF queue[q].head = None THEN None ELSE @],
                             [next EXCEPT ![x] = None], queue[q].size)
        \/ Links(t, "pop_size", AfterPop(t), [queue EXCEPT ![q].size = loc[t].reg - 1],
                 next, loc[t].reg)

-----------------------------------------------------------------------------
(* chef_thread *)

NoWork == queue["payment"].size = 0 /\ queue["sofa"].size = 0

ChefTop(k) == Jumps(k, "top", IF shutdown_flag THEN "exit" ELSE "lock")

\* Bug variant: `lock' is released before the work is picked.
ChefSeesWorkUnlocks(k) == ~NoWork /\ Unlocks(k, "check", "pick")
ChefSeesWork(k) == ~NoWork /\ Jumps(k, "check", "pick")

\* The break of the inner loop leaves `lock' released, and falls through.
ChefWaits(k) == NoWork /\ Unlocks(k, "check", IF shutdown_flag THEN "fell" ELSE "chef_cv")

Work(q) == queue[q].size > 0

\* Bug variant: new orders before payments.
ChefPicksSofaFirst(k, from) ==
    \/ \E q \in {"payment", "sofa"} :
          /\ Work(q) /\ (q = "payment" => ~Work("sofa"))
          /\ Sets(k, from, "pop", [loc[k] EXCEPT !.q = q])
    \/ ~Work("payment") /\ ~Work("sofa") /\ Unlocks(k, from, "top")
ChefPicks(k, from) ==
    \/ \E q \in {"payment", "sofa"} :
          /\ Work(q) /\ (q = "sofa" => ~Work("payment"))
          /\ Sets(k, from, "pop", [loc[k] EXCEPT !.q = q])
    \/ ~Work("payment") /\ ~Work("sofa") /\ Unlocks(k, from, "top")

ChefUnlocks(k) == Unlocks(k, "popped", IF loc[k].q = "payment" THEN "register" ELSE "serve")

Registers(k, from, to, mutex) ==
    /\ At(k, from) /\ Goto(k, to) /\ payment_mutex' = mutex
    /\ UNCHANGED <<loc, lock, stolen, counters, lists, control>>

\* Bug variant: without payment_mutex.
ChefTakesRegisterAnyway(k) == Registers(k, "register", "accept", k) /\ UNCHANGED sem
ChefTakesRegister(k) ==
    payment_mutex = None /\ Registers(k, "register", "accept", k) /\ UNCHANGED sem

ChefAccepts(k) == /\ Alive(loc[k].node) /\ sem' = Post("payment_ok", loc[k].node)
                  /\ Registers(k, "accept", "top", None)

ChefServes(k) == Alive(loc[k].node) /\ Signals(k, "serve", "await_start", Post("served", loc[k].node))

\* Bug variant: the chef does not wait for the order.
ChefStartsUnordered(k) == Alive(loc[k].node) /\ Jumps(k, "await_start", "bake")
ChefStartsBaking(k) ==
    /\ Alive(loc[k].node) /\ sem["start_bake"][loc[k].node] > 0
    /\ Signals(k, "await_start", "bake", Wait("start_bake", loc[k].node))

ChefBakes(k) == Alive(loc[k].node) /\ Signals(k, "bake", "top", Post("bake_done", loc[k].node))

Chef(k) == \/ ChefTop(k) \/ ChefSeesWork(k) \/ ChefWaits(k)
           \/ ChefPicks(k, "pick") \/ ChefPicks(k, "fell")
           \/ ChefUnlocks(k) \/ ChefTakesRegister(k) \/ ChefAccepts(k)
           \/ ChefServes(k) \/ ChefStartsBaking(k) \/ ChefBakes(k) \/ QPop(k)

-----------------------------------------------------------------------------
(* customer_thread *)

\* The test of line 99, without `lock': first the seats, then the queue.
GoStand(c, from) == Sets(c, from, "push", [loc[c] EXCEPT !.q = "standing"])
PeekSofa(c) == \/ sofa_occupied < SOFA_SEATS /\ Jumps(c, "enters", "peek_queue")
               \/ sofa_occupied >= SOFA_SEATS /\ GoStand(c, "enters")

\* Bug variant: the customer stands although nobody is standing.
PeekQueueInverted(c) == \/ queue["standing"].size # 0 /\ Jumps(c, "peek_queue", "sit_lock")
                        \/ queue["standing"].size = 0 /\ GoStand(c, "peek_queue")
PeekQueue(c) == \/ queue["standing"].size = 0 /\ Jumps(c, "peek_queue", "sit_lock")
                \/ queue["standing"].size # 0 /\ GoStand(c, "peek_queue")

\* pthread_cond_wait releases `lock' in any case, held (StandOn) or not (Stand).
MyTurn(c) == queue["standing"].head = c /\ sofa_occupied < SOFA_SEATS
Stand(c) == loc[c].q = "standing" /\ Unlocks(c, "pushed", "standing_cv")
StandOn(c) == ~MyTurn(c) /\ Unlocks(c, "my_turn", "standing_cv")
LeaveQueue(c) == MyTurn(c) /\ Jumps(c, "my_turn", "pop")

Sit(c) == Sets(c, "sit", "sit_store", [loc[c] EXCEPT !.reg = sofa_occupied])
SitStore(c) == /\ At(c, "sit_store") /\ Goto(c, "join_lock") /\ Release(c)
               /\ sofa_occupied' = loc[c].reg + 1
               /\ loc' = [loc EXCEPT ![c].q = "sofa"]
               /\ UNCHANGED <<current_customers, lists, sem, control>>

\* On the sofa or payment queue: tell the chefs.
Announce(c) ==
    /\ At(c, "pushed") /\ loc[c].q # "standing" /\ Release(c)
    /\ BroadcastAndGoto(c, IF loc[c].q = "sofa" THEN "await_served" ELSE "await_payment",
                        {"chef_cv"})
    /\ UNCHANGED <<loc, counters, lists, sem, control>>

RequestCake(c) == /\ sem["served"][c] > 0
                  /\ Signals(c, "await_served", "await_bake",
                             [sem EXCEPT !["served"][c] = @ - 1, !["start_bake"][c] = @ + 1])

Pay(c) == /\ At(c, "await_bake") /\ sem["bake_done"][c] > 0
          /\ sem' = Wait("bake_done", c)
          /\ loc' = [loc EXCEPT ![c].q = "payment"] /\ Goto(c, "pay_lock")
          /\ UNCHANGED <<mutexes, counters, lists, control>>

Paid(c) == /\ sem["payment_ok"][c] > 0
           /\ Signals(c, "await_payment", "leave_lock", Wait("payment_ok", c))

Leave(c) == Sets(c, "leave", "leave_sofa", [loc[c] EXCEPT !.reg = sofa_occupied])

\* Bug variant: the seat is not given back.
LeaveSofaTaken(c) == Sets(c, "leave_sofa", "leave_shop", [loc[c] EXCEPT !.reg = current_customers])
LeaveSofa(c) == /\ At(c, "leave_sofa") /\ Goto(c, "leave_shop")
                /\ sofa_occupied' = loc[c].reg - 1
                /\ loc' = [loc EXCEPT ![c].reg = current_customers]
                /\ UNCHANGED <<mutexes, current_customers, lists, sem, control>>

LeaveShop(c) == /\ At(c, "leave_shop") /\ Release(c)
                /\ current_customers' = loc[c].reg - 1
                /\ BroadcastAndGoto(c, "free", {"standing_cv", "chef_cv"})
                /\ UNCHANGED <<loc, sofa_occupied, lists, sem, control>>

Free(c) == Jumps(c, "free", "gone")

Customer(c) == \/ PeekSofa(c) \/ PeekQueue(c) \/ Stand(c) \/ StandOn(c)
               \/ LeaveQueue(c) \/ Sit(c) \/ SitStore(c) \/ Announce(c)
               \/ RequestCake(c) \/ Pay(c) \/ Paid(c)
               \/ Leave(c) \/ LeaveSofa(c) \/ LeaveShop(c) \/ Free(c)
               \/ QPush(c) \/ QPop(c)

-----------------------------------------------------------------------------
(* main *)

\* Bug variant: one arrival too many.
AfterArrivalOffByOne == IF cur <= Arrivals THEN "arrive" ELSE "join"
AfterArrival == IF cur < Arrivals THEN "arrive" ELSE "join"

NextArrival == /\ cur' = cur + 1 /\ Release(Main)
               /\ UNCHANGED <<loc, counters, lists, sem, shutdown_flag, process, spurious>>

Refuse == /\ At(Main, "admit") /\ current_customers >= MAX_CAPACITY
          /\ pc' = [pc EXCEPT ![Main] = AfterArrival, ![cur] = "refused"]
          /\ NextArrival

\* Bug variant: one customer too many.
AdmitOneMore == /\ current_customers <= MAX_CAPACITY
                /\ Sets(Main, "admit", "count", [loc[Main] EXCEPT !.reg = current_customers])
Admit == /\ current_customers < MAX_CAPACITY
         /\ Sets(Main, "admit", "count", [loc[Main] EXCEPT !.reg = current_customers])

Count == /\ At(Main, "count") /\ Goto(Main, "create")
         /\ current_customers' = loc[Main].reg + 1
         /\ UNCHANGED <<loc, mutexes, sofa_occupied, lists, sem, control>>

\* The new thread runs before main releases `lock'.
Create == /\ At(Main, "create")
          /\ pc' = [pc EXCEPT ![Main] = "created", ![cur] = "enters"]
          /\ UNCHANGED <<loc, mutexes, counters, lists, sem, control>>
Created == At(Main, "created") /\ Goto(Main, AfterArrival) /\ NextArrival

JoinCustomers == /\ \A c \in Customers : pc[c] \in {"gone", "refused"}
                 /\ Jumps(Main, "join", "close")

ShutsDown == /\ At(Main, "shutdown") /\ shutdown_flag' = TRUE /\ Release(Main)
             /\ UNCHANGED <<loc, counters, lists, sem, cur, process, spurious>>

\* Bug variant: the waiting chefs are not told.
ShutdownSilently == ShutsDown /\ Goto(Main, "join_chefs")
Shutdown == ShutsDown /\ BroadcastAndGoto(Main, "join_chefs", {"chef_cv"})

\* Ways the process ends.
Ends(how) == /\ process = "running" /\ process' = how
             /\ UNCHANGED <<pc, loc, mutexes, counters, lists, sem, shutdown_flag, cur, spurious>>

CreateFails == pc[Main] = "create" /\ Ends("failed")
JoinChefs == pc[Main] = "join_chefs" /\ (\A k \in Chefs : pc[k] = "exit") /\ Ends("exited")

MainStep == \/ Refuse \/ Admit \/ Count \/ Create \/ Created
            \/ JoinCustomers \/ Shutdown \/ JoinChefs

-----------------------------------------------------------------------------
(* What the platform does to the threads. *)

SpuriousWakeup(t) ==
    /\ process = "running" /\ pc[t] \in {"chef_cv", "standing_cv"}
    /\ spurious < MaxSpurious /\ spurious' = spurious + 1
    /\ Goto(t, IF pc[t] = "chef_cv" THEN "chef_wake" ELSE "standing_wake")
    /\ UNCHANGED <<loc, mutexes, counters, lists, sem, shutdown_flag, cur, process>>

\* The code dereferences NULL or a freed Customer.
Dereferencing == {"link_next", "pop_head", "pop_tail", "accept", "serve", "await_start", "bake"}
BadPointer(t) == pc[t] \in Dereferencing /\ ~Alive(loc[t].node) /\ Ends("crashed")

\* The labels between an acquisition of `lock' and its release.
Pushing == {"push", "link_first", "load_tail", "link_next", "link_tail", "push_size", "pushed"}
Popping == {"pop", "pop_head", "pop_tail", "pop_size"}
Locked == {"check", "pick", "popped", "my_turn", "sit", "sit_store", "leave", "leave_sofa",
           "leave_shop", "admit", "count", "create", "created", "shutdown"} \cup Popping
InSection(t) == pc[t] \in Locked \/ (pc[t] \in Pushing /\ loc[t].q # "standing")

\* pthread_mutex_lock asserts that the mutex it got has no owner: after a
\* foreign release the owner it finds may be a thread still in its section.
OwnerAssertion(t) == /\ pc[t] \in DOMAIN AfterLock /\ lock = None
                     /\ \E u \in Threads \ {t} : InSection(u)
                     /\ Ends("crashed")

Halted == process # "running" /\ UNCHANGED vars

-----------------------------------------------------------------------------
Init ==
    /\ pc = [t \in Threads |-> IF t \in Chefs THEN "top"
                               ELSE IF t \in Customers THEN "away"
                               ELSE IF Arrivals > 0 THEN "arrive" ELSE "join"]
    /\ loc = [t \in Threads |-> [q |-> "sofa", node |-> None, reg |-> 0]]
    /\ lock = None /\ payment_mutex = None /\ stolen = FALSE
    /\ current_customers = 0 /\ sofa_occupied = 0 /\ shutdown_flag = FALSE
    /\ queue = [q \in Queues |-> [head |-> None, tail |-> None, size |-> 0]]
    /\ next = [c \in Customers |-> None]
    /\ sem = [s \in Semaphores |-> [c \in Customers |-> 0]]
    /\ cur = 1 /\ process = "running" /\ spurious = 0

\* A step of thread t that its own progress calls for.
Step(t) == \/ Lock(t) \/ BadPointer(t)
           \/ t \in Customers /\ Customer(t)
           \/ t \in Chefs /\ Chef(t)
           \/ t = Main /\ MainStep

Next == \/ \E t \in Threads : Step(t) \/ SpuriousWakeup(t) \/ OwnerAssertion(t)
        \/ CreateFails
        \/ Halted

Spec == Init /\ [][Next]_vars

\* Every thread is scheduled as long as it can go on; a thread that waits for a
\* mutex gets it if the mutex stays free.
LiveSpec == Spec /\ \A t \in Threads : WF_vars(Step(t))

-----------------------------------------------------------------------------
(* Properties. *)

Labels == DOMAIN AfterLock \cup Locked \cup Pushing \cup
          {"top", "chef_cv", "fell", "register", "accept", "serve", "await_start", "bake", "exit",
           "away", "refused", "enters", "peek_queue", "standing_cv", "await_served",
           "await_bake", "await_payment", "free", "gone", "join", "join_chefs"}

\* Every variable has a value of the kind the code gives it; the counters are
\* plain ints, which a lost update may make wrong.
TypeOK ==
    /\ pc \in [Threads -> Labels]
    /\ loc \in [Threads -> [q : Queues, node : Customers \cup {None}, reg : Int]]
    /\ lock \in Threads \cup {None} /\ payment_mutex \in Chefs \cup {None}
    /\ stolen \in BOOLEAN /\ shutdown_flag \in BOOLEAN
    /\ current_customers \in Int /\ sofa_occupied \in Int
    /\ queue \in [Queues -> [head : Customers \cup {None}, tail : Customers \cup {None}, size : Int]]
    /\ next \in [Customers -> Customers \cup {None}]
    /\ sem \in [Semaphores -> [Customers -> Nat]]
    /\ cur \in 1 .. Arrivals + 1
    /\ process \in {"running", "crashed", "failed", "exited"}
    /\ spurious \in 0 .. MaxSpurious

\* The register is used by one chef at a time, whatever happened to `lock'
\* (threads.c:31, "serialize accepting payment").
PaymentSerialized ==
    \A j, k \in Chefs : pc[j] = "accept" /\ pc[k] = "accept" => j = k

\* Each customer's cake is baked exactly once, by one chef, while that customer
\* waits for it, also when two chefs popped the same customer: the order placed
\* with sem_start_bake is either pending, in the oven, or ready.
CakeBakedOnce ==
    \A c \in Customers :
        sem["start_bake"][c] + sem["bake_done"][c]
          + Cardinality({k \in Chefs : pc[k] = "bake" /\ loc[k].node = c})
        = IF pc[c] = "await_bake" THEN 1 ELSE 0

\* While no thread has released the lock of another one, a thread between its
\* acquisition and its release of `lock' is the one that holds it.
LockExclusion == ~stolen => \A t \in Threads : InSection(t) => lock = t

Inside == {c \in Customers : \/ pc[c] \notin {"away", "refused", "free", "gone"}
                             \/ pc[Main] = "create" /\ c = cur}

Seated == {c \in Customers :
             \/ pc[c] \in {"join_lock", "await_served", "await_bake", "pay_lock", "await_payment",
                           "leave_lock", "leave", "leave_sofa"}
             \/ pc[c] \in Pushing /\ loc[c].q # "standing"}

\* As long as the lock was not stolen, current_customers is the number of
\* customers inside, and the bakery never holds more than its capacity.
CapacityKept == ~stolen => /\ current_customers = Cardinality(Inside)
                           /\ Cardinality(Inside) <= MAX_CAPACITY

\* As long as the lock was not stolen, sofa_occupied counts the seats taken,
\* even when the queues have been damaged by unlocked pushes.
SeatsCounted == ~stolen => sofa_occupied = Cardinality(Seated)

(* What the comments promise and the code does not keep. *)

\* "try to sit on sofa immediately if seat free" (threads.c:98): no more
\* customers sit than there are seats.
SofaWithinSeats == Cardinality(Seated) <= SOFA_SEATS

\* A standing customer who leaves the standing queue pops himself: the other
\* case "shouldn't happen" (threads.c:128).
PopsItself == \A c \in Customers : pc[c] \in Popping \ {"pop"} => loc[c].node = c

\* Every customer that arrives is refused or gets a seat, is served and leaves:
\* a leaving one wakes "the earliest standing customer" (threads.c:186).
EveryoneLeaves ==
    <>(process # "running" \/ \A c \in Customers : pc[c] \in {"refused", "gone"})
=============================================================================
