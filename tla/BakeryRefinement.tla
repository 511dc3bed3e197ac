-------------------------- MODULE BakeryRefinement --------------------------
(***************************************************************************)
(* Bakery implements BakeryService when nobody has to stand: the mapping   *)
(* from the threads' state to the service's, and what customers may count  *)
(* on in that case.                                                        *)
(***************************************************************************)
EXTENDS Bakery, Sequences

\* There is a seat for everyone who can be inside.
NobodyStands == MAX_CAPACITY <= SOFA_SEATS \/ Arrivals <= SOFA_SEATS

\* Whoever looks for a seat finds one free, although others may take it.
FindsSeat == \A c \in Customers : pc[c] = "enters" => sofa_occupied < SOFA_SEATS

\* The customers linked from the head of a queue, in order.
IsChain(s, head, links) ==
    /\ head = IF s = <<>> THEN None ELSE s[1]
    /\ \A i \in DOMAIN s : links[s[i]] = IF i = Len(s) THEN None ELSE s[i + 1]
Chain(head, links) ==
    CHOOSE s \in UNION {[1 .. n -> Customers] : n \in 0 .. Arrivals} : IsChain(s, head, links)
Line(q) == Chain(queue[q].head, next)

\* Linked from the head on: c has passed the store that makes it reachable.
Linked == {"link_tail", "push_size", "pushed"}

StageOf(c) ==
    CASE pc[c] = "away" -> "outside"
      [] pc[c] = "refused" -> "refused"
      [] pc[c] \in {"free", "gone"} -> "left"
      [] pc[c] = "await_served" \/ (pc[c] \in Linked /\ loc[c].q = "sofa") -> "seated"
      [] pc[c] = "await_bake" -> IF sem["bake_done"][c] = 0 THEN "ordered" ELSE "served"
      [] pc[c] = "pay_lock" \/ (pc[c] \in Pushing \ Linked /\ loc[c].q = "payment") -> "served"
      [] pc[c] = "await_payment" -> IF sem["payment_ok"][c] = 0 THEN "paying" ELSE "paid"
      [] pc[c] \in Linked /\ loc[c].q = "payment" ->
            IF sem["payment_ok"][c] = 0 THEN "paying" ELSE "paid"
      [] pc[c] \in {"leave_lock", "leave", "leave_sofa", "leave_shop"} -> "paid"
      [] OTHER -> "inside"

\* A chef has his task from the store that takes the customer off the queue.
TaskOf(k) ==
    LET taken == pc[k] \in {"pop_tail", "pop_size", "popped"}
    IN  IF pc[k] \in {"register", "accept"} \/ (taken /\ loc[k].q = "payment")
        THEN [does |-> "register", for |-> loc[k].node]
        ELSE IF pc[k] \in {"serve", "await_start", "bake"} \/ (taken /\ loc[k].q = "sofa")
        THEN [does |-> "bakes", for |-> loc[k].node]
        ELSE [does |-> "nothing"]

Service == INSTANCE BakeryService WITH
             stage <- [c \in Customers |-> StageOf(c)],
             sofaLine <- Line("sofa"), payLine <- Line("payment"),
             task <- [k \in Chefs |-> TaskOf(k)],
             open <- ~shutdown_flag

\* Every step of the threads is a step of the service or invisible to it:
\* the linked lists are the FIFO lines, payments go first, nobody is served,
\* paid or let out twice or out of turn.
ImplementsService == Service!Spec

\* With seats for all, `lock' is released only by its holder and every pointer
\* is good, until the shutdown, where chefs release `lock' twice (threads.c:19
\* and 69).
SafeUntilShutdown == (stolen \/ process = "crashed") => shutdown_flag

\* Every customer leaves, main closes the shop and returns, unless
\* pthread_create failed or the shutdown crashed: no wakeup is lost on chef_cv,
\* no chef and customer wait for each other.
ShopCloses == <>(process # "running")
=============================================================================
