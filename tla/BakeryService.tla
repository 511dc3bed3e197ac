---------------------------- MODULE BakeryService ----------------------------
(***************************************************************************)
(* What the bakery promises to those who use it, without threads, locks or *)
(* linked lists: arrivals are let in, in order, up to the capacity; those  *)
(* on the sofa are served first come, first served; payments are taken     *)
(* before new orders; a customer orders when a chef serves him, pays after *)
(* the cake is ready, leaves after a chef took the payment, and the shop   *)
(* closes when nobody is left.  Bakery implements it as long as no         *)
(* customer has to stand.                                                  *)
(***************************************************************************)
EXTENDS Integers, Sequences, FiniteSets

CONSTANTS Arrivals, Chefs, MAX_CAPACITY

Customers == 1 .. Arrivals

VARIABLES stage,     \* of each customer
          sofaLine,  \* those waiting to be served, oldest first
          payLine,   \* those waiting for the register, oldest first
          task,      \* what each chef is doing, and for whom
          open

vars == <<stage, sofaLine, payLine, task, open>>

Idle == [does |-> "nothing"]
Inside == {c \in Customers : stage[c] \notin {"outside", "refused", "left"}}
Move(c, from, to) == stage[c] = from /\ stage' = [stage EXCEPT ![c] = to]
IsNext(c) == \A d \in 1 .. c - 1 : stage[d] # "outside"

Init == /\ stage = [c \in Customers |-> "outside"]
        /\ sofaLine = <<>> /\ payLine = <<>>
        /\ task = [k \in Chefs |-> Idle]
        /\ open = TRUE

Enter(c) == /\ IsNext(c) /\ Cardinality(Inside) < MAX_CAPACITY
            /\ Move(c, "outside", "inside")
            /\ UNCHANGED <<sofaLine, payLine, task, open>>

Refuse(c) == /\ IsNext(c) /\ Cardinality(Inside) = MAX_CAPACITY
             /\ Move(c, "outside", "refused")
             /\ UNCHANGED <<sofaLine, payLine, task, open>>

JoinSofaLine(c) == /\ Move(c, "inside", "seated")
                   /\ sofaLine' = Append(sofaLine, c)
                   /\ UNCHANGED <<payLine, task, open>>

Serve(k) == /\ task[k] = Idle /\ payLine = <<>> /\ sofaLine # <<>>
            /\ task' = [task EXCEPT ![k] = [does |-> "bakes", for |-> Head(sofaLine)]]
            /\ sofaLine' = Tail(sofaLine)
            /\ UNCHANGED <<stage, payLine, open>>

Order(c) == /\ \E k \in Chefs : task[k] = [does |-> "bakes", for |-> c]
            /\ Move(c, "seated", "ordered")
            /\ UNCHANGED <<sofaLine, payLine, task, open>>

Bake(k) == /\ task[k] # Idle /\ task[k].does = "bakes"
           /\ Move(task[k].for, "ordered", "served")
           /\ task' = [task EXCEPT ![k] = Idle]
           /\ UNCHANGED <<sofaLine, payLine, open>>

JoinPayLine(c) == /\ Move(c, "served", "paying")
                  /\ payLine' = Append(payLine, c)
                  /\ UNCHANGED <<sofaLine, task, open>>

TakePayment(k) == /\ task[k] = Idle /\ payLine # <<>>
                  /\ task' = [task EXCEPT ![k] = [does |-> "register", for |-> Head(payLine)]]
                  /\ payLine' = Tail(payLine)
                  /\ UNCHANGED <<stage, sofaLine, open>>

Accept(k) == /\ task[k] # Idle /\ task[k].does = "register"
             /\ Move(task[k].for, "paying", "paid")
             /\ task' = [task EXCEPT ![k] = Idle]
             /\ UNCHANGED <<sofaLine, payLine, open>>

Leave(c) == Move(c, "paid", "left") /\ UNCHANGED <<sofaLine, payLine, task, open>>

Close == /\ open /\ \A c \in Customers : stage[c] \in {"refused", "left"}
         /\ open' = FALSE
         /\ UNCHANGED <<stage, sofaLine, payLine, task>>

Next == \/ \E c \in Customers : \/ Enter(c) \/ Refuse(c) \/ JoinSofaLine(c) \/ Order(c)
                                \/ JoinPayLine(c) \/ Leave(c)
        \/ \E k \in Chefs : Serve(k) \/ Bake(k) \/ TakePayment(k) \/ Accept(k)
        \/ Close

Spec == Init /\ [][Next]_vars
=============================================================================
