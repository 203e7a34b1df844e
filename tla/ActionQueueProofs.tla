--------------------------- MODULE ActionQueueProofs ---------------------------
(* Proofs about ActionQueue, for every init.rc.  The list is only right as     *)
(* long as nothing is appended that is on it, which the code does not see to   *)
(* (see the run of ActionQueueTwice): AppendsAreFresh is a hypothesis of the   *)
(* first theorems, and the last section proves it of every file that sets      *)
(* nothing off twice.                                                          *)
EXTENDS ActionQueue, TLAPS

(* The ring of pointers through the queue q, as a statement about any          *)
(* pointers nx and pv: ListIsQueue is Ring(next, prev, queue).                 *)
At(q, i) == IF i \in DOMAIN q THEN q[i] ELSE HEAD
Ring(nx, pv, q) ==
  /\ \A i, j \in DOMAIN q : q[i] = q[j] => i = j
  /\ \A i \in 0 .. Len(q) : nx[At(q, i)] = At(q, i + 1) /\ pv[At(q, i + 1)] = At(q, i)

LEMMA RingIsList == ListIsQueue <=> Ring(next, prev, queue)
BY DEF ListIsQueue, Ring, NodeAt, At

LEMMA Positions ==
  ASSUME NEW q \in Seq(Actions)
  PROVE  /\ Len(q) \in Nat /\ DOMAIN q = 1 .. Len(q)
         /\ \A i \in Nat : /\ 1 <= i /\ i <= Len(q) => At(q, i) = q[i] /\ q[i] \in Actions
                           /\ i = 0 \/ i > Len(q) => At(q, i) = HEAD
                           /\ At(q, i) \in Nodes
BY DEF At, Nodes

(* list_add_tail of a node that is not on the ring makes it the last one.      *)
LEMMA AppendRing ==
  ASSUME NEW q \in Seq(Actions), NEW a \in Actions, \A i \in DOMAIN q : q[i] # a,
         NEW nx \in [Nodes -> Nodes \cup {NULL}], NEW pv \in [Nodes -> Nodes \cup {NULL}],
         Ring(nx, pv, q),
         NEW n2, n2[pv[HEAD]] = a, n2[a] = HEAD,
         \A x \in Nodes \ {a, pv[HEAD]} : n2[x] = nx[x],
         NEW p2, p2[HEAD] = a, p2[a] = pv[HEAD],
         \A x \in Nodes \ {a, HEAD} : p2[x] = pv[x]
  PROVE  Ring(n2, p2, Append(q, a))
<1> DEFINE n == Len(q)
           r == Append(q, a)
<1>0. HEAD \notin Actions /\ HEAD \in Nodes /\ a \in Nodes /\ HEAD # a
  BY ActionQueueAssumption DEF Nodes
<1>1. /\ n \in Nat /\ DOMAIN q = 1 .. n
      /\ \A i \in Nat : /\ 1 <= i /\ i <= n => At(q, i) = q[i] /\ q[i] \in Actions
                        /\ i = 0 \/ i > n => At(q, i) = HEAD
                        /\ At(q, i) \in Nodes
  BY Positions
<1>2. /\ r \in Seq(Actions) /\ Len(r) = n + 1 /\ DOMAIN r = 1 .. n + 1 /\ r[n + 1] = a
      /\ \A i \in 1 .. n : r[i] = q[i]
  BY <1>1
<1>3. /\ \A i \in 0 .. n : At(r, i) = At(q, i)
      /\ At(r, n + 1) = a /\ At(r, n + 2) = HEAD
  BY <1>1, <1>2 DEF At
<1>4. \A i, j \in DOMAIN r : r[i] = r[j] => i = j
  BY <1>1, <1>2 DEF Ring
<1>5. At(q, n + 1) = HEAD /\ pv[HEAD] = At(q, n) /\ At(q, n) # a /\ At(q, n) \in Nodes
  BY <1>0, <1>1 DEF Ring
<1>8. n2[At(q, n)] = a /\ n2[a] = HEAD /\ \A x \in Nodes \ {a, At(q, n)} : n2[x] = nx[x]
  BY <1>5
<1>9. p2[HEAD] = a /\ p2[a] = At(q, n) /\ \A x \in Nodes \ {a, HEAD} : p2[x] = pv[x]
  BY <1>5
<1>10. ASSUME NEW i \in 0 .. n + 1
       PROVE  n2[At(r, i)] = At(r, i + 1) /\ p2[At(r, i + 1)] = At(r, i)
  <2>1. CASE i = n + 1
    BY <2>1, <1>1, <1>3, <1>8, <1>9
  <2>2. CASE i = n
    <3>1. At(r, i) = At(q, n) /\ At(r, i + 1) = a
      BY <2>2, <1>1, <1>3
    <3> QED
      BY <3>1, <1>8, <1>9
  <2>3. CASE i < n
    <3>1. i \in 0 .. n /\ i + 1 \in 1 .. n /\ n \in 1 .. n
      BY <2>3, <1>1
    <3>2. At(r, i) = At(q, i) /\ At(r, i + 1) = At(q, i + 1)
      BY <3>1, <1>1, <1>3
    <3>3. At(q, i) \in Nodes \ {a, At(q, n)}
      <4>1. CASE i = 0
        BY <4>1, <3>1, <1>0, <1>1
      <4>2. CASE i # 0
        <5>0. i \in 1 .. n /\ n \in 1 .. n /\ i # n
          BY <4>2, <3>1, <2>3
        <5>1. i \in DOMAIN q /\ n \in DOMAIN q /\ i # n /\ At(q, i) = q[i] /\ At(q, n) = q[n]
          BY <5>0, <1>1 DEF At
        <5>2. q[i] # q[n]
          BY <5>1 DEF Ring
        <5> QED
          BY <5>1, <5>2, <1>1
      <4> QED
        BY <4>1, <4>2
    <3>4. At(q, i + 1) \in Nodes \ {a, HEAD}
      BY <3>1, <1>0, <1>1
    <3>5. nx[At(q, i)] = At(q, i + 1) /\ pv[At(q, i + 1)] = At(q, i)
      BY <3>1 DEF Ring
    <3>6. n2[At(q, i)] = nx[At(q, i)]
      BY <3>3, <1>8
    <3>7. p2[At(q, i + 1)] = pv[At(q, i + 1)]
      BY <3>4, <1>9
    <3> QED
      BY <3>2, <3>5, <3>6, <3>7
  <2>4. i < n \/ i = n \/ i = n + 1
    <3>1. n \in Nat
      BY <1>1
    <3> QED
      BY <3>1
  <2> QED
    BY <2>1, <2>2, <2>3, <2>4
<1> QED
  BY <1>2, <1>4, <1>10 DEF Ring

(* list_remove of the first node leaves the ring of the others.                *)
LEMMA RemoveRing ==
  ASSUME NEW q \in Seq(Actions), q # <<>>, NEW a, a = q[1],
         NEW nx \in [Nodes -> Nodes \cup {NULL}], NEW pv \in [Nodes -> Nodes \cup {NULL}],
         Ring(nx, pv, q),
         NEW p2, p2 = [pv EXCEPT ![nx[a]] = pv[a]],
         NEW n2, n2 = [nx EXCEPT ![p2[a]] = nx[a]]
  PROVE  Ring(n2, p2, Tail(q))
<1> DEFINE n == Len(q)
           r == Tail(q)
<1>0. HEAD \notin Actions /\ HEAD \in Nodes
  BY ActionQueueAssumption DEF Nodes
<1>1. /\ n \in Nat /\ n > 0 /\ DOMAIN q = 1 .. n
      /\ \A i \in Nat : /\ 1 <= i /\ i <= n => At(q, i) = q[i] /\ q[i] \in Actions
                        /\ i = 0 \/ i > n => At(q, i) = HEAD
                        /\ At(q, i) \in Nodes
  BY Positions
<1>2. /\ r \in Seq(Actions) /\ Len(r) = n - 1 /\ DOMAIN r = 1 .. n - 1
      /\ \A i \in 1 .. n - 1 : r[i] = q[i + 1]
  BY <1>1
<1>3. At(r, 0) = HEAD /\ \A i \in 1 .. n : At(r, i) = At(q, i + 1)
  BY <1>1, <1>2 DEF At
<1>4. \A i, j \in DOMAIN r : r[i] = r[j] => i = j
  <2> SUFFICES ASSUME NEW i \in 1 .. n - 1, NEW j \in 1 .. n - 1, r[i] = r[j] PROVE i = j
    BY <1>2
  <2>1. i + 1 \in DOMAIN q /\ j + 1 \in DOMAIN q /\ q[i + 1] = q[j + 1]
    BY <1>1, <1>2
  <2>2. i + 1 = j + 1
    BY <2>1 DEF Ring
  <2> QED
    BY <2>2, <1>1
<1>5. At(q, 0) = HEAD /\ At(q, 1) = a /\ a \in Nodes /\ a # HEAD
  BY <1>0, <1>1
<1>6. nx[HEAD] = a /\ nx[a] = At(q, 2) /\ pv[a] = HEAD /\ At(q, 2) \in Nodes
  <2>1. 0 \in 0 .. n /\ 1 \in 0 .. n /\ 0 + 1 = 1 /\ 1 + 1 = 2 /\ 2 \in Nat
    BY <1>1
  <2>2. nx[At(q, 0)] = At(q, 1) /\ pv[At(q, 1)] = At(q, 0) /\ nx[At(q, 1)] = At(q, 2)
    BY <2>1 DEF Ring
  <2> QED
    BY <2>1, <2>2, <1>1, <1>5
<1>7. At(q, 2) # a
  BY <1>1, <1>5 DEF Ring
<1>8. p2[At(q, 2)] = HEAD /\ \A x \in Nodes \ {At(q, 2)} : p2[x] = pv[x]
  BY <1>5, <1>6
<1>9. p2[a] = HEAD
  BY <1>5, <1>6, <1>7, <1>8
<1>10. n2[HEAD] = At(q, 2) /\ \A x \in Nodes \ {HEAD} : n2[x] = nx[x]
  BY <1>0, <1>6, <1>9
<1>11. ASSUME NEW i \in 0 .. n - 1
       PROVE  n2[At(r, i)] = At(r, i + 1) /\ p2[At(r, i + 1)] = At(r, i)
  <2>1. CASE i = 0
    BY <2>1, <1>1, <1>3, <1>8, <1>10
  <2>2. CASE i > 0
    <3>1. i \in 1 .. n /\ i + 1 \in 1 .. n /\ i + 1 \in 0 .. n /\ i + 1 \in Nat /\ i + 2 \in Nat
      BY <2>2, <1>1
    <3>2. At(r, i) = At(q, i + 1) /\ At(r, i + 1) = At(q, i + 2)
      BY <3>1, <1>1, <1>3
    <3>3. At(q, i + 1) \in Nodes \ {HEAD}
      BY <3>1, <1>0, <1>1
    <3>4. At(q, i + 2) \in Nodes \ {At(q, 2)}
      <4>1. CASE i + 2 <= n
        BY <4>1, <3>1, <2>2, <1>1 DEF Ring
      <4>2. CASE i + 2 > n
        BY <4>2, <3>1, <2>2, <1>0, <1>1
      <4> QED
        BY <4>1, <4>2, <1>1
    <3>5. nx[At(q, i + 1)] = At(q, i + 2) /\ pv[At(q, i + 2)] = At(q, i + 1)
      BY <3>1, <1>1 DEF Ring
    <3> QED
      BY <3>2, <3>3, <3>4, <3>5, <1>8, <1>10
  <2> QED
    BY <2>1, <2>2, <1>1
<1> QED
  BY <1>2, <1>4, <1>11 DEF Ring

-------------------------------------------------------------------------------
(* The invariant.                                                            *)

ListInv == TypeOK /\ ListIsQueue

LEMMA CommandFacts ==
  ASSUME NEW c \in CommandSet
  PROVE  /\ c.cmd = "setprop" => c.name \in Properties /\ c.value \in Values
         /\ c.cmd = "trigger" => c.name \in STRING
BY DEF CommandSet

LEMMA ActionFacts ==
  ASSUME NEW a \in Actions
  PROVE  /\ Commands[a] \in Seq(CommandSet)
         /\ Len(Commands[a]) \in Nat
         /\ \A i \in 1 .. Len(Commands[a]) : Commands[a][i] \in CommandSet
         /\ Commands[a] # <<>> => 1 <= Len(Commands[a])
BY ActionQueueAssumption

(* A command changes properties and begins a walk, within their types.       *)
LEMMA ExecuteType ==
  ASSUME TypeOK, NEW c \in CommandSet, Execute(c)
  PROVE  /\ props' \in [Properties -> Values \cup {Unset}]
         /\ property_triggers_enabled' \in BOOLEAN
         /\ property_set_fd_init' \in BOOLEAN
         /\ visiting' \in Seq(Actions)
         /\ event' \in Events
<1>1. CASE c.cmd = "setprop"
  <2>1. SetProperty(c.name, c.value) /\ c.name \in Properties /\ c.value \in Values
    BY <1>1, CommandFacts DEF Execute
  <2>2. [kind |-> "property", name |-> c.name, value |-> c.value] \in Events
    BY <2>1 DEF Events
  <2> QED
    BY <2>1, <2>2, ActionQueueAssumption DEF TypeOK, SetProperty, Occurs, NothingOccurs, eventVars
<1>2. CASE c.cmd = "trigger"
  <2>1. [kind |-> "trigger", name |-> c.name] \in Events
    BY <1>2, CommandFacts DEF Events
  <2> QED
    BY <1>2, <2>1, ActionQueueAssumption DEF TypeOK, Execute, Occurs, propVars
<1>3. CASE c.cmd = "queue_property_triggers"
  <2>1. [kind |-> "all"] \in Events
    BY DEF Events
  <2> QED
    BY <1>3, <2>1, ActionQueueAssumption DEF TypeOK, Execute, Occurs
<1>4. CASE c.cmd \notin {"setprop", "trigger", "queue_property_triggers"}
  BY <1>4 DEF TypeOK, Execute, NothingOccurs, eventVars, propVars
<1> QED
  BY <1>1, <1>2, <1>3, <1>4

LEMMA FirstTypes ==
  ASSUME TypeOK, NEW a \in Actions, FirstCommand(a)
  PROVE  /\ props' \in [Properties -> Values \cup {Unset}]
         /\ property_triggers_enabled' \in BOOLEAN
         /\ property_set_fd_init' \in BOOLEAN
         /\ visiting' \in Seq(Actions)
         /\ event' \in Events
<1>1. CASE Commands[a] = <<>>
  BY <1>1 DEF FirstCommand, NothingOccurs, eventVars, propVars, TypeOK
<1>2. CASE Commands[a] # <<>>
  <2>1. Commands[a][1] \in CommandSet
    BY <1>2, ActionFacts
  <2>2. Execute(Commands[a][1])
    BY <1>2 DEF FirstCommand
  <2> QED
    BY <2>1, <2>2, ExecuteType
<1> QED
  BY <1>1, <1>2

LEMMA InitList == Init => ListInv
<1> SUFFICES ASSUME Init PROVE ListInv
  OBVIOUS
<1>1. HEAD \in Nodes /\ Unset \notin Values
  BY ActionQueueAssumption DEF Nodes
<1>2. [kind |-> "boot"] \in Events
  BY DEF Events
<1>3. TypeOK
  <2>1. next \in [Nodes -> Nodes \cup {NULL}] /\ prev \in [Nodes -> Nodes \cup {NULL}]
    BY <1>1 DEF Init
  <2>2. cur_command \in 0 .. (IF cur_action = NoAction THEN 0 ELSE Len(Commands[cur_action]))
    BY DEF Init
  <2>3. queue \in Seq(Actions) /\ visiting \in Seq(Actions)
    BY ActionQueueAssumption DEF Init
  <2> QED
    BY <1>1, <1>2, <2>1, <2>2, <2>3 DEF Init, TypeOK
<1>4. ListIsQueue
  BY <1>1 DEF Init, ListIsQueue, NodeAt
<1> QED
  BY <1>3, <1>4 DEF ListInv

(* The first node of a list that is not empty is the head of the queue.      *)
LEMMA FirstIsHead ==
  ASSUME ListInv
  PROVE  /\ list_empty <=> queue = <<>>
         /\ ~list_empty => next[HEAD] = queue[1] /\ queue[1] \in Actions
<1>1. queue \in Seq(Actions) /\ Len(queue) \in Nat /\ Ring(next, prev, queue)
  BY RingIsList DEF ListInv, TypeOK
<1>2. next[HEAD] = At(queue, 1)
  <2>1. 0 \in 0 .. Len(queue) /\ 0 + 1 = 1 /\ At(queue, 0) = HEAD
    BY <1>1, Positions
  <2> QED
    BY <2>1, <1>1 DEF Ring
<1>3. CASE queue = <<>>
  BY <1>2, <1>3 DEF At, list_empty
<1>4. CASE queue # <<>>
  <2>1. At(queue, 1) = queue[1] /\ queue[1] \in Actions
    BY <1>1, <1>4, Positions
  <2> QED
    BY <1>2, <1>4, <2>1, ActionQueueAssumption DEF list_empty
<1> QED
  BY <1>3, <1>4

(* The four assignments of list_add_tail, for a node that is not on the list. *)
LEMMA AddTail ==
  ASSUME ListInv, NEW a \in Actions, \A i \in DOMAIN queue : queue[i] # a, list_add_tail(a)
  PROVE  /\ next' \in [Nodes -> Nodes \cup {NULL}] /\ prev' \in [Nodes -> Nodes \cup {NULL}]
         /\ Ring(next', prev', Append(queue, a))
<1>1. /\ next \in [Nodes -> Nodes \cup {NULL}] /\ prev \in [Nodes -> Nodes \cup {NULL}]
      /\ queue \in Seq(Actions) /\ Len(queue) \in Nat /\ Ring(next, prev, queue)
  BY RingIsList DEF ListInv, TypeOK
<1>2. HEAD \in Nodes /\ a \in Nodes /\ HEAD # a
  BY ActionQueueAssumption DEF Nodes
<1>3. prev[HEAD] \in Nodes /\ prev[HEAD] # a
  <2>1. prev[At(queue, Len(queue) + 1)] = At(queue, Len(queue))
    BY <1>1 DEF Ring
  <2>2. At(queue, Len(queue) + 1) = HEAD
    BY <1>1, Positions
  <2>3. At(queue, Len(queue)) \in Nodes /\ At(queue, Len(queue)) # a
    BY <1>1, <1>2 DEF At, Nodes
  <2> QED
    BY <2>1, <2>2, <2>3
<1> DEFINE n1 == [next EXCEPT ![a] = HEAD]
           p1 == [prev EXCEPT ![a] = prev[HEAD]]
<1>4. /\ n1 \in [Nodes -> Nodes \cup {NULL}] /\ n1[a] = HEAD
      /\ \A x \in Nodes \ {a} : n1[x] = next[x]
  BY <1>1, <1>2
<1>5. /\ p1 \in [Nodes -> Nodes \cup {NULL}] /\ p1[a] = prev[HEAD] /\ p1[HEAD] = prev[HEAD]
      /\ \A x \in Nodes \ {a} : p1[x] = prev[x]
  BY <1>1, <1>2
<1>6. next' = [n1 EXCEPT ![p1[HEAD]] = a] /\ prev' = [p1 EXCEPT ![HEAD] = a]
  BY DEF list_add_tail
<1> HIDE DEF n1, p1
<1>7. /\ next' \in [Nodes -> Nodes \cup {NULL}]
      /\ next'[prev[HEAD]] = a /\ next'[a] = HEAD
      /\ \A x \in Nodes \ {a, prev[HEAD]} : next'[x] = next[x]
  BY <1>2, <1>3, <1>4, <1>5, <1>6
<1>8. /\ prev' \in [Nodes -> Nodes \cup {NULL}]
      /\ prev'[HEAD] = a /\ prev'[a] = prev[HEAD]
      /\ \A x \in Nodes \ {a, HEAD} : prev'[x] = prev[x]
  BY <1>2, <1>3, <1>5, <1>6
<1> QED
  BY <1>1, <1>7, <1>8, AppendRing

LEMMA VisitStep ==
  ASSUME ListInv, AppendsAreFresh, VisitAction
  PROVE  /\ ListInv'
         /\ queue' = queue \/ queue' = Append(queue, Head(visiting))
         /\ queue' = queue \/ Head(visiting) \in Actions \ Queued
<1>1. /\ Head(visiting) \in Actions /\ Tail(visiting) \in Seq(Actions)
      /\ visiting # <<>> /\ queue \in Seq(Actions)
  BY DEF VisitAction, ListInv, TypeOK
<1>2. CASE Matches(Head(visiting), event)
  <2>1. PICK a \in Actions : a = Head(visiting)
    BY <1>1
  <2>2. /\ list_add_tail(a) /\ a \notin Queued /\ queue' = Append(queue, a)
        /\ \A i \in DOMAIN queue : queue[i] # a
    BY <1>2, <2>1 DEF VisitAction, AppendsAreFresh, Queued, list_add_tail
  <2>3. /\ next' \in [Nodes -> Nodes \cup {NULL}] /\ prev' \in [Nodes -> Nodes \cup {NULL}]
        /\ Ring(next', prev', queue')
    BY <2>2, AddTail
  <2>5. ListIsQueue'
    BY <2>3 DEF ListIsQueue, Ring, NodeAt, At
  <2>6. TypeOK'
    <3>1. queue' \in Seq(Actions)
      BY <1>1, <2>2
    <3> QED
      BY <1>1, <2>3, <3>1 DEF ListInv, TypeOK, VisitAction, propVars
  <2> QED
    BY <2>1, <2>2, <2>5, <2>6 DEF ListInv
<1>3. CASE ~Matches(Head(visiting), event)
  BY <1>1, <1>3 DEF VisitAction, ListInv, TypeOK, ListIsQueue, NodeAt, listVars, propVars
<1> QED
  BY <1>2, <1>3

LEMMA TakeStep ==
  ASSUME ListInv, TakeAction
  PROVE  /\ ListInv'
         /\ queue # <<>> /\ queue' = Tail(queue)
         /\ cur_action' = Head(queue) /\ Head(queue) \in Actions
         /\ cur_command' = IF Len(Commands[Head(queue)]) = 0 THEN 0 ELSE 1
<1> DEFINE a == next[HEAD]
<1>1. queue # <<>> /\ a = queue[1] /\ a = Head(queue) /\ a \in Actions
  BY FirstIsHead DEF TakeAction, ListInv, TypeOK
<1>2. queue \in Seq(Actions) /\ queue' = Tail(queue) /\ Tail(queue) \in Seq(Actions)
  BY <1>1 DEF TakeAction, ListInv, TypeOK
<1>3. ListIsQueue'
  <2>1. /\ next \in [Nodes -> Nodes \cup {NULL}] /\ prev \in [Nodes -> Nodes \cup {NULL}]
        /\ Ring(next, prev, queue)
    BY RingIsList DEF ListInv, TypeOK
  <2>2. \A p2, n2 :
          /\ p2 = [prev EXCEPT ![next[a]] = prev[a]]
          /\ n2 = [next EXCEPT ![p2[a]] = next[a]]
          => Ring(n2, p2, Tail(queue))
    BY <1>1, <1>2, <2>1, RemoveRing
  <2>3. Ring(next', prev', queue')
    BY <1>2, <2>2 DEF TakeAction, list_remove
  <2> QED
    BY <2>3 DEF ListIsQueue, Ring, NodeAt, At
<1>4. next' \in [Nodes -> Nodes \cup {NULL}] /\ prev' \in [Nodes -> Nodes \cup {NULL}]
  <2>1. a \in Nodes
    BY <1>1 DEF Nodes
  <2> QED
    BY <2>1 DEF TakeAction, list_remove, ListInv, TypeOK
<1>5. /\ cur_action' = a /\ ran' = ran \cup {a} /\ pc' = "poll"
      /\ FirstCommand(a)
  BY DEF TakeAction, LoopAt
<1>6. /\ cur_command' = IF Commands[a] = <<>> THEN 0 ELSE 1
      /\ cur_command' \in 0 .. Len(Commands[a])
      /\ Commands[a] = <<>> <=> Len(Commands[a]) = 0
  BY <1>1, <1>5, ActionFacts DEF FirstCommand
<1>7. /\ props' \in [Properties -> Values \cup {Unset}]
      /\ property_triggers_enabled' \in BOOLEAN /\ property_set_fd_init' \in BOOLEAN
      /\ visiting' \in Seq(Actions) /\ event' \in Events
  BY <1>1, <1>5, FirstTypes DEF ListInv
<1>8. TypeOK'
  <2>1. cur_action' # NoAction /\ cur_action' \in Actions
    BY <1>1, <1>5, ActionQueueAssumption
  <2>2. cur_command' \in 0 .. (IF cur_action' = NoAction THEN 0 ELSE Len(Commands[cur_action']))
    BY <1>5, <1>6, <2>1
  <2>3. ran' \subseteq Actions
    BY <1>1, <1>5 DEF ListInv, TypeOK
  <2> QED
    BY <1>2, <1>4, <1>5, <1>7, <2>1, <2>2, <2>3 DEF TypeOK
<1> QED
  BY <1>1, <1>2, <1>3, <1>5, <1>6, <1>8 DEF ListInv

LEMMA IdleTypes ==
  ASSUME TypeOK, BecomeIdle
  PROVE  TypeOK'
<1>1. UNCHANGED <<next, prev, queue, visiting, event, props, property_triggers_enabled,
                  property_set_fd_init, ran>>
  BY DEF BecomeIdle, NothingOccurs, listVars, eventVars, propVars
<1>2. cur_action' = NoAction /\ cur_command' = 0 /\ pc' = "poll"
  BY DEF BecomeIdle, LoopAt
<1>3. cur_command' \in 0 .. (IF cur_action' = NoAction THEN 0 ELSE Len(Commands[cur_action']))
  BY <1>2
<1> QED
  BY <1>1, <1>2, <1>3 DEF TypeOK

LEMMA IdleStep ==
  ASSUME ListInv, BecomeIdle
  PROVE  /\ ListInv'
         /\ queue = <<>> /\ queue' = queue /\ cur_action' = NoAction /\ cur_command' = 0
<1>1. queue = <<>>
  BY FirstIsHead DEF BecomeIdle
<1>2. UNCHANGED <<next, prev, queue>> /\ cur_action' = NoAction /\ cur_command' = 0
  BY DEF BecomeIdle, listVars
<1>3. ListIsQueue'
  BY <1>2 DEF ListInv, ListIsQueue, NodeAt
<1> QED
  BY <1>1, <1>2, <1>3, IdleTypes DEF ListInv

LEMMA CommandTypes ==
  ASSUME TypeOK, NextCommand
  PROVE  TypeOK'
<1>1. UNCHANGED <<next, prev, queue, cur_action, ran>> /\ pc' = "poll"
      /\ cur_command' = cur_command + 1
  BY DEF NextCommand, LoopAt, listVars
<1>2. /\ cur_action \in Actions /\ cur_command \in 1 .. Len(Commands[cur_action]) - 1
      /\ Len(Commands[cur_action]) \in Nat
  BY ActionFacts DEF NextCommand, Finished, TypeOK
<1>3. Commands[cur_action][cur_command + 1] \in CommandSet
  BY <1>2, ActionFacts
<1>4. Execute(Commands[cur_action][cur_command + 1])
  BY DEF NextCommand
<1>5. cur_command' \in 0 .. (IF cur_action' = NoAction THEN 0 ELSE Len(Commands[cur_action']))
  BY <1>1, <1>2, ActionQueueAssumption
<1>6. /\ props' \in [Properties -> Values \cup {Unset}]
      /\ property_triggers_enabled' \in BOOLEAN /\ property_set_fd_init' \in BOOLEAN
      /\ visiting' \in Seq(Actions) /\ event' \in Events
  BY <1>3, <1>4, ExecuteType
<1> QED
  BY <1>1, <1>2, <1>5, <1>6 DEF TypeOK

LEMMA CommandStep ==
  ASSUME ListInv, NextCommand
  PROVE  /\ ListInv'
         /\ queue' = queue /\ cur_action' = cur_action /\ cur_command' = cur_command + 1
<1>1. UNCHANGED <<next, prev, queue, cur_action>> /\ cur_command' = cur_command + 1
  BY DEF NextCommand, listVars
<1>2. ListIsQueue'
  BY <1>1 DEF ListInv, ListIsQueue, NodeAt
<1> QED
  BY <1>1, <1>2, CommandTypes DEF ListInv

LEMMA SocketTypes ==
  ASSUME TypeOK, PollTimesOut \/ \E p \in Properties, v \in Values : ServeClient(p, v)
  PROVE  TypeOK'
<1>1. UNCHANGED <<next, prev, queue, cur_action, cur_command, ran>> /\ pc' = "execute"
  BY DEF PollTimesOut, ServeClient, LoopAt, listVars, propVars
<1>2. /\ props' \in [Properties -> Values \cup {Unset}]
      /\ property_triggers_enabled' \in BOOLEAN /\ property_set_fd_init' \in BOOLEAN
      /\ visiting' \in Seq(Actions) /\ event' \in Events
  <2>1. CASE PollTimesOut
    BY <2>1 DEF PollTimesOut, NothingOccurs, eventVars, propVars, TypeOK
  <2>2. ASSUME NEW p \in Properties, NEW v \in Values, ServeClient(p, v)
        PROVE  /\ props' \in [Properties -> Values \cup {Unset}]
               /\ property_triggers_enabled' \in BOOLEAN /\ property_set_fd_init' \in BOOLEAN
               /\ visiting' \in Seq(Actions) /\ event' \in Events
    <3>1. [kind |-> "property", name |-> p, value |-> v] \in Events
      BY DEF Events
    <3> QED
      BY <2>2, <3>1, ActionQueueAssumption DEF ServeClient, SetProperty, Occurs, NothingOccurs,
         eventVars, TypeOK
  <2> QED
    BY <2>1, <2>2
<1> QED
  BY <1>1, <1>2 DEF TypeOK

LEMMA SocketStep ==
  ASSUME ListInv, PollTimesOut \/ \E p \in Properties, v \in Values : ServeClient(p, v)
  PROVE  ListInv' /\ UNCHANGED <<queue, cur_action, cur_command>>
<1>1. UNCHANGED <<next, prev, queue, cur_action, cur_command>>
  BY DEF PollTimesOut, ServeClient, listVars
<1>2. ListIsQueue'
  BY <1>1 DEF ListInv, ListIsQueue, NodeAt
<1> QED
  BY <1>1, <1>2, SocketTypes DEF ListInv

LEMMA StepInv == ListInv /\ AppendsAreFresh /\ [Next]_vars => ListInv'
<1> SUFFICES ASSUME ListInv, AppendsAreFresh, [Next]_vars PROVE ListInv'
  OBVIOUS
<1>1. CASE VisitAction
  BY <1>1, VisitStep
<1>2. CASE TakeAction
  BY <1>2, TakeStep
<1>3. CASE BecomeIdle
  BY <1>3, IdleStep
<1>4. CASE NextCommand
  BY <1>4, CommandStep
<1>5. CASE PollTimesOut \/ \E p \in Properties, v \in Values : ServeClient(p, v)
  BY <1>5, SocketStep
<1>6. CASE UNCHANGED vars
  BY <1>6 DEF vars, listVars, eventVars, propVars, ListInv, TypeOK, ListIsQueue, NodeAt
<1> QED
  BY <1>1, <1>2, <1>3, <1>4, <1>5, <1>6 DEF Next

(* The pointers of action_queue form the documented queue in every reachable  *)
(* state, for every init.rc and whatever clients set, as long as nothing is   *)
(* appended twice.                                                            *)
THEOREM ListIsRight == Spec /\ []AppendsAreFresh => [](TypeOK /\ ListIsQueue)
<1>1. ListInv => TypeOK /\ ListIsQueue
  BY DEF ListInv
<1> QED
  BY <1>1, InitList, StepInv, PTL DEF Spec

-------------------------------------------------------------------------------
(* What stays true of the pointers when an action is appended twice.         *)

(* The nodes whose pointers were ever set point to each other, both ways.    *)
Hung == {n \in Nodes : next[n] # NULL}

PointersAreSet ==
  /\ HEAD \in Hung
  /\ \A n \in Hung : next[n] \in Hung /\ prev[n] \in Hung

PointerTypes ==
  next \in [Nodes -> Nodes \cup {NULL}] /\ prev \in [Nodes -> Nodes \cup {NULL}]

(* The new node and the one the head points back to are joined.             *)
LEMMA AddSets ==
  ASSUME PointerTypes, PointersAreSet, NEW a \in Actions, list_add_tail(a)
  PROVE  PointerTypes' /\ PointersAreSet'
<1>1. HEAD \in Nodes /\ a \in Nodes /\ HEAD # a /\ HEAD # NULL /\ a # NULL
  BY ActionQueueAssumption DEF Nodes
<1>2. prev[HEAD] \in Hung /\ prev[HEAD] \in Nodes
  BY DEF PointersAreSet, Hung
<1> DEFINE n1 == [next EXCEPT ![a] = HEAD]
           p1 == [prev EXCEPT ![a] = prev[HEAD]]
<1>3. /\ n1 \in [Nodes -> Nodes \cup {NULL}] /\ n1[a] = HEAD
      /\ \A x \in Nodes \ {a} : n1[x] = next[x]
  BY <1>1 DEF PointerTypes
<1>4. /\ p1 \in [Nodes -> Nodes \cup {NULL}] /\ p1[a] = prev[HEAD] /\ p1[HEAD] = prev[HEAD]
      /\ \A x \in Nodes \ {a} : p1[x] = prev[x]
  BY <1>1, <1>2 DEF PointerTypes
<1>5. next' = [n1 EXCEPT ![p1[HEAD]] = a] /\ prev' = [p1 EXCEPT ![HEAD] = a]
  BY DEF list_add_tail
<1> HIDE DEF n1, p1
<1>6. /\ PointerTypes'
      /\ next'[prev[HEAD]] = a /\ prev'[HEAD] = a
      /\ \A x \in Nodes \ {prev[HEAD]} : next'[x] = IF x = a THEN HEAD ELSE next[x]
      /\ \A x \in Nodes \ {HEAD} : prev'[x] = IF x = a THEN prev[HEAD] ELSE prev[x]
  BY <1>1, <1>2, <1>3, <1>4, <1>5 DEF PointerTypes
<1>7. Hung' = Hung \cup {a}
  BY <1>1, <1>2, <1>6 DEF Hung
<1> QED
  BY <1>1, <1>2, <1>6, <1>7 DEF PointersAreSet, Hung

(* The neighbours of the node taken out are joined.                          *)
LEMMA RemoveSets ==
  ASSUME PointerTypes, PointersAreSet, list_remove(next[HEAD])
  PROVE  PointerTypes' /\ PointersAreSet'
<1> DEFINE a == next[HEAD]
           p1 == [prev EXCEPT ![next[a]] = prev[a]]
<1>1. HEAD \in Nodes /\ NULL \notin Nodes
  BY ActionQueueAssumption DEF Nodes
<1>2. a \in Hung /\ next[a] \in Hung /\ prev[a] \in Hung
  BY DEF PointersAreSet
<1>3. a \in Nodes /\ next[a] \in Nodes /\ prev[a] \in Nodes
  BY <1>2 DEF Hung
<1>4. prev' = p1 /\ next' = [next EXCEPT ![p1[a]] = next[a]]
  BY DEF list_remove
<1>5. /\ p1 \in [Nodes -> Nodes \cup {NULL}]
      /\ \A x \in Nodes : p1[x] = prev[x] \/ p1[x] = prev[a]
  BY <1>3 DEF PointerTypes
<1>6. p1[a] \in Hung /\ p1[a] \in Nodes
  BY <1>2, <1>3, <1>5 DEF PointersAreSet
<1> HIDE DEF a, p1
<1>7. /\ PointerTypes'
      /\ \A x \in Nodes : next'[x] = next[x] \/ (x \in Hung /\ next'[x] = next[a])
  BY <1>3, <1>4, <1>5, <1>6 DEF PointerTypes
<1>8. Hung' = Hung
  BY <1>1, <1>3, <1>7 DEF Hung
<1> QED
  BY <1>2, <1>4, <1>5, <1>7, <1>8 DEF PointersAreSet, Hung

TypeInv == TypeOK /\ PointersAreSet

LEMMA VisitTypes ==
  ASSUME TypeInv, VisitAction
  PROVE  TypeInv'
<1>1. /\ Head(visiting) \in Actions /\ Tail(visiting) \in Seq(Actions)
      /\ PointerTypes /\ queue \in Seq(Actions)
  BY DEF TypeInv, TypeOK, VisitAction, PointerTypes
<1>2. PointerTypes' /\ PointersAreSet' /\ queue' \in Seq(Actions)
  <2>1. CASE Matches(Head(visiting), event)
    <3>1. list_add_tail(Head(visiting))
      BY <2>1 DEF VisitAction
    <3>2. queue' \in Seq(Actions)
      <4>1. \/ queue' = queue
            \/ queue' = Append(queue, Head(visiting))
        BY <2>1 DEF VisitAction
      <4>2. Append(queue, Head(visiting)) \in Seq(Actions)
        BY <1>1
      <4> QED
        BY <1>1, <4>1, <4>2
    <3> QED
      BY <1>1, <3>1, <3>2, AddSets DEF TypeInv
  <2>2. CASE ~Matches(Head(visiting), event)
    <3>1. UNCHANGED <<next, prev, queue>>
      BY <2>2 DEF VisitAction, listVars
    <3> QED
      BY <1>1, <3>1 DEF TypeInv, PointerTypes, PointersAreSet, Hung
  <2> QED
    BY <2>1, <2>2
<1> QED
  BY <1>1, <1>2 DEF TypeInv, TypeOK, VisitAction, PointerTypes, propVars

LEMMA TakeTypes ==
  ASSUME TypeInv, TakeAction
  PROVE  TypeInv'
<1> DEFINE a == next[HEAD]
<1>1. a \in Actions /\ PointerTypes
  <2>1. a \in Nodes /\ a # HEAD /\ PointerTypes
    BY DEF TypeInv, TypeOK, PointerTypes, PointersAreSet, Hung, TakeAction, list_empty
  <2> QED
    BY <2>1 DEF Nodes
<1>2. list_remove(next[HEAD])
  BY DEF TakeAction
<1>3. PointerTypes' /\ PointersAreSet'
  BY <1>1, <1>2, RemoveSets DEF TypeInv
<1>4. queue' \in Seq(Actions)
  BY DEF TakeAction, TypeInv, TypeOK
<1>5. /\ cur_action' = a /\ ran' = ran \cup {a} /\ pc' = "poll"
      /\ FirstCommand(a)
  BY DEF TakeAction, LoopAt
<1>6. cur_command' \in 0 .. Len(Commands[a])
  BY <1>1, <1>5, ActionFacts DEF FirstCommand
<1>7. /\ props' \in [Properties -> Values \cup {Unset}]
      /\ property_triggers_enabled' \in BOOLEAN /\ property_set_fd_init' \in BOOLEAN
      /\ visiting' \in Seq(Actions) /\ event' \in Events
  BY <1>1, <1>5, FirstTypes DEF TypeInv
<1>8. cur_action' # NoAction /\ cur_action' \in Actions
  BY <1>1, <1>5, ActionQueueAssumption
<1>9. cur_command' \in 0 .. (IF cur_action' = NoAction THEN 0 ELSE Len(Commands[cur_action']))
  BY <1>5, <1>6, <1>8
<1>10. ran' \subseteq Actions
  BY <1>1, <1>5 DEF TypeInv, TypeOK
<1> QED
  BY <1>3, <1>4, <1>5, <1>7, <1>8, <1>9, <1>10 DEF TypeInv, TypeOK, PointerTypes

LEMMA OtherTypes ==
  ASSUME TypeInv,
         \/ BecomeIdle \/ NextCommand \/ PollTimesOut \/ UNCHANGED vars
         \/ \E p \in Properties, v \in Values : ServeClient(p, v)
  PROVE  TypeInv'
<1>1. UNCHANGED <<next, prev, queue, ran>>
  BY DEF BecomeIdle, NextCommand, PollTimesOut, ServeClient, listVars, vars
<1>2. PointersAreSet'
  BY <1>1 DEF TypeInv, PointersAreSet, Hung
<1>3. TypeOK'
  <2>1. CASE BecomeIdle
    BY <2>1, IdleTypes DEF TypeInv
  <2>2. CASE NextCommand
    BY <2>2, CommandTypes DEF TypeInv
  <2>3. CASE PollTimesOut \/ \E p \in Properties, v \in Values : ServeClient(p, v)
    BY <2>3, SocketTypes DEF TypeInv
  <2>4. CASE UNCHANGED vars
    BY <2>4 DEF TypeInv, TypeOK, vars, listVars, eventVars, propVars
  <2> QED
    BY <2>1, <2>2, <2>3, <2>4
<1> QED
  BY <1>2, <1>3 DEF TypeInv

LEMMA TypesHold == Spec => []TypeInv
<1>1. Init => TypeInv
  <2> SUFFICES ASSUME Init PROVE TypeInv
    OBVIOUS
  <2>1. TypeOK
    BY InitList DEF ListInv
  <2>2. HEAD \in Nodes /\ NULL # HEAD
    BY ActionQueueAssumption DEF Nodes
  <2> QED
    BY <2>1, <2>2 DEF Init, TypeInv, PointersAreSet, Hung
<1>2. TypeInv /\ [Next]_vars => TypeInv'
  BY VisitTypes, TakeTypes, OtherTypes DEF Next
<1> QED
  BY <1>1, <1>2, PTL DEF Spec

(* The variables keep their types, whatever is appended twice: the walk only  *)
(* visits actions of the file, the running command is one of the current      *)
(* action's, and what the loop takes off the list is an action.               *)
THEOREM TypeCorrect == Spec => []TypeOK
<1>1. TypeInv => TypeOK
  BY DEF TypeInv
<1> QED
  BY <1>1, TypesHold, PTL

(* list_add_tail and list_remove (list.h) follow no null pointer: although an *)
(* action that is appended twice breaks the ring (init_parser.c:               *)
(* action_add_queue_tail does not ask), the pointers never leave the actions  *)
(* that were queued.                                                         *)
THEOREM NullIsNeverFollowed == Spec => []PointersAreSet
<1>1. TypeInv => PointersAreSet
  BY DEF TypeInv
<1> QED
  BY <1>1, TypesHold, PTL

(* readme.txt: then every step of the loop is a step of the documented queue  *)
(* or changes nothing there; actions run in order and commands are neither    *)
(* skipped nor repeated.                                                      *)
THEOREM QueueIsDocumented == Spec /\ []AppendsAreFresh => DocumentedQueue
<1>1. Init => Documented!FifoInit
  BY DEF Init, Documented!FifoInit
<1>2. ASSUME ListInv, AppendsAreFresh, [Next]_vars
      PROVE  [Documented!FifoNext]_<<queue, cur_action, cur_command>>
  <2> DEFINE count == [a \in Actions |-> Len(Commands[a])]
  <2>0. /\ cur_action # NoAction => cur_action \in Actions
        /\ queue \in Seq(Actions)
    BY <1>2 DEF ListInv, TypeOK
  <2>1. Finished <=> Documented!Finished
    BY <2>0 DEF Finished, Documented!Finished
  <2>2. CASE VisitAction
    <3>1. UNCHANGED <<cur_action, cur_command>>
      BY <2>2 DEF VisitAction
    <3>2. \/ queue' = queue
          \/ queue' = Append(queue, Head(visiting)) /\ Head(visiting) \in Actions \ Queued
      BY <1>2, <2>2, VisitStep
    <3>3. \A a \in Actions \ Queued :
            queue' = Append(queue, a) => Documented!Enqueue(a)
      BY <3>1 DEF Documented!Enqueue, Documented!Queued, Queued
    <3> QED
      BY <3>1, <3>2, <3>3 DEF Documented!FifoNext
  <2>3. CASE TakeAction
    <3>1. /\ queue # <<>> /\ queue' = Tail(queue)
          /\ cur_action' = Head(queue) /\ Head(queue) \in Actions
          /\ cur_command' = IF Len(Commands[Head(queue)]) = 0 THEN 0 ELSE 1
      BY <1>2, <2>3, TakeStep
    <3>2. Documented!Finished
      BY <2>1, <2>3 DEF TakeAction
    <3> QED
      BY <3>1, <3>2 DEF Documented!TakeAction, Documented!FifoNext
  <2>4. CASE BecomeIdle
    BY <1>2, <2>1, <2>4, IdleStep DEF BecomeIdle, Documented!BecomeIdle, Documented!FifoNext
  <2>5. CASE NextCommand
    BY <1>2, <2>1, <2>5, CommandStep DEF NextCommand, Documented!NextCommand, Documented!FifoNext
  <2>6. CASE PollTimesOut \/ \E p \in Properties, v \in Values : ServeClient(p, v)
    BY <1>2, <2>6, SocketStep
  <2>7. CASE UNCHANGED vars
    BY <2>7 DEF vars, listVars
  <2> QED
    BY <1>2, <2>2, <2>3, <2>4, <2>5, <2>6, <2>7 DEF Next
<1> QED
  BY <1>1, <1>2, InitList, StepInv, PTL DEF Spec, DocumentedQueue, Documented!FifoSpec, Documented!fifoVars

-------------------------------------------------------------------------------
(* No trigger is lost.                                                       *)

Known == ran \cup Queued

(* NoTriggerLost, for one action. *)
Live(a) == /\ Trigger[a].kind = "property"
           /\ props[Trigger[a].name] \in Values
           /\ Trigger[a].value \in {props[Trigger[a].name], AnyValue}
Caught(a) == \/ a \in Known
             \/ \E i \in DOMAIN visiting : visiting[i] = a /\ Matches(a, event)

LEMMA TriggerLostDef ==
  NoTriggerLost <=> (property_triggers_enabled => \A a \in Actions : Live(a) => Caught(a))
BY DEF NoTriggerLost, Live, Caught, Known

LEMMA TriggerName ==
  ASSUME NEW a \in Actions
  PROVE  Trigger[a].kind = "property" => Trigger[a].name \in Properties
<1>1. Trigger[a] \in Triggers
  BY ActionQueueAssumption
<1> QED
  BY <1>1 DEF Triggers

(* A property is set while no walk is under way: the actions on it are met by *)
(* the walk that begins, the others were caught before.                      *)
LEMMA SetCatches ==
  ASSUME ListInv, NoTriggerLost, visiting = <<>>, Known \subseteq Known',
         NEW p \in Properties, NEW v \in Values, SetProperty(p, v)
  PROVE  NoTriggerLost'
<1> SUFFICES ASSUME property_triggers_enabled', NEW a \in Actions, Live(a)'
             PROVE  Caught(a)'
  BY DEF NoTriggerLost, Live, Caught, Known
<1>1. /\ property_triggers_enabled /\ visiting' = ActionList
      /\ event' = [kind |-> "property", name |-> p, value |-> v]
      /\ props' = [props EXCEPT ![p] = v]
  BY DEF SetProperty, Occurs
<1>2. Trigger[a].kind = "property" /\ Trigger[a].name \in Properties
  BY TriggerName DEF Live
<1>3. CASE Trigger[a].name = p
  <2>1. props'[p] = v
    BY <1>1 DEF ListInv, TypeOK
  <2>2. Holds(Trigger[a], p, v)
    BY <1>2, <1>3, <2>1 DEF Live, Holds
  <2>3. Matches(a, event)'
    BY <1>1, <2>2 DEF Matches
  <2>4. \E i \in DOMAIN visiting' : visiting'[i] = a
    BY <1>1, ActionQueueAssumption
  <2> QED
    BY <2>3, <2>4 DEF Caught
<1>4. CASE Trigger[a].name # p
  <2>1. props'[Trigger[a].name] = props[Trigger[a].name]
    BY <1>1, <1>2, <1>4 DEF ListInv, TypeOK
  <2>2. Live(a)
    BY <2>1 DEF Live
  <2>3. a \in Known
    BY <1>1, <2>2 DEF NoTriggerLost, Live, Known
  <2> QED
    BY <2>3 DEF Caught
<1> QED
  BY <1>3, <1>4

LEMMA NothingCatches ==
  ASSUME NoTriggerLost, visiting = <<>>, Known \subseteq Known',
         UNCHANGED <<visiting, props, property_triggers_enabled>>
  PROVE  NoTriggerLost'
<1> SUFFICES ASSUME property_triggers_enabled', NEW a \in Actions, Live(a)'
             PROVE  Caught(a)'
  BY DEF NoTriggerLost, Live, Caught, Known
<1>1. a \in Known
  BY DEF NoTriggerLost, Live, Known
<1> QED
  BY <1>1 DEF Caught

LEMMA ExecuteCatches ==
  ASSUME ListInv, NoTriggerLost, visiting = <<>>, Known \subseteq Known',
         NEW c \in CommandSet, Execute(c)
  PROVE  NoTriggerLost'
<1>1. CASE c.cmd = "setprop"
  BY <1>1, CommandFacts, SetCatches DEF Execute
<1>2. CASE c.cmd = "queue_property_triggers"
  <2> SUFFICES ASSUME NEW a \in Actions, Live(a)'
               PROVE  Caught(a)'
    BY DEF NoTriggerLost, Live, Caught, Known
  <2>1. visiting' = ActionList /\ event' = [kind |-> "all"] /\ props' = props
    BY <1>2 DEF Execute, Occurs
  <2>2. HoldsNow(Trigger[a])'
    BY <2>1, ActionQueueAssumption DEF Live, HoldsNow
  <2>3. Matches(a, event)'
    BY <2>1, <2>2 DEF Matches
  <2>4. \E i \in DOMAIN visiting' : visiting'[i] = a
    BY <2>1, ActionQueueAssumption
  <2> QED
    BY <2>3, <2>4 DEF Caught
<1>3. CASE c.cmd \notin {"setprop", "queue_property_triggers"}
  <2>1. props' = props /\ property_triggers_enabled' = property_triggers_enabled
    BY <1>3 DEF Execute, propVars
  <2> QED
    BY <2>1 DEF NoTriggerLost, Known
<1> QED
  BY <1>1, <1>2, <1>3

LEMMA VisitCatches ==
  ASSUME ListInv, AppendsAreFresh, NoTriggerLost, VisitAction
  PROVE  NoTriggerLost'
<1> SUFFICES ASSUME property_triggers_enabled', NEW a \in Actions, Live(a)'
             PROVE  Caught(a)'
  BY DEF NoTriggerLost, Live, Caught, Known
<1>1. UNCHANGED <<event, props, property_triggers_enabled, ran>>
      /\ visiting # <<>> /\ visiting \in Seq(Actions) /\ visiting' = Tail(visiting)
  BY DEF VisitAction, propVars, ListInv, TypeOK
<1>2. Live(a) /\ Caught(a)
  BY <1>1, TriggerLostDef DEF Live
<1>3. Known \subseteq Known'
  <2>1. queue' = queue \/ queue' = Append(queue, Head(visiting))
    BY VisitStep
  <2>2. queue \in Seq(Actions) /\ Head(visiting) \in Actions
    BY <1>1 DEF ListInv, TypeOK
  <2>3. ASSUME NEW i \in DOMAIN queue
        PROVE  i \in DOMAIN queue' /\ queue'[i] = queue[i]
    <3>1. CASE queue' = queue
      BY <3>1
    <3>2. CASE queue' = Append(queue, Head(visiting))
      <4>1. i \in 1 .. Len(queue) /\ DOMAIN queue' = 1 .. Len(queue) + 1
        BY <2>2, <3>2
      <4> QED
        BY <2>2, <3>2, <4>1
    <3> QED
      BY <2>1, <3>1, <3>2
  <2>4. Queued \subseteq Queued'
    BY <2>3 DEF Queued
  <2>5. ran' = ran
    BY <1>1
  <2> QED
    BY <2>4, <2>5 DEF Known
<1>4. CASE a \in Known
  BY <1>3, <1>4 DEF Caught
<1>5. ASSUME NEW i \in DOMAIN visiting, visiting[i] = a, Matches(a, event)
      PROVE  Caught(a)'
  <2>1. Matches(a, event)'
    BY <1>1, <1>5 DEF Matches, HoldsNow, Holds
  <2>2. CASE i = 1
    <3>1. a = Head(visiting) /\ queue \in Seq(Actions)
      BY <1>1, <1>5, <2>2 DEF ListInv, TypeOK
    <3>2. queue' = IF a \in Queued THEN queue ELSE Append(queue, a)
      BY <3>1, <1>5 DEF VisitAction
    <3>3. a \in Queued'
      BY <3>1, <3>2 DEF Queued
    <3> QED
      BY <3>3 DEF Caught, Known
  <2>3. CASE i # 1
    <3>1. i - 1 \in DOMAIN visiting' /\ visiting'[i - 1] = a
      BY <1>1, <1>5, <2>3
    <3> QED
      BY <2>1, <3>1 DEF Caught
  <2> QED
    BY <2>2, <2>3
<1> QED
  BY <1>2, <1>4, <1>5 DEF Caught

LEMMA StepCatches == ListInv /\ AppendsAreFresh /\ NoTriggerLost /\ [Next]_vars => NoTriggerLost'
<1> SUFFICES ASSUME ListInv, AppendsAreFresh, NoTriggerLost, [Next]_vars PROVE NoTriggerLost'
  OBVIOUS
<1>1. CASE VisitAction
  BY <1>1, VisitCatches
<1>2. CASE TakeAction
  <2> DEFINE a == Head(queue)
  <2>1. /\ queue # <<>> /\ queue \in Seq(Actions) /\ queue' = Tail(queue) /\ a \in Actions
        /\ cur_action' = a
    BY <1>2, TakeStep DEF ListInv, TypeOK
  <2>2. ran' = ran \cup {a} /\ visiting = <<>> /\ next[HEAD] = a
    BY <1>2, <2>1 DEF TakeAction, LoopAt
  <2>3. Known \subseteq Known'
    <3>1. ASSUME NEW i \in DOMAIN queue
          PROVE  queue[i] \in Known'
      <4>1. CASE i = 1
        BY <2>1, <2>2, <4>1 DEF Known
      <4>2. CASE i # 1
        <5>1. i - 1 \in DOMAIN queue' /\ queue'[i - 1] = queue[i]
          BY <2>1, <3>1, <4>2
        <5> QED
          BY <5>1 DEF Known, Queued
      <4> QED
        BY <4>1, <4>2
    <3> QED
      BY <2>2, <3>1 DEF Known, Queued
  <2>4. CASE Commands[a] = <<>>
    <3>1. UNCHANGED <<visiting, props, property_triggers_enabled>>
      BY <1>2, <2>2, <2>4 DEF TakeAction, FirstCommand, NothingOccurs, eventVars, propVars
    <3> QED
      BY <2>2, <2>3, <3>1, NothingCatches
  <2>5. CASE Commands[a] # <<>>
    <3>1. Execute(Commands[a][1]) /\ Commands[a][1] \in CommandSet
      BY <1>2, <2>1, <2>2, <2>5, ActionFacts DEF TakeAction, FirstCommand
    <3> QED
      BY <2>2, <2>3, <3>1, ExecuteCatches
  <2> QED
    BY <2>4, <2>5
<1>3. CASE NextCommand
  <2>1. visiting = <<>> /\ Known' = Known
    BY <1>3 DEF NextCommand, LoopAt, listVars, Known, Queued
  <2>2. cur_action \in Actions /\ cur_command + 1 \in 1 .. Len(Commands[cur_action])
    BY <1>3, ActionFacts DEF NextCommand, Finished, ListInv, TypeOK
  <2>3. /\ Execute(Commands[cur_action][cur_command + 1])
        /\ Commands[cur_action][cur_command + 1] \in CommandSet
    BY <1>3, <2>2, ActionFacts DEF NextCommand
  <2> QED
    BY <2>1, <2>3, ExecuteCatches
<1>4. ASSUME NEW p \in Properties, NEW v \in Values, ServeClient(p, v)
      PROVE  NoTriggerLost'
  <2>1. visiting = <<>> /\ Known' = Known
    BY <1>4 DEF ServeClient, LoopAt, listVars, Known, Queued
  <2> QED
    BY <1>4, <2>1, SetCatches DEF ServeClient
<1>5. CASE BecomeIdle \/ PollTimesOut \/ UNCHANGED vars
  <2>1. UNCHANGED <<visiting, event, props, property_triggers_enabled, queue, ran>>
    BY <1>5 DEF BecomeIdle, PollTimesOut, vars, listVars, eventVars, propVars, NothingOccurs
  <2>2. \A a : Matches(a, event)' <=> Matches(a, event)
    BY <2>1 DEF Matches, Holds, HoldsNow
  <2>3. Known' = Known
    BY <2>1 DEF Known, Queued
  <2> QED
    BY <2>1, <2>2, <2>3 DEF NoTriggerLost, Known
<1> QED
  BY <1>1, <1>2, <1>3, <1>4, <1>5 DEF Next

(* Nothing falls between the boot sequence, which sets properties without     *)
(* triggering, and queue_property_triggers_action, which looks at all of them *)
(* and then enables the triggers, for every init.rc.                          *)
THEOREM TriggersAreCaught == Spec /\ []AppendsAreFresh => []NoTriggerLost
<1>1. Init => NoTriggerLost
  BY DEF Init, NoTriggerLost
<1> QED
  BY <1>1, InitList, StepInv, StepCatches, PTL DEF Spec
-------------------------------------------------------------------------------
(* Nothing is appended that is on the list, if the file sets off nothing     *)
(* twice and clients set no property a queued action waits for.              *)

Meets(i) == Matches(visiting[i], event)

(* The rest of the walk meets no action twice, and none that matches is on    *)
(* the list.                                                                 *)
WalkIsFresh ==
  /\ \A i, j \in DOMAIN visiting : visiting[i] = visiting[j] => i = j
  /\ \A i \in DOMAIN visiting : Meets(i) => visiting[i] \notin Queued

(* Where the walk under way comes from.                                      *)
BootWalk ==
  /\ cur_action = NoAction /\ ~property_triggers_enabled
  /\ Len(queue) + Len(visiting) = Len(Boot)
  /\ \A i \in DOMAIN queue : queue[i] = Boot[i]
  /\ \A i \in DOMAIN visiting : visiting[i] = Boot[Len(queue) + i]
TriggerWalk ==
  /\ cur_action # NoAction /\ cur_command \in DOMAIN Commands[cur_action]
  /\ \A i \in DOMAIN visiting : Meets(i) =>
       Causes(cur_action, cur_command, visiting[i]) /\ cur_action \notin Queued
WalkOrigin ==
  visiting # <<>> =>
    /\ event.kind = "boot" => BootWalk
    /\ event.kind = "trigger" => TriggerWalk
    /\ event.kind \in {"property", "all"} => property_triggers_enabled

(* A queued action is never behind one that triggers it, waits for no        *)
(* property before the triggers are enabled, and the boot sequence keeps its *)
(* order.                                                                    *)
QueueOrder ==
  /\ \A i, j \in DOMAIN queue : i < j =>
       \A m \in DOMAIN Commands[queue[i]] : ~Causes(queue[i], m, queue[j])
  /\ ~property_triggers_enabled =>
       \A i \in DOMAIN queue : Trigger[queue[i]].kind # "property"
  /\ \A i, j \in DOMAIN queue : i < j =>
       \A l, m \in DOMAIN Boot : l < m => ~(queue[i] = Boot[m] /\ queue[j] = Boot[l])

(* What the action being executed is still to trigger is not on the list,    *)
(* nor is that action itself if a command triggered it.                      *)
CurrentIsFresh ==
  cur_action # NoAction =>
    /\ \A m \in DOMAIN Commands[cur_action] : m > cur_command =>
         \A b \in Actions : Causes(cur_action, m, b) => b \notin Queued
    /\ Trigger[cur_action].kind = "trigger" => cur_action \notin Queued

(* Once the triggers are enabled the boot sequence is done up to there.      *)
BootIsDone(k) ==
  property_triggers_enabled =>
    \A l \in DOMAIN Boot : l <= k => Boot[l] \notin Queued /\ (cur_action = Boot[l] => l = k)

FreshInv(k) == ListInv /\ WalkIsFresh /\ WalkOrigin /\ QueueOrder /\ CurrentIsFresh /\ BootIsDone(k)

LEMMA FreshIsFresh == WalkIsFresh /\ TypeOK => AppendsAreFresh
<1> SUFFICES ASSUME WalkIsFresh, TypeOK, visiting # <<>>, Matches(Head(visiting), event)
             PROVE  Head(visiting) \notin Queued
  BY DEF AppendsAreFresh
<1>1. 1 \in DOMAIN visiting /\ Head(visiting) = visiting[1]
  BY DEF TypeOK
<1> QED
  BY <1>1 DEF WalkIsFresh, Meets

(* An event of a kind only meets actions with a trigger of that kind.        *)
LEMMA MatchKinds ==
  ASSUME NEW b \in Actions, Matches(b, event), event.kind # "boot", event \in Events
  PROVE  /\ event.kind = "trigger" => Trigger[b].kind = "trigger" /\ Trigger[b].name = event.name
         /\ event.kind \in {"property", "all"} => Trigger[b].kind = "property"
         /\ event.kind \in {"trigger", "property", "all"}
BY DEF Matches, Holds, HoldsNow, Events

LEMMA OnlyTriggersAreCaused ==
  ASSUME NEW a, NEW i, NEW b, Causes(a, i, b)
  PROVE  Trigger[b].kind # "property"
BY DEF Causes

(* What SetOffOnce says of the cause of an action.                           *)
LEMMA TheCause ==
  ASSUME NEW k, SetOffOnce(k), NEW a \in Actions, NEW i \in DOMAIN Commands[a],
         NEW b \in Actions, Causes(a, i, b)
  PROVE  /\ a # b /\ \A l \in DOMAIN Boot : Boot[l] # b
         /\ i = 1 \/ Trigger[a].kind = "trigger"
         /\ \A c \in Actions : \A j \in DOMAIN Commands[c] : Causes(c, j, b) => c = a /\ j = i
BY DEF SetOffOnce

(* The action the walk appends, and why it may: by the boot sequence, by the  *)
(* command being executed, or by a property.                                 *)
Appended(b) ==
  \/ /\ event.kind = "boot" /\ BootWalk /\ b = Boot[Len(queue) + 1]
     /\ Len(queue) + 1 \in DOMAIN Boot
  \/ /\ cur_action \in Actions \ Queued /\ cur_command \in DOMAIN Commands[cur_action]
     /\ Causes(cur_action, cur_command, b)
  \/ property_triggers_enabled /\ Trigger[b].kind = "property"

LEMMA AppendedFacts ==
  ASSUME NEW k, SetOffOnce(k), FreshInv(k), VisitAction, Matches(Head(visiting), event)
  PROVE  /\ Head(visiting) \in Actions /\ Head(visiting) \notin Queued
         /\ queue' = Append(queue, Head(visiting))
         /\ Appended(Head(visiting))
<1> DEFINE b == Head(visiting)
<1>1. /\ visiting # <<>> /\ visiting \in Seq(Actions) /\ queue \in Seq(Actions) /\ event \in Events
      /\ cur_action \in Actions \cup {NoAction} /\ Boot \in Seq(Actions)
  BY ActionQueueAssumption DEF FreshInv, ListInv, TypeOK, VisitAction
<1>2. 1 \in DOMAIN visiting /\ b = visiting[1] /\ b \in Actions /\ Len(visiting) \in Nat /\ Len(visiting) >= 1
      /\ Len(queue) \in Nat /\ Len(Boot) \in Nat
  BY <1>1
<1>3. b \notin Queued
  BY <1>2 DEF FreshInv, WalkIsFresh, Meets
<1>4. queue' = Append(queue, b)
  BY <1>3 DEF VisitAction
<1>5. Appended(b)
  <2>1. CASE event.kind = "boot"
    <3>1. BootWalk
      BY <1>1, <2>1 DEF FreshInv, WalkOrigin
    <3>2. b = Boot[Len(queue) + 1] /\ Len(queue) + Len(visiting) = Len(Boot)
      BY <1>2, <3>1 DEF BootWalk
    <3>3. Len(queue) + 1 \in DOMAIN Boot
      BY <1>1, <1>2, <3>2
    <3> QED
      BY <2>1, <3>1, <3>2, <3>3 DEF Appended
  <2>2. CASE event.kind = "trigger"
    <3>1. TriggerWalk
      BY <1>1, <2>2 DEF FreshInv, WalkOrigin
    <3>2. Causes(cur_action, cur_command, b) /\ cur_action \notin Queued
      BY <1>2, <3>1 DEF TriggerWalk, Meets
    <3> QED
      BY <1>1, <3>1, <3>2 DEF TriggerWalk, Appended
  <2>3. CASE event.kind \in {"property", "all"}
    <3>1. Trigger[b].kind = "property"
      BY <1>1, <1>2, <2>3, MatchKinds
    <3>2. property_triggers_enabled
      BY <1>1, <2>3 DEF FreshInv, WalkOrigin
    <3> QED
      BY <3>1, <3>2 DEF Appended
  <2> QED
    BY <1>1, <2>1, <2>2, <2>3 DEF Events
<1> QED
  BY <1>2, <1>3, <1>4, <1>5

LEMMA AppendSeq ==
  ASSUME NEW q \in Seq(Actions), NEW b \in Actions
  PROVE  /\ Len(q) \in Nat /\ DOMAIN q = 1 .. Len(q)
         /\ Append(q, b) \in Seq(Actions) /\ Len(Append(q, b)) = Len(q) + 1
         /\ DOMAIN Append(q, b) = 1 .. Len(q) + 1
         /\ \A i \in 1 .. Len(q) : Append(q, b)[i] = q[i]
         /\ Append(q, b)[Len(q) + 1] = b
OBVIOUS

LEMMA TailSeq ==
  ASSUME NEW q \in Seq(Actions), q # <<>>
  PROVE  /\ Len(q) \in Nat /\ Len(q) >= 1 /\ DOMAIN q = 1 .. Len(q) /\ Head(q) = q[1]
         /\ Head(q) \in Actions
         /\ Tail(q) \in Seq(Actions) /\ Len(Tail(q)) = Len(q) - 1
         /\ DOMAIN Tail(q) = 1 .. Len(q) - 1
         /\ \A i \in 1 .. Len(q) - 1 : Tail(q)[i] = q[i + 1]
OBVIOUS

LEMMA AppendQueueOrder ==
  ASSUME NEW k, SetOffOnce(k), FreshInv(k), NEW b \in Actions, b \notin Queued, Appended(b),
         queue' = Append(queue, b), property_triggers_enabled' = property_triggers_enabled
  PROVE  QueueOrder'
<1> DEFINE n == Len(queue)
<1>1. /\ queue \in Seq(Actions) /\ Boot \in Seq(Actions) /\ n \in Nat /\ DOMAIN queue = 1 .. n
      /\ DOMAIN queue' = 1 .. n + 1 /\ queue'[n + 1] = b
      /\ \A i \in 1 .. n : queue'[i] = queue[i] /\ queue[i] \in Actions
  BY ActionQueueAssumption, AppendSeq DEF FreshInv, ListInv, TypeOK
<1>2. \A i \in 1 .. n : queue[i] \in Queued
  BY <1>1 DEF Queued
<1>3. ASSUME NEW i \in 1 .. n, NEW m \in DOMAIN Commands[queue[i]]
      PROVE  ~Causes(queue[i], m, b)
  <2> SUFFICES ASSUME Causes(queue[i], m, b) PROVE FALSE
    OBVIOUS
  <2>1. queue[i] \in Actions
    BY <1>1
  <2>2. CASE b = Boot[n + 1] /\ n + 1 \in DOMAIN Boot
    BY <2>1, <2>2, TheCause
  <2>3. CASE /\ cur_action \in Actions \ Queued /\ cur_command \in DOMAIN Commands[cur_action]
             /\ Causes(cur_action, cur_command, b)
    <3>1. queue[i] = cur_action
      BY <2>1, <2>3, TheCause
    <3> QED
      BY <1>2, <2>3, <3>1
  <2>4. CASE Trigger[b].kind = "property"
    BY <2>4, OnlyTriggersAreCaused
  <2> QED
    BY <2>2, <2>3, <2>4 DEF Appended
<1>4. ASSUME ~property_triggers_enabled
      PROVE  Trigger[b].kind # "property"
  <2>1. CASE b = Boot[n + 1] /\ n + 1 \in DOMAIN Boot
    BY <2>1 DEF SetOffOnce
  <2>2. CASE Causes(cur_action, cur_command, b)
    BY <2>2, OnlyTriggersAreCaused
  <2> QED
    BY <1>4, <2>1, <2>2 DEF Appended
<1>5. ASSUME NEW i \in 1 .. n, NEW l \in DOMAIN Boot, NEW m \in DOMAIN Boot, l < m,
             queue[i] = Boot[m], b = Boot[l]
      PROVE  FALSE
  <2>1. CASE event.kind = "boot" /\ BootWalk /\ b = Boot[n + 1] /\ n + 1 \in DOMAIN Boot
    <3>1. queue[i] = Boot[i] /\ i \in DOMAIN Boot
      BY <1>1, <2>1 DEF BootWalk
    <3>2. m = i /\ l = n + 1
      BY <1>5, <2>1, <3>1 DEF SetOffOnce
    <3> QED
      BY <1>1, <1>5, <3>2
  <2>2. CASE /\ cur_action \in Actions \ Queued /\ cur_command \in DOMAIN Commands[cur_action]
             /\ Causes(cur_action, cur_command, b)
    BY <1>5, <2>2, TheCause
  <2>3. CASE Trigger[b].kind = "property"
    BY <1>5, <2>3 DEF SetOffOnce
  <2> QED
    BY <2>1, <2>2, <2>3 DEF Appended
<1>6. \A i, j \in DOMAIN queue' : i < j =>
        /\ i \in 1 .. n /\ queue'[i] = queue[i]
        /\ (j \in 1 .. n /\ queue'[j] = queue[j]) \/ (j = n + 1 /\ queue'[j] = b)
  BY <1>1
<1>7. ASSUME NEW i \in DOMAIN queue', NEW j \in DOMAIN queue', i < j
      PROVE  /\ \A m \in DOMAIN Commands[queue'[i]] : ~Causes(queue'[i], m, queue'[j])
             /\ \A l, m \in DOMAIN Boot : l < m => ~(queue'[i] = Boot[m] /\ queue'[j] = Boot[l])
  <2>0. i \in 1 .. n /\ queue'[i] = queue[i]
    BY <1>6, <1>7
  <2>1. CASE j \in 1 .. n /\ queue'[j] = queue[j]
    BY <1>1, <1>7, <2>0, <2>1 DEF FreshInv, QueueOrder
  <2>2. CASE j = n + 1 /\ queue'[j] = b
    BY <1>3, <1>5, <2>0, <2>2
  <2> QED
    BY <1>6, <1>7, <2>1, <2>2
<1>8. ASSUME ~property_triggers_enabled', NEW i \in DOMAIN queue'
      PROVE  Trigger[queue'[i]].kind # "property"
  <2>1. CASE i \in 1 .. n
    BY <1>1, <1>8, <2>1 DEF FreshInv, QueueOrder
  <2>2. CASE i = n + 1
    BY <1>1, <1>4, <1>8, <2>2
  <2> QED
    BY <1>1, <1>8, <2>1, <2>2
<1>9. /\ \A i, j \in DOMAIN queue' : i < j =>
           \A m \in DOMAIN Commands[queue'[i]] : ~Causes(queue'[i], m, queue'[j])
      /\ \A i, j \in DOMAIN queue' : i < j =>
           \A l, m \in DOMAIN Boot : l < m => ~(queue'[i] = Boot[m] /\ queue'[j] = Boot[l])
  BY <1>7
<1> QED
  BY <1>8, <1>9 DEF QueueOrder, Causes

LEMMA AppendCurrent ==
  ASSUME NEW k, SetOffOnce(k), FreshInv(k), NEW b \in Actions, Appended(b),
         Queued' = Queued \cup {b}, UNCHANGED <<cur_action, cur_command, property_triggers_enabled>>
  PROVE  CurrentIsFresh' /\ BootIsDone(k)'
<1>0. cur_action \in Actions \cup {NoAction} /\ NoAction \notin Actions
  BY ActionQueueAssumption DEF FreshInv, ListInv, TypeOK
<1>1. ASSUME cur_action # NoAction, NEW m \in DOMAIN Commands[cur_action], m > cur_command,
             Causes(cur_action, m, b)
      PROVE  FALSE
  <2>1. CASE cur_action = NoAction
    BY <1>1, <2>1
  <2>2. CASE cur_command \in DOMAIN Commands[cur_action] /\ Causes(cur_action, cur_command, b)
    <3>1. m = cur_command /\ cur_command \in Nat
      BY <1>0, <1>1, <2>2, TheCause, ActionFacts
    <3> QED
      BY <1>1, <3>1
  <2>3. CASE Trigger[b].kind = "property"
    BY <1>1, <2>3, OnlyTriggersAreCaused
  <2> QED
    BY <2>1, <2>2, <2>3 DEF Appended, BootWalk
<1>2. ASSUME cur_action # NoAction, Trigger[cur_action].kind = "trigger"
      PROVE  cur_action # b
  <2>1. CASE cur_command \in DOMAIN Commands[cur_action] /\ Causes(cur_action, cur_command, b)
    BY <1>0, <1>2, <2>1, TheCause
  <2> QED
    BY <1>2, <2>1 DEF Appended, BootWalk
<1>3. ASSUME property_triggers_enabled, NEW l \in DOMAIN Boot
      PROVE  Boot[l] # b
  <2>1. CASE /\ cur_action \in Actions /\ cur_command \in DOMAIN Commands[cur_action]
             /\ Causes(cur_action, cur_command, b)
    BY <2>1, TheCause
  <2>2. CASE Trigger[b].kind = "property"
    BY <2>2 DEF SetOffOnce
  <2> QED
    BY <1>3, <2>1, <2>2 DEF Appended, BootWalk
<1>4. CurrentIsFresh'
  <2> SUFFICES ASSUME cur_action # NoAction
               PROVE  /\ \A m \in DOMAIN Commands[cur_action] : m > cur_command =>
                           \A x \in Actions : Causes(cur_action, m, x) => x \notin Queued'
                      /\ Trigger[cur_action].kind = "trigger" => cur_action \notin Queued'
    BY DEF CurrentIsFresh, Causes
  <2>1. /\ \A m \in DOMAIN Commands[cur_action] : m > cur_command =>
             \A x \in Actions : Causes(cur_action, m, x) => x \notin Queued
        /\ Trigger[cur_action].kind = "trigger" => cur_action \notin Queued
    BY DEF FreshInv, CurrentIsFresh
  <2>2. /\ \A m \in DOMAIN Commands[cur_action] : m > cur_command => ~Causes(cur_action, m, b)
        /\ Trigger[cur_action].kind = "trigger" => cur_action # b
    BY <1>1, <1>2
  <2> QED
    BY <2>1, <2>2
<1>5. BootIsDone(k)'
  BY <1>3 DEF FreshInv, BootIsDone
<1> QED
  BY <1>4, <1>5

LEMMA VisitFresh ==
  ASSUME NEW k, SetOffOnce(k), FreshInv(k), VisitAction
  PROVE  FreshInv(k)'
<1> DEFINE b == Head(visiting)
<1>1. /\ visiting # <<>> /\ visiting \in Seq(Actions) /\ visiting' = Tail(visiting) /\ event' = event
      /\ queue \in Seq(Actions) /\ event \in Events
      /\ UNCHANGED <<cur_action, cur_command, property_triggers_enabled, props>>
  BY DEF FreshInv, ListInv, TypeOK, VisitAction, propVars
<1>2. /\ Len(visiting) \in Nat /\ Len(visiting) >= 1 /\ DOMAIN visiting = 1 .. Len(visiting)
      /\ b = visiting[1] /\ b \in Actions
      /\ Len(visiting') = Len(visiting) - 1 /\ DOMAIN visiting' = 1 .. Len(visiting) - 1
      /\ \A i \in 1 .. Len(visiting) - 1 : visiting'[i] = visiting[i + 1]
  BY <1>1, TailSeq
<1>3. ListInv'
  BY FreshIsFresh, VisitStep DEF FreshInv, ListInv
<1>4. \A i \in DOMAIN visiting' : Meets(i)' <=> Meets(i + 1)
  BY <1>1, <1>2 DEF Meets, Matches, Holds, HoldsNow
<1>5. CASE Matches(b, event)
  <2>1. b \notin Queued /\ queue' = Append(queue, b) /\ Appended(b)
    BY <1>5, AppendedFacts
  <2>2. /\ Len(queue) \in Nat /\ DOMAIN queue = 1 .. Len(queue)
        /\ Len(queue') = Len(queue) + 1 /\ DOMAIN queue' = 1 .. Len(queue) + 1
        /\ \A i \in 1 .. Len(queue) : queue'[i] = queue[i]
        /\ queue'[Len(queue) + 1] = b
    BY <1>1, <1>2, <2>1, AppendSeq
  <2>3. Queued' = Queued \cup {b}
    <3>1. ASSUME NEW x
          PROVE  x \in Queued' <=> x \in Queued \cup {b}
      <4>1. x \in Queued' <=> \E i \in 1 .. Len(queue) + 1 : queue'[i] = x
        BY <2>2 DEF Queued
      <4>2. x \in Queued <=> \E i \in 1 .. Len(queue) : queue[i] = x
        BY <2>2 DEF Queued
      <4> QED
        BY <2>2, <4>1, <4>2
    <3> QED
      BY <3>1
  <2>4. QueueOrder'
    BY <1>1, <1>2, <2>1, AppendQueueOrder
  <2>5. CurrentIsFresh' /\ BootIsDone(k)'
    BY <1>1, <1>2, <2>1, <2>3, AppendCurrent
  <2>6. WalkIsFresh'
    <3>1. \A i \in DOMAIN visiting' :
            i + 1 \in DOMAIN visiting /\ visiting'[i] = visiting[i + 1] /\ visiting[i + 1] # b
      BY <1>2 DEF FreshInv, WalkIsFresh
    <3>2. \A i, j \in DOMAIN visiting' : visiting'[i] = visiting'[j] => i = j
      <4> SUFFICES ASSUME NEW i \in DOMAIN visiting', NEW j \in DOMAIN visiting',
                          visiting'[i] = visiting'[j]
                   PROVE  i = j
        OBVIOUS
      <4>1. i + 1 = j + 1
        BY <3>1 DEF FreshInv, WalkIsFresh
      <4> QED
        BY <1>2, <4>1
    <3>3. \A i \in DOMAIN visiting' : Meets(i)' => visiting'[i] \notin Queued'
      <4> SUFFICES ASSUME NEW i \in DOMAIN visiting', Meets(i)'
                   PROVE  visiting'[i] \notin Queued'
        OBVIOUS
      <4>1. Meets(i + 1)
        BY <1>4
      <4> QED
        BY <2>3, <3>1, <4>1 DEF FreshInv, WalkIsFresh
    <3> QED
      BY <3>2, <3>3 DEF WalkIsFresh
  <2>7. WalkOrigin'
    <3> SUFFICES ASSUME visiting' # <<>>
                 PROVE  /\ event.kind = "boot" => BootWalk'
                        /\ event.kind = "trigger" => TriggerWalk'
                        /\ event.kind \in {"property", "all"} => property_triggers_enabled
      BY <1>1 DEF WalkOrigin
    <3>1. /\ event.kind = "boot" => BootWalk
          /\ event.kind = "trigger" => TriggerWalk
          /\ event.kind \in {"property", "all"} => property_triggers_enabled
      BY <1>1 DEF FreshInv, WalkOrigin
    <3>2. ASSUME BootWalk PROVE BootWalk'
      <4>1. /\ Len(queue) + Len(visiting) = Len(Boot)
            /\ \A i \in DOMAIN queue : queue[i] = Boot[i]
            /\ \A i \in DOMAIN visiting : visiting[i] = Boot[Len(queue) + i]
        BY <3>2 DEF BootWalk
      <4>2. Len(queue') + Len(visiting') = Len(Boot)
        <5>1. /\ Len(queue') = Len(queue) + 1 /\ Len(visiting') = Len(visiting) - 1
              /\ Len(queue) \in Nat /\ Len(visiting) \in Nat
          BY <1>2, <2>2
        <5>2. Len(queue) + Len(visiting) = Len(Boot)
          BY <4>1
        <5> QED
          BY <5>1, <5>2
      <4>3. \A i \in DOMAIN queue' : queue'[i] = Boot[i]
        <5>1. 1 \in DOMAIN visiting /\ visiting[1] = b
          BY <1>2
        <5>2. queue'[Len(queue) + 1] = Boot[Len(queue) + 1]
          BY <2>2, <4>1, <5>1
        <5>3. \A i \in 1 .. Len(queue) : queue'[i] = Boot[i]
          BY <2>2, <4>1
        <5>4. \A i \in DOMAIN queue' : i \in 1 .. Len(queue) \/ i = Len(queue) + 1
          BY <2>2
        <5> QED
          BY <5>2, <5>3, <5>4
      <4>4. ASSUME NEW i \in DOMAIN visiting'
            PROVE  visiting'[i] = Boot[Len(queue') + i]
        <5>1. i + 1 \in DOMAIN visiting /\ visiting'[i] = visiting[i + 1] /\ i \in Nat
          BY <1>2
        <5>2. Len(queue) + (i + 1) = Len(queue') + i
          BY <2>2, <5>1
        <5> QED
          BY <4>1, <5>1, <5>2
      <4> QED
        BY <1>1, <3>2, <4>2, <4>3, <4>4 DEF BootWalk
    <3>3. ASSUME TriggerWalk, event.kind = "trigger" PROVE TriggerWalk'
      <4>1. Causes(cur_action, cur_command, b) /\ cur_action \notin Queued
        BY <1>2, <1>5, <3>3 DEF TriggerWalk, Meets
      <4>2. cur_action # b
        <5>1. cur_action \in Actions /\ cur_command \in DOMAIN Commands[cur_action]
          BY <3>3 DEF FreshInv, ListInv, TypeOK, TriggerWalk
        <5> QED
          BY <1>2, <4>1, <5>1, TheCause
      <4>3. \A i \in DOMAIN visiting' : i + 1 \in DOMAIN visiting /\ visiting'[i] = visiting[i + 1]
        BY <1>2
      <4>4. ASSUME NEW i \in DOMAIN visiting', Meets(i)'
            PROVE  Causes(cur_action, cur_command, visiting'[i]) /\ cur_action \notin Queued'
        <5>1. Meets(i + 1)
          BY <1>4, <4>4
        <5> QED
          BY <2>3, <3>3, <4>2, <4>3, <5>1 DEF TriggerWalk
      <4> QED
        BY <1>1, <3>3, <4>4 DEF TriggerWalk
    <3> QED
      BY <3>1, <3>2, <3>3
  <2> QED
    BY <1>3, <2>4, <2>5, <2>6, <2>7 DEF FreshInv
<1>6. CASE ~Matches(b, event)
  <2>1. queue' = queue /\ Queued' = Queued
    BY <1>6 DEF VisitAction, listVars, Queued
  <2>2. QueueOrder' /\ CurrentIsFresh' /\ BootIsDone(k)'
    BY <1>1, <2>1 DEF FreshInv, QueueOrder, CurrentIsFresh, BootIsDone, Causes
  <2>3. \A i \in DOMAIN visiting' : i + 1 \in DOMAIN visiting /\ visiting'[i] = visiting[i + 1]
    BY <1>2
  <2>4. \A i \in DOMAIN visiting' : Meets(i)' => Meets(i + 1)
    BY <1>4
  <2>5. WalkIsFresh'
    <3>1. \A i, j \in DOMAIN visiting' : visiting'[i] = visiting'[j] => i = j
      <4> SUFFICES ASSUME NEW i \in DOMAIN visiting', NEW j \in DOMAIN visiting',
                          visiting'[i] = visiting'[j]
                   PROVE  i = j
        OBVIOUS
      <4>1. i + 1 = j + 1
        BY <2>3 DEF FreshInv, WalkIsFresh
      <4> QED
        BY <1>2, <4>1
    <3>2. \A i \in DOMAIN visiting' : Meets(i)' => visiting'[i] \notin Queued'
      BY <2>1, <2>3, <2>4 DEF FreshInv, WalkIsFresh
    <3> QED
      BY <3>1, <3>2 DEF WalkIsFresh
  <2>6. event.kind # "boot"
    BY <1>6 DEF Matches
  <2>7. WalkOrigin'
    <3>1. /\ event.kind = "trigger" => TriggerWalk
          /\ event.kind \in {"property", "all"} => property_triggers_enabled
      BY <1>1 DEF FreshInv, WalkOrigin
    <3>2. ASSUME TriggerWalk PROVE TriggerWalk'
      <4>1. \A i \in DOMAIN visiting' : Meets(i)' =>
              Causes(cur_action, cur_command, visiting'[i]) /\ cur_action \notin Queued'
        BY <2>1, <2>3, <2>4, <3>2 DEF TriggerWalk
      <4> QED
        BY <1>1, <3>2, <4>1 DEF TriggerWalk
    <3> QED
      BY <1>1, <2>6, <3>1, <3>2 DEF WalkOrigin
  <2> QED
    BY <1>3, <2>2, <2>5, <2>7 DEF FreshInv
<1> QED
  BY <1>5, <1>6

(* A walk begins only when the list holds nothing it matches.                *)
LEMMA ExecuteWalk ==
  ASSUME NEW k, SetOffOnce(k), TypeOK, visiting = <<>>,
         NEW a \in Actions, NEW j \in 1 .. Len(Commands[a]), Execute(Commands[a][j]),
         cur_action' = a, cur_command' = j,
         \A b \in Actions : Causes(a, j, b) => b \notin Queued' /\ a \notin Queued',
         Commands[a][j].cmd = "setprop" /\ property_triggers_enabled =>
           \A b \in Actions : ~Holds(Trigger[b], Commands[a][j].name, Commands[a][j].value),
         Commands[a][j].cmd = "queue_property_triggers" =>
           \A b \in Queued' : Trigger[b].kind # "property"
  PROVE  WalkIsFresh' /\ WalkOrigin'
<1> DEFINE c == Commands[a][j]
<1>1. c \in CommandSet /\ a # NoAction /\ j \in DOMAIN Commands[a]
  BY ActionFacts, ActionQueueAssumption
<1>2. ActionList \in Seq(Actions) /\ \A i \in DOMAIN ActionList : ActionList[i] \in Actions
  BY ActionQueueAssumption
<1>3. ASSUME visiting' = ActionList,
             \A b \in Actions : Matches(b, event)' => b \notin Queued'
      PROVE  WalkIsFresh'
  <2>1. \A i, l \in DOMAIN visiting' : visiting'[i] = visiting'[l] => i = l
    BY <1>3 DEF SetOffOnce
  <2>2. \A i \in DOMAIN visiting' : Meets(i)' => visiting'[i] \notin Queued'
    BY <1>2, <1>3 DEF Meets
  <2> QED
    BY <2>1, <2>2 DEF WalkIsFresh
<1>4. CASE c.cmd = "setprop" /\ property_triggers_enabled
  <2>1. /\ visiting' = ActionList /\ event' = [kind |-> "property", name |-> c.name, value |-> c.value]
        /\ property_triggers_enabled'
    BY <1>4 DEF Execute, SetProperty, Occurs
  <2>2. \A b \in Actions : ~Matches(b, event)'
    BY <1>4, <2>1 DEF Matches
  <2> QED
    BY <1>3, <2>1, <2>2 DEF WalkOrigin
<1>5. CASE c.cmd = "trigger"
  <2>1. visiting' = ActionList /\ event' = [kind |-> "trigger", name |-> c.name]
    BY <1>5 DEF Execute, Occurs
  <2>2. \A b \in Actions : Matches(b, event)' => Causes(a, j, b)
    BY <1>5, <2>1 DEF Matches, Causes
  <2>3. TriggerWalk'
    <3>1. \A i \in DOMAIN visiting' : Meets(i)' =>
            Causes(a, j, visiting'[i]) /\ a \notin Queued'
      BY <1>2, <2>1, <2>2 DEF Meets
    <3> QED
      BY <1>1, <3>1 DEF TriggerWalk
  <2> QED
    BY <1>3, <2>1, <2>2, <2>3 DEF WalkOrigin
<1>6. CASE c.cmd = "queue_property_triggers"
  <2>1. /\ visiting' = ActionList /\ event' = [kind |-> "all"] /\ property_triggers_enabled'
    BY <1>6 DEF Execute, Occurs
  <2>2. \A b \in Actions : Matches(b, event)' => Trigger[b].kind = "property"
    BY <2>1 DEF Matches, HoldsNow
  <2> QED
    BY <1>3, <1>6, <2>1, <2>2 DEF WalkOrigin
<1>7. CASE /\ c.cmd \notin {"trigger", "queue_property_triggers"}
           /\ ~(c.cmd = "setprop" /\ property_triggers_enabled)
  <2>1. visiting' = <<>>
    BY <1>7 DEF Execute, SetProperty, NothingOccurs, eventVars
  <2> QED
    BY <2>1 DEF WalkIsFresh, WalkOrigin
<1> QED
  BY <1>4, <1>5, <1>6, <1>7

(* Taking the first action off the list.                                     *)
LEMMA TakeFresh ==
  ASSUME NEW k, SetOffOnce(k), k \in DOMAIN Boot, FreshInv(k), TakeAction
  PROVE  FreshInv(k)'
<1> DEFINE a == Head(queue)
           n == Len(queue)
<1>1. /\ ListInv' /\ queue # <<>> /\ queue' = Tail(queue)
      /\ cur_action' = a /\ a \in Actions /\ a # NoAction
      /\ cur_command' = IF Len(Commands[a]) = 0 THEN 0 ELSE 1
  BY TakeStep, ActionQueueAssumption DEF FreshInv
<1>2. queue \in Seq(Actions) /\ TypeOK /\ visiting = <<>> /\ Boot \in Seq(Actions)
  BY ActionQueueAssumption DEF FreshInv, ListInv, TypeOK, TakeAction, LoopAt
<1>3. /\ n \in Nat /\ n >= 1 /\ DOMAIN queue = 1 .. n /\ a = queue[1]
      /\ DOMAIN queue' = 1 .. n - 1
      /\ \A i \in 1 .. n - 1 : queue'[i] = queue[i + 1]
  BY <1>1, <1>2, TailSeq
<1>4. FirstCommand(a)
  BY <1>1, FirstIsHead DEF TakeAction, FreshInv
<1>5. \A i \in DOMAIN queue' : i + 1 \in DOMAIN queue /\ queue'[i] = queue[i + 1] /\ 1 < i + 1 /\ 1 \in DOMAIN queue
  BY <1>3
<1>6. Queued' = Queued \ {a}
  <2>1. \A x : x \in Queued' => x \in Queued \ {a}
    <3> SUFFICES ASSUME NEW i \in DOMAIN queue' PROVE queue'[i] \in Queued \ {a}
      BY DEF Queued
    <3>1. queue[i + 1] # queue[1]
      BY <1>5 DEF FreshInv, ListInv, ListIsQueue
    <3> QED
      BY <1>3, <1>5, <3>1 DEF Queued
  <2>2. \A x : x \in Queued \ {a} => x \in Queued'
    <3> SUFFICES ASSUME NEW i \in DOMAIN queue, queue[i] # a PROVE queue[i] \in Queued'
      BY DEF Queued
    <3>1. i - 1 \in DOMAIN queue' /\ queue'[i - 1] = queue[i]
      BY <1>3
    <3> QED
      BY <3>1 DEF Queued
  <2> QED
    BY <2>1, <2>2
<1>7. a \in Queued
  BY <1>3, <1>5 DEF Queued
<1>8. ASSUME NEW m \in DOMAIN Commands[a], NEW b \in Actions, Causes(a, m, b)
      PROVE  b \notin Queued'
  <2> SUFFICES ASSUME NEW i \in DOMAIN queue', queue'[i] = b PROVE FALSE
    BY DEF Queued
  <2> QED
    BY <1>3, <1>5, <1>8 DEF FreshInv, QueueOrder
<1>9. property_triggers_enabled =>
        \A l \in DOMAIN Boot : l <= k => Boot[l] \notin Queued /\ Boot[l] # a
  BY <1>7 DEF FreshInv, BootIsDone
<1>10. property_triggers_enabled => property_triggers_enabled'
  BY <1>4 DEF FirstCommand, Execute, SetProperty, propVars
<1>11. /\ Commands[a] # <<>> => 1 \in 1 .. Len(Commands[a]) /\ 1 \in DOMAIN Commands[a] /\ Execute(Commands[a][1])
       /\ Commands[a] = <<>> <=> Len(Commands[a]) = 0
  BY <1>1, <1>4, ActionFacts DEF FirstCommand
<1>12. ASSUME ~property_triggers_enabled, property_triggers_enabled'
       PROVE  a = Boot[k]
  <2>1. Commands[a] # <<>> /\ Commands[a][1].cmd = "queue_property_triggers"
    BY <1>4, <1>12 DEF FirstCommand, Execute, SetProperty, propVars
  <2> QED
    BY <1>1, <1>11, <2>1 DEF SetOffOnce
<1>13. QueueOrder'
  <2>1. ASSUME NEW i \in DOMAIN queue', NEW j \in DOMAIN queue', i < j
        PROVE  /\ i + 1 \in DOMAIN queue /\ j + 1 \in DOMAIN queue /\ i + 1 < j + 1
               /\ queue'[i] = queue[i + 1] /\ queue'[j] = queue[j + 1]
    BY <1>3, <2>1
  <2>2. \A i, j \in DOMAIN queue' : i < j =>
          \A m \in DOMAIN Commands[queue'[i]] : ~Causes(queue'[i], m, queue'[j])
    BY <2>1 DEF FreshInv, QueueOrder
  <2>3. \A i, j \in DOMAIN queue' : i < j =>
          \A l, m \in DOMAIN Boot : l < m => ~(queue'[i] = Boot[m] /\ queue'[j] = Boot[l])
    BY <2>1 DEF FreshInv, QueueOrder
  <2>4. ~property_triggers_enabled' => \A i \in DOMAIN queue' : Trigger[queue'[i]].kind # "property"
    BY <1>5, <1>10 DEF FreshInv, QueueOrder
  <2> QED
    BY <2>2, <2>3, <2>4 DEF QueueOrder, Causes
<1>14. CurrentIsFresh'
  BY <1>1, <1>6, <1>8 DEF CurrentIsFresh, Causes
<1>15. BootIsDone(k)'
  <2> SUFFICES ASSUME property_triggers_enabled', NEW l \in DOMAIN Boot, l <= k
               PROVE  Boot[l] \notin Queued' /\ (a = Boot[l] => l = k)
    BY <1>1 DEF BootIsDone
  <2>1. CASE property_triggers_enabled
    BY <1>6, <1>9, <2>1
  <2>2. CASE ~property_triggers_enabled
    <3>1. a = Boot[k]
      BY <1>12, <2>2
    <3>2. a = Boot[l] => l = k
      BY <3>1 DEF SetOffOnce
    <3>3. Boot[l] \notin Queued'
      <4>1. CASE l = k
        BY <1>6, <3>1, <4>1
      <4>2. CASE l < k
        <5> SUFFICES ASSUME NEW i \in DOMAIN queue', queue'[i] = Boot[l] PROVE FALSE
          BY DEF Queued
        <5> QED
          BY <1>3, <1>5, <3>1, <4>2 DEF FreshInv, QueueOrder
      <4> QED
        BY <1>2, <4>1, <4>2
    <3> QED
      BY <3>2, <3>3
  <2> QED
    BY <2>1, <2>2
<1>16. WalkIsFresh' /\ WalkOrigin'
  <2>1. CASE Commands[a] = <<>>
    <3>1. visiting' = <<>>
      BY <1>2, <1>4, <2>1 DEF FirstCommand, NothingOccurs, eventVars
    <3> QED
      BY <3>1 DEF WalkIsFresh, WalkOrigin
  <2>2. CASE Commands[a] # <<>>
    <3>1. \A b \in Actions : Causes(a, 1, b) => b \notin Queued' /\ a \notin Queued'
      BY <1>6, <1>8, <1>11, <2>2
    <3>2. ASSUME Commands[a][1].cmd = "setprop", property_triggers_enabled
          PROVE  \A b \in Actions : ~Holds(Trigger[b], Commands[a][1].name, Commands[a][1].value)
      <4>1. ~\E l \in DOMAIN Boot : l < k /\ a = Boot[l]
        BY <1>2, <1>9, <3>2
      <4> QED
        BY <1>1, <1>11, <2>2, <3>2, <4>1 DEF SetOffOnce
    <3>3. ASSUME Commands[a][1].cmd = "queue_property_triggers"
          PROVE  \A b \in Queued' : Trigger[b].kind # "property"
      <4>1. a = Boot[k]
        BY <1>1, <1>11, <2>2, <3>3 DEF SetOffOnce
      <4>2. ~property_triggers_enabled
        BY <1>2, <1>9, <4>1
      <4> QED
        BY <1>6, <4>2 DEF FreshInv, QueueOrder, Queued
    <3>4. cur_command' = 1
      BY <1>1, <1>11, <2>2
    <3> QED
      BY <1>1, <1>2, <1>11, <2>2, <3>1, <3>2, <3>3, <3>4, ExecuteWalk
  <2> QED
    BY <2>1, <2>2
<1> QED
  BY <1>1, <1>13, <1>14, <1>15, <1>16 DEF FreshInv

LEMMA CommandFresh ==
  ASSUME NEW k, SetOffOnce(k), k \in DOMAIN Boot, FreshInv(k), NextCommand
  PROVE  FreshInv(k)'
<1> DEFINE a == cur_action
           j == cur_command + 1
<1>1. /\ ListInv' /\ queue' = queue /\ Queued' = Queued
      /\ cur_action' = a /\ cur_command' = j
  BY CommandStep DEF FreshInv, Queued
<1>2. TypeOK /\ visiting = <<>> /\ Boot \in Seq(Actions)
  BY ActionQueueAssumption DEF FreshInv, ListInv, NextCommand, LoopAt
<1>3. /\ a \in Actions /\ a # NoAction /\ cur_command \in Nat /\ cur_command # 0
      /\ j \in 1 .. Len(Commands[a]) /\ j \in DOMAIN Commands[a] /\ j # 1
  BY <1>2, ActionFacts DEF NextCommand, Finished, TypeOK
<1>4. Execute(Commands[a][j])
  BY DEF NextCommand
<1>5. Commands[a][j].cmd # "queue_property_triggers"
  BY <1>3 DEF SetOffOnce
<1>6. property_triggers_enabled' = property_triggers_enabled
  BY <1>4, <1>5 DEF Execute, SetProperty, propVars
<1>7. QueueOrder' /\ BootIsDone(k)'
  BY <1>1, <1>6 DEF FreshInv, QueueOrder, BootIsDone, Causes
<1>8. CurrentIsFresh'
  <2>1. \A m \in DOMAIN Commands[a] : m > j => m > cur_command
    BY <1>3, ActionFacts
  <2> QED
    BY <1>1, <1>3, <2>1 DEF FreshInv, CurrentIsFresh, Causes
<1>9. \A b \in Actions : Causes(a, j, b) => b \notin Queued' /\ a \notin Queued'
  <2> SUFFICES ASSUME NEW b \in Actions, Causes(a, j, b)
               PROVE  b \notin Queued /\ a \notin Queued
    BY <1>1
  <2>1. Trigger[a].kind = "trigger"
    BY <1>3, TheCause
  <2> QED
    BY <1>3, <2>1 DEF FreshInv, CurrentIsFresh
<1>10. ASSUME Commands[a][j].cmd = "setprop", property_triggers_enabled
       PROVE  \A b \in Actions : ~Holds(Trigger[b], Commands[a][j].name, Commands[a][j].value)
  <2>1. ~\E l \in DOMAIN Boot : l < k /\ a = Boot[l]
    BY <1>2, <1>10 DEF FreshInv, BootIsDone
  <2> QED
    BY <1>3, <1>10, <2>1 DEF SetOffOnce
<1>11. WalkIsFresh' /\ WalkOrigin'
  BY <1>1, <1>2, <1>3, <1>4, <1>5, <1>9, <1>10, ExecuteWalk
<1> QED
  BY <1>1, <1>7, <1>8, <1>11 DEF FreshInv

(* Between two commands nothing changes but the properties, by a client that  *)
(* no queued action waits for.                                               *)
LEMMA SocketFresh ==
  ASSUME NEW k, SetOffOnce(k), ~Requeue, FreshInv(k),
         PollTimesOut \/ \E p \in Properties, v \in Values : ServeClient(p, v)
  PROVE  FreshInv(k)'
<1>1. ListInv' /\ UNCHANGED <<queue, cur_action, cur_command>> /\ Queued' = Queued
  BY SocketStep DEF FreshInv, Queued
<1>2. UNCHANGED property_triggers_enabled
  BY DEF PollTimesOut, ServeClient, SetProperty, propVars
<1>3. QueueOrder' /\ BootIsDone(k)' /\ CurrentIsFresh'
  BY <1>1, <1>2 DEF FreshInv, QueueOrder, BootIsDone, CurrentIsFresh, Causes
<1>4. CASE PollTimesOut
  <2>1. visiting' = <<>>
    BY <1>4 DEF PollTimesOut, LoopAt, NothingOccurs, eventVars
  <2> QED
    BY <1>1, <1>3, <2>1 DEF FreshInv, WalkIsFresh, WalkOrigin
<1>5. ASSUME NEW p \in Properties, NEW v \in Values, ServeClient(p, v)
      PROVE  WalkIsFresh' /\ WalkOrigin'
  <2>1. CASE property_triggers_enabled
    <3>1. visiting' = ActionList /\ event' = [kind |-> "property", name |-> p, value |-> v]
      BY <1>5, <2>1 DEF ServeClient, SetProperty, Occurs
    <3>2. \A i \in DOMAIN ActionList : Meets(i)' => Holds(Trigger[ActionList[i]], p, v)
      BY <3>1 DEF Meets, Matches
    <3>3. \A b \in Queued : ~Holds(Trigger[b], p, v)
      BY <1>5 DEF ServeClient
    <3>4. WalkIsFresh'
      BY <1>1, <3>1, <3>2, <3>3 DEF WalkIsFresh, SetOffOnce
    <3> QED
      BY <1>2, <2>1, <3>1, <3>4 DEF WalkOrigin
  <2>2. CASE ~property_triggers_enabled
    <3>1. visiting' = <<>>
      BY <1>5, <2>2 DEF ServeClient, SetProperty, LoopAt, NothingOccurs, eventVars
    <3> QED
      BY <3>1 DEF WalkIsFresh, WalkOrigin
  <2> QED
    BY <2>1, <2>2
<1> QED
  BY <1>1, <1>3, <1>4, <1>5 DEF FreshInv

LEMMA IdleFresh ==
  ASSUME NEW k, FreshInv(k), BecomeIdle
  PROVE  FreshInv(k)'
<1>1. /\ ListInv' /\ queue' = queue /\ Queued' = Queued /\ queue = <<>>
      /\ cur_action' = NoAction
  BY IdleStep DEF FreshInv, Queued
<1>2. visiting' = <<>> /\ UNCHANGED property_triggers_enabled
  BY DEF BecomeIdle, LoopAt, NothingOccurs, eventVars, propVars
<1>3. BootIsDone(k)'
  <2>1. \A l \in DOMAIN Boot : Boot[l] # NoAction
    BY ActionQueueAssumption
  <2> QED
    BY <1>1, <1>2, <2>1 DEF FreshInv, BootIsDone
<1>4. QueueOrder' /\ CurrentIsFresh'
  BY <1>1, <1>2 DEF FreshInv, QueueOrder, CurrentIsFresh, Causes
<1> QED
  BY <1>1, <1>2, <1>3, <1>4 DEF FreshInv, WalkIsFresh, WalkOrigin

LEMMA InitFresh ==
  ASSUME NEW k, SetOffOnce(k), Init
  PROVE  FreshInv(k)
<1>1. ListInv
  BY InitList
<1>2. /\ queue = <<>> /\ visiting = Boot /\ event = [kind |-> "boot"] /\ cur_action = NoAction
      /\ ~property_triggers_enabled /\ Queued = {} /\ DOMAIN queue = {} /\ Len(queue) = 0
  BY DEF Init, Queued
<1>3. WalkIsFresh
  BY <1>2 DEF WalkIsFresh, SetOffOnce
<1>4. BootWalk
  <2>1. Boot \in Seq(Actions) /\ Len(Boot) \in Nat /\ \A i \in DOMAIN Boot : i \in Nat
    BY ActionQueueAssumption
  <2> QED
    BY <1>2, <2>1 DEF BootWalk
<1> QED
  BY <1>1, <1>2, <1>3, <1>4 DEF FreshInv, WalkOrigin, QueueOrder, CurrentIsFresh, BootIsDone

LEMMA StepFresh ==
  ASSUME NEW k, SetOffOnce(k), k \in DOMAIN Boot, ~Requeue, FreshInv(k), [Next]_vars
  PROVE  FreshInv(k)'
<1>1. CASE UNCHANGED vars
  <2>1. /\ UNCHANGED <<next, prev, queue, visiting, event, props, property_triggers_enabled>>
        /\ UNCHANGED <<property_set_fd_init, cur_action, cur_command, pc, ran>>
    BY <1>1 DEF vars, listVars, eventVars, propVars
  <2>2. ListInv' /\ Queued' = Queued
    BY <2>1 DEF FreshInv, ListInv, TypeOK, ListIsQueue, NodeAt, Queued
  <2>3. \A i : Meets(i)' <=> Meets(i)
    BY <2>1 DEF Meets, Matches, HoldsNow, Holds
  <2>4. WalkIsFresh' /\ WalkOrigin'
    BY <2>1, <2>2, <2>3 DEF FreshInv, WalkIsFresh, WalkOrigin, BootWalk, TriggerWalk, Causes
  <2>5. QueueOrder' /\ CurrentIsFresh' /\ BootIsDone(k)'
    BY <2>1, <2>2 DEF FreshInv, QueueOrder, CurrentIsFresh, BootIsDone, Causes
  <2> QED
    BY <2>2, <2>4, <2>5 DEF FreshInv
<1> QED
  BY <1>1, VisitFresh, TakeFresh, CommandFresh, SocketFresh, IdleFresh DEF Next

(* action_add_queue_tail (init_parser.c) never appends an action that is on   *)
(* the queue, for every init.rc whose own commands set nothing off twice, as  *)
(* long as no client sets a property that a queued action waits for: neither  *)
(* a trigger command, nor the boot sequence, nor the walk of                  *)
(* queue_property_triggers_action ever meets a queued action.                *)
THEOREM AppendsStayFresh ==
  ASSUME NEW k \in DOMAIN Boot, SetOffOnce(k), ~Requeue
  PROVE  Spec => []AppendsAreFresh
<1>1. Init => FreshInv(k)
  BY InitFresh
<1>2. FreshInv(k) /\ [Next]_vars => FreshInv(k)'
  BY StepFresh
<1>3. FreshInv(k) => AppendsAreFresh
  BY FreshIsFresh DEF FreshInv, ListInv
<1> QED
  BY <1>1, <1>2, <1>3, PTL DEF Spec

(* For such an init.rc, then, the linked list is the queue of readme.txt, and *)
(* no trigger is lost, with no hypothesis about the behaviour.                *)
THEOREM QueueOfEveryFile ==
  ASSUME NEW k \in DOMAIN Boot, SetOffOnce(k), ~Requeue
  PROVE  Spec => DocumentedQueue /\ []ListIsQueue /\ []NoTriggerLost
<1>1. Spec => []AppendsAreFresh
  BY AppendsStayFresh
<1> QED
  BY <1>1, ListIsRight, QueueIsDocumented, TriggersAreCaught, PTL
=============================================================================
