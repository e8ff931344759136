--------------------------- MODULE GroupMallocSpec ---------------------------
(***************************************************************************)
(* What group_malloc (sched/group/group_malloc.c) promises, as its header  *)
(* states it: the memory of a privileged group is allocated where only     *)
(* privileged code can reach it, the kernel heap; the memory of any other  *)
(* group where unprivileged code can, the user heap.  A NULL group means   *)
(* the calling task's group.  A call is its entry with the argument and   *)
(* one atomic allocation; a heap without room returns NULL.  The blocks    *)
(* of each heap are counted per group.                                     *)
(***************************************************************************)
EXTENDS Naturals, Functions

CONSTANTS
  Tasks,       \* the tasks that call group_malloc
  Groups,      \* the task groups
  GroupOf,     \* GroupOf[t]: the group task t belongs to
  Privileged,  \* the privileged groups
  Capacity,    \* Capacity[h]: the blocks heap h can hold
  NULL,        \* the null pointer, as argument and as result
  NoCall       \* no call of the task in progress

Heaps == {"kernel", "user"}

VARIABLES
  used,  \* used[h][g]: blocks of group g allocated in heap h
  ret,   \* ret[t]: what task t's last call returned (a heap, or NULL)
  arg    \* arg[t]: the group argument of task t's call in progress

vars == <<used, ret, arg>>

\* The heap the header assigns to the memory of group g.
HeapFor(g) == IF g \in Privileged THEN "kernel" ELSE "user"

Init ==
  /\ used = [h \in Heaps |-> [g \in Groups |-> 0]]
  /\ ret = [t \in Tasks |-> NULL]
  /\ arg = [t \in Tasks |-> NoCall]

\* Task t calls group_malloc(g, nbytes).
Call(t, g) ==
  /\ arg[t] = NoCall
  /\ arg' = [arg EXCEPT ![t] = g]
  /\ UNCHANGED <<used, ret>>

\* The allocation of task t's call, and its return.
GroupMalloc(t) ==
  LET grp == IF arg[t] = NULL THEN GroupOf[t] ELSE arg[t]
      h   == HeapFor(grp)
  IN  /\ arg[t] # NoCall
      /\ arg' = [arg EXCEPT ![t] = NoCall]
      /\ IF SumFunction(used[h]) < Capacity[h]
         THEN /\ used' = [used EXCEPT ![h][grp] = @ + 1]
              /\ ret' = [ret EXCEPT ![t] = h]
         ELSE /\ ret' = [ret EXCEPT ![t] = NULL]
              /\ UNCHANGED used

\* A block of group g is given back to heap h.
Free(h, g) ==
  /\ used[h][g] > 0
  /\ used' = [used EXCEPT ![h][g] = @ - 1]
  /\ UNCHANGED <<ret, arg>>

Next ==
  \/ \E t \in Tasks, g \in Groups \cup {NULL} : Call(t, g)
  \/ \E t \in Tasks : GroupMalloc(t)
  \/ \E h \in Heaps, g \in Groups : Free(h, g)

Spec == Init /\ [][Next]_vars
=============================================================================
