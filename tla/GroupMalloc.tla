----------------------------- MODULE GroupMalloc -----------------------------
(***************************************************************************)
(* group_malloc of sched/group/group_malloc.c, in a protected or kernel   *)
(* build with a kernel heap.  A call is three steps of the calling task:   *)
(* entry with its arguments, the resolution of a NULL group to the group   *)
(* of the task at the head of g_readytorun, and the test of the group's    *)
(* GROUP_FLAG_PRIVILEGED flag with the call of kmm_malloc or kumm_malloc.  *)
(* Only the task at the head of g_readytorun runs, and the scheduler may   *)
(* switch to another ready task between any two steps.  kmm_malloc and     *)
(* kumm_malloc serialise on their heap's semaphore: each is one step,      *)
(* which returns NULL when the heap has no room.                           *)
(***************************************************************************)
EXTENDS Naturals, Sequences, FiniteSets, Functions, Bitwise

CONSTANTS
  Tasks, Groups, GroupOf, Capacity, NULL, NoCall,
  TgFlags,                \* TgFlags[g]: group->tg_flags
  CONFIG_BUILD_PROTECTED, CONFIG_BUILD_KERNEL, CONFIG_MM_KERNEL_HEAP

\* The condition under which group_malloc is compiled at all.
GroupMallocBuilt ==
  (CONFIG_BUILD_PROTECTED \/ CONFIG_BUILD_KERNEL) /\ CONFIG_MM_KERNEL_HEAP

ASSUME GroupMallocBuilt

\* include/nuttx/sched.h: bit 2 of tg_flags.
GROUP_FLAG_PRIVILEGED == 4

Heaps == {"kernel", "user"}

VARIABLES
  used,   \* used[h][g]: blocks of group g allocated in heap h
  ret,    \* ret[t]: what task t's last call returned (a heap, or NULL)
  rtr,    \* g_readytorun: the ready tasks, the running one at its head
  pc,     \* pc[t]: "idle", "resolve" or "alloc"
  group,  \* group[t]: the local group of task t's call
  arg     \* arg[t]: the argument the call was made with (history)

vars == <<used, ret, rtr, pc, group, arg>>

GMS == INSTANCE GroupMallocSpec
         WITH Privileged <- {g \in Groups : (TgFlags[g] & GROUP_FLAG_PRIVILEGED) # 0}

Running == Head(rtr)

Init ==
  /\ used = [h \in Heaps |-> [g \in Groups |-> 0]]
  /\ ret = [t \in Tasks |-> NULL]
  /\ rtr \in {s \in [1..Cardinality(Tasks) -> Tasks] : Range(s) = Tasks}
  /\ pc = [t \in Tasks |-> "idle"]
  /\ group = [t \in Tasks |-> NULL]
  /\ arg = [t \in Tasks |-> NoCall]

\* The scheduler makes another ready task the head of g_readytorun.
Switch ==
  /\ \E t \in Tasks \ {Running} :
       rtr' = <<t>> \o SelectSeq(rtr, LAMBDA x : x # t)
  /\ UNCHANGED <<used, ret, pc, group, arg>>

\* The running task calls group_malloc(group, nbytes).
Call(t) ==
  /\ t = Running /\ pc[t] = "idle"
  /\ \E g \in Groups \cup {NULL} :
       group' = [group EXCEPT ![t] = g] /\ arg' = [arg EXCEPT ![t] = g]
  /\ pc' = [pc EXCEPT ![t] = "resolve"]
  /\ UNCHANGED <<used, ret, rtr>>

\* Variant: the NULL group left as it is.
ResolveNoDefault(t) ==
  /\ t = Running /\ pc[t] = "resolve"
  /\ pc' = [pc EXCEPT ![t] = "alloc"]
  /\ UNCHANGED <<used, ret, rtr, group, arg>>

\* Variant: the group of the running task taken whatever the argument.
ResolveIgnoresArg(t) ==
  /\ t = Running /\ pc[t] = "resolve"
  /\ group' = [group EXCEPT ![t] = GroupOf[Head(rtr)]]
  /\ pc' = [pc EXCEPT ![t] = "alloc"]
  /\ UNCHANGED <<used, ret, rtr, arg>>

\* if (!group) group = ((struct tcb_s * )g_readytorun.head)->group
Resolve(t) ==
  /\ t = Running /\ pc[t] = "resolve"
  /\ group' = [group EXCEPT ![t] = IF @ = NULL THEN GroupOf[Head(rtr)] ELSE @]
  /\ pc' = [pc EXCEPT ![t] = "alloc"]
  /\ UNCHANGED <<used, ret, rtr, arg>>

\* kmm_malloc or kumm_malloc for group g: a block of heap h, or NULL.
HeapMalloc(t, g, h) ==
  IF SumFunction(used[h]) < Capacity[h]
  THEN used' = [used EXCEPT ![h][g] = @ + 1] /\ ret' = [ret EXCEPT ![t] = h]
  ELSE ret' = [ret EXCEPT ![t] = NULL] /\ UNCHANGED used

\* The test of GROUP_FLAG_PRIVILEGED and the allocator it selects.
Allocate(t) ==
  /\ t = Running /\ pc[t] = "alloc"
  /\ HeapMalloc(t, group[t],
                IF (TgFlags[group[t]] & GROUP_FLAG_PRIVILEGED) # 0
                THEN "kernel" ELSE "user")
  /\ pc' = [pc EXCEPT ![t] = "idle"]
  /\ group' = [group EXCEPT ![t] = NULL]
  /\ arg' = [arg EXCEPT ![t] = NoCall]
  /\ UNCHANGED rtr

\* Some task frees a block of group g (kmm_free, kumm_free).
Free(h, g) ==
  /\ used[h][g] > 0
  /\ used' = [used EXCEPT ![h][g] = @ - 1]
  /\ UNCHANGED <<ret, rtr, pc, group, arg>>

Next ==
  \/ Switch
  \/ \E t \in Tasks : Call(t) \/ Resolve(t) \/ Allocate(t)
  \/ \E h \in Heaps, g \in Groups : Free(h, g)

Spec == Init /\ [][Next]_vars

-----------------------------------------------------------------------------
TypeOK ==
  /\ used \in [Heaps -> [Groups -> Nat]]
  /\ ret \in [Tasks -> Heaps \cup {NULL}]
  /\ pc \in [Tasks -> {"idle", "resolve", "alloc"}]
  /\ group \in [Tasks -> Groups \cup {NULL}]
  /\ arg \in [Tasks -> Groups \cup {NULL, NoCall}]
  /\ \A t \in Tasks : pc[t] = "alloc" => group[t] \in Groups

(* group_malloc implements the promise of its header: each call, its NULL *)
(* group resolved to the group of the task at the head of g_readytorun,   *)
(* is one atomic allocation for the right group in the right heap, and a  *)
(* full heap gives NULL, never a block of the other heap.                 *)
Refinement == GMS!Spec
=============================================================================
