---------------------------- MODULE GenericReduce ---------------------------
(***************************************************************************)
(* generic_reduce: the reduction of a vector on an OpenCL device.  The     *)
(* host enqueues passes, each of which reduces the output of the one       *)
(* before; it runs ahead of the device.  In a pass every work item folds   *)
(* its share of the input, and the items of a workgroup combine what they  *)
(* have in their local memory, with barriers between the rounds.           *)
(*                                                                         *)
(* A value is the sequence of the input positions that were combined into  *)
(* it, so the identity is the empty sequence.  The input starts with the   *)
(* buffer it is in: execute(begin, end) hands the buffer of begin to the   *)
(* kernel and drops its position, and every caller passes vector.begin().  *)
(***************************************************************************)
EXTENDS Integers, SequencesExt, FiniteSetsExt

CONSTANTS
    Sizes,           \* sizes of the input
    WorkgroupSizes,  \* values of effective_workgroup_size_ on a device
    MaxGroups        \* bound: the number of workgroups of the first pass

ASSUME GenericReduceAssumption ==
    /\ Sizes \subseteq Nat /\ MaxGroups \in Nat \ {0}
    /\ \A w \in WorkgroupSizes : \E k \in 1..10 : w = 2 ^ k

VARIABLES
    size,             \* the size of the input
    workgroup_size,   \* local to execute()
    pass_output_size, \* the size of the output of the last pass enqueued
    ping_, pong_,     \* the buffers the host has under these names
    host,             \* what the host does next
    queue,            \* the passes that are not complete; the first one runs
    buffers,          \* the device memory
    items,            \* the work items of the pass that runs, if any
    scratch           \* the local memory of each of its workgroups

host_vars == <<size, workgroup_size, pass_output_size, ping_, pong_, host>>
device_vars == <<items, scratch>>
vars == <<host_vars, device_vars, queue, buffers>>

Uninitialized == <<-1>>

Init ==
    /\ size \in Sizes /\ workgroup_size \in WorkgroupSizes
    /\ size \div workgroup_size <= MaxGroups
    /\ pass_output_size = 0
    /\ ping_ = "A" /\ pong_ = "B"
    /\ host = "initial"
    /\ queue = << >>
    /\ buffers = [b \in {"A", "B"} |-> << >>]
    /\ items = << >> /\ scratch = << >>
-----------------------------------------------------------------------------
\* Faulty variant: what the comment in execute() says of it.
p2ceil_inclusive(n) == Min({m \in {2 ^ k : k \in 0..10} : m >= n})

\* The smallest power of two that is larger than n.
p2ceil(n) == Min({m \in {2 ^ k : k \in 0..10} : m > n})

\* Faulty variant: the values that are left over have no work item.
ValuesPerThreadDown(n, threads) == n \div threads

\* VPT: the values for each work item, rounded up.
ValuesPerThread(n, threads) == n \div threads + (IF n % threads = 0 THEN 0 ELSE 1)

\* A kernel with its arguments, as they are when it is enqueued.
Pass(kernel, dst, src, n, groups, tpb) ==
    [kernel |-> kernel, dst |-> dst, src |-> src, N |-> n, groups |-> groups,
     TPB |-> tpb, VPT |-> ValuesPerThread(n, groups * tpb)]

\* execute(), up to the loop.
ScheduleInitial ==
    LET workgroups == Max({1, size \div workgroup_size})
        fresh == [g \in 0..(workgroups - 1) |-> Uninitialized]
    IN  /\ host = "initial"
        /\ buffers' = [b \in {ping_, pong_} |-> fresh]
        /\ queue' = <<Pass("initial", ping_, "input", size, workgroups,
                           workgroup_size)>>
        /\ pass_output_size' = workgroups
        /\ host' = "loop"
        /\ UNCHANGED <<size, workgroup_size, ping_, pong_, device_vars>>

SmallerWorkgroup(n) == p2ceil(n) \div 2

\* One round of the loop.  The kernel keeps the buffers it was given; the
\* swap only changes which of them the host calls ping_.
ScheduleIntermediate ==
    LET tpb == IF pass_output_size < workgroup_size
               THEN SmallerWorkgroup(pass_output_size) ELSE workgroup_size
        workgroups == pass_output_size \div tpb
    IN  /\ host = "loop" /\ pass_output_size > 1
        /\ workgroup_size' = tpb
        /\ IF workgroups = 0
           THEN host' = "failed" /\ UNCHANGED <<queue, ping_, pong_, pass_output_size>>
           ELSE /\ queue' = Append(queue, Pass("intermediate", pong_, ping_,
                                      pass_output_size, workgroups, tpb))
                /\ ping_' = pong_ /\ pong_' = ping_
                /\ pass_output_size' = workgroups
                /\ UNCHANGED host
        /\ UNCHANGED <<size, buffers, device_vars>>

\* The future holds ping_.begin() and the event of the last pass.
Return ==
    /\ host = "loop" /\ pass_output_size <= 1
    /\ host' = "returned"
    /\ UNCHANGED <<size, workgroup_size, pass_output_size, ping_, pong_, queue,
                   buffers, device_vars>>

Host == ScheduleInitial \/ ScheduleIntermediate \/ Return
-----------------------------------------------------------------------------
pass == Head(queue)
Groups == DOMAIN items
Lids == 0..(pass.TPB - 1)

\* A pass starts when the event of the one before it has completed.
Start ==
    /\ queue # << >> /\ items = << >>
    /\ LET groups == 0..(pass.groups - 1)
       IN  /\ items' = [g \in groups |->
                [l \in Lids |-> [pc |-> "gather", i |-> pass.TPB \div 2, p |-> << >>]]]
           /\ scratch' = [g \in groups |-> [l \in Lids |-> Uninitialized]]
    /\ UNCHANGED <<host_vars, queue, buffers>>

\* The loop over VPT: the share of a work item of the input of the pass,
\* counted from the start of the buffer.
Share(g, l) ==
    LET loc(i) == g * pass.TPB + l + (i - 1) * (pass.groups * pass.TPB)
        value(at) == IF pass.kernel = "initial" THEN <<at>>
                                                ELSE buffers[pass.src][at]
    IN  FlattenSeq([i \in 1..pass.VPT |->
                       IF loc(i) < pass.N THEN value(loc(i)) ELSE << >>])

Gather(g, l) ==
    /\ items[g][l].pc = "gather"
    /\ items' = [items EXCEPT ![g][l].pc = "barrier"]
    /\ scratch' = [scratch EXCEPT ![g][l] = Share(g, l)]
    /\ UNCHANGED <<host_vars, queue, buffers>>

\* Faulty variant: the items with nothing to do in a round do not wait.
ActiveArrived(g) ==
    \A l \in Lids : l < items[g][0].i => items[g][l].pc = "barrier"

AllArrived(g) == \A l \in Lids : items[g][l].pc = "barrier"

\* An item after a barrier of reduce_scratch: the first half of what is left
\* combines, and the rest goes on to the next barrier.
AfterBarrier(item, l) ==
    IF item.i = 0
    THEN [item EXCEPT !.pc = IF l = 0 THEN "write" ELSE "done"]
    ELSE IF l < item.i THEN [item EXCEPT !.pc = "read"]
    ELSE [item EXCEPT !.i = @ \div 2]

Barrier(g) ==
    /\ AllArrived(g)
    /\ items' = [items EXCEPT ![g] = [l \in Lids |-> AfterBarrier(@[l], l)]]
    /\ UNCHANGED <<host_vars, queue, buffers, scratch>>

\* reduce_combine_local2local: two reads, and a write.
Read(g, l) ==
    LET item == items[g][l]
    IN  /\ item.pc = "read"
        /\ items' = [items EXCEPT ![g][l].pc = "combine",
               ![g][l].p = scratch[g][l] \o scratch[g][l + item.i]]
        /\ UNCHANGED <<host_vars, queue, buffers, scratch>>

Combine(g, l) ==
    LET item == items[g][l]
    IN  /\ item.pc = "combine"
        /\ scratch' = [scratch EXCEPT ![g][l] = item.p]
        /\ items' = [items EXCEPT ![g][l] =
               [pc |-> "barrier", i |-> item.i \div 2, p |-> << >>]]
        /\ UNCHANGED <<host_vars, queue, buffers>>

\* The first item of a group writes its result.
Write(g) ==
    /\ items[g][0].pc = "write"
    /\ buffers' = [buffers EXCEPT ![pass.dst][g] = scratch[g][0]]
    /\ items' = [items EXCEPT ![g][0].pc = "done"]
    /\ UNCHANGED <<host_vars, queue, scratch>>

Finish ==
    /\ items # << >>
    /\ \A g \in Groups, l \in Lids : items[g][l].pc = "done"
    /\ queue' = Tail(queue)
    /\ items' = << >> /\ scratch' = << >>
    /\ UNCHANGED <<host_vars, buffers>>

Device ==
    \/ Start
    \/ \E g \in Groups :
          \/ \E l \in Lids : Gather(g, l) \/ Read(g, l) \/ Combine(g, l)
          \/ Barrier(g)
          \/ Write(g)
    \/ Finish

Complete == host = "returned" /\ queue = << >>

\* A complete reduction stays as it is.
Next == Host \/ Device \/ (Complete /\ UNCHANGED vars)

\* The host runs its loop, and the device what is enqueued.
Spec == Init /\ [][Next]_vars /\ WF_vars(Host \/ Device)
-----------------------------------------------------------------------------
EachInputOnce(value) ==
    Len(value) = size /\ ToSet(value) = 0..(size - 1)

\* What a work item answers for: its share, or its slot while it is to be
\* combined in a later round, or the two slots it is about to combine.
Holds(g, l) ==
    LET item == items[g][l]
        mine == scratch[g][l]
    IN  CASE item.pc = "gather" -> Share(g, l)
          [] item.pc = "barrier" -> IF l < Max({1, 2 * item.i}) THEN mine ELSE << >>
          [] item.pc = "read" -> mine \o scratch[g][l + item.i]
          [] item.pc = "combine" -> item.p
          [] item.pc = "write" -> mine
          [] item.pc = "done" -> IF l = 0 THEN buffers[pass.dst][g] ELSE << >>

(* At every moment of every pass the work items together hold each element *)
(* of the input once: whatever the sizes, no element is left over by the   *)
(* division of the work, combined twice, or lost in a round.  So does what *)
(* the future returns, once its event has completed: the buffer that the   *)
(* host calls ping_ in the end.                                            *)
NothingLostOrDoubled ==
    /\ items # << >> =>
          EachInputOnce(FlattenSeq([k \in 1..(pass.groups * pass.TPB) |->
              Holds((k - 1) \div pass.TPB, (k - 1) % pass.TPB)]))
    /\ Complete => EachInputOnce(buffers[ping_][0])

\* The slots of the local memory an item is about to read, and to write.
Reads(g, l) ==
    CASE items[g][l].pc = "read" -> {l, l + items[g][l].i}
      [] items[g][l].pc = "write" -> {0}
      [] OTHER -> {}
Writes(g, l) == IF items[g][l].pc \in {"gather", "combine"} THEN {l} ELSE {}

(* No two items of a workgroup race on its local memory: between barriers  *)
(* nobody reads a slot that another item is yet to write.                  *)
NoRaces ==
    \A g \in Groups : \A l, k \in Lids :
        l # k => Writes(g, l) \cap Reads(g, k) = {}

(* The passes get smaller until there is a single value, the assertion in  *)
(* the loop holds, and no work item waits at a barrier for ever.           *)
Termination == <>Complete
=============================================================================
