----------------------------- MODULE MemRanges -----------------------------
(***************************************************************************)
(* Device memory through the proxies' entry points (cuMemAlloc,            *)
(* cuMemAllocManaged, cuMemFree): a BE keeps a list of its managed ranges *)
(* and their total, which the limit manager prefetches when the HP it      *)
(* listened to is gone (be_intercept.c, "memory transfer"); an HP keeps    *)
(* nothing.                                                                *)
(*                                                                         *)
(* The list is made on first use, and whether it exists is looked at       *)
(* without the lock that guards it.  A range is recorded after the driver  *)
(* has allocated it and forgotten after the driver has freed it, so its    *)
(* address may have another owner by then.  Each step is one driver call   *)
(* or one critical section under g_map_mutex.                              *)
(***************************************************************************)
EXTENDS Integers, Sequences, SequencesExt, FiniteSets

CONSTANTS
  Threads,     \* application threads
  Manager,     \* the limit manager thread of a BE
  Pointers,    \* device addresses
  SizeOf,      \* the size each thread allocates
  MaxRecords   \* bound: ranges in the list, lost with an earlier one or on their way

ASSUME MemAssumption ==
  /\ Manager \notin Threads /\ Threads \cap {"free", "recorded"} = {}
  /\ IsFiniteSet(Threads)
  /\ SizeOf \in [Threads -> Nat]
  /\ MaxRecords \in Nat

VARIABLES
  mem,     \* per thread: where its memory call is, its pointer and size,
           \* and whether the driver did what it was asked
  heads,   \* how many lists have been made; 0: list_head is NULL
  ranges,  \* the list, newest range first
  lost,    \* ranges of lists that were replaced
  used,    \* g_used_memory
  device,  \* environment: what the driver has at each address: nothing, an
           \* allocation a BE has recorded, or one a thread has made and not
  held     \* environment: the addresses each thread has to free

memVars == <<mem, heads, ranges, lost, used, device, held>>

Unrecorded(a) == mem[a].goal = "insert" /\ mem[a].at # "advise"

NoCall   == [at |-> "no", goal |-> "no", ptr |-> 0, size |-> 0, ok |-> FALSE]
Actors   == Threads \cup {Manager}
FreeAddresses == {p \in Pointers : device[p] = "free"}

MemInit ==
  /\ mem = [a \in Actors |-> NoCall]
  /\ heads = 0 /\ ranges = <<>> /\ lost = <<>> /\ used = 0
  /\ device = [p \in Pointers |-> "free"]
  /\ held = [t \in Threads |-> {}]

Proceed(a, place) == mem' = [mem EXCEPT ![a].at = place]

---------------------------------------------------------------------------
(* Allocation.                                                             *)

\* cuMemAllocManaged, from any of the entry points: at any free address, also
\* one whose release has not reached the list.  A failure leaves *dptr what it
\* was, an address the caller does not use.
BeginAlloc(t, ok) ==
  /\ mem[t].at = "no"
  /\ Len(ranges) + Len(lost) + Cardinality({a \in Threads : Unrecorded(a)}) < MaxRecords
  /\ \E p \in IF ok THEN FreeAddresses ELSE Pointers \ held[t] :
       /\ mem' = [mem EXCEPT ![t] = [at |-> "context", goal |-> "insert", ptr |-> p, size |-> SizeOf[t], ok |-> ok]]
       /\ device' = IF ok THEN [device EXCEPT ![p] = t] ELSE device
  /\ UNCHANGED <<heads, ranges, lost, used, held>>

\* cuCtxGetDevice.  A BE looks at this result only; an HP has returned when
\* the allocation failed.
AskDevice(t, isBe, known) ==
  /\ mem[t].at = "context"
  /\ Proceed(t, CASE ~known \/ (~isBe /\ ~mem[t].ok) -> "no"
                  [] isBe                           -> "look"
                  [] OTHER                          -> "advise")
  /\ UNCHANGED <<heads, ranges, lost, used, device, held>>

\* if (list_head == NULL), outside the lock.
Look(a) ==
  /\ mem[a].at = "look"
  /\ Proceed(a, IF heads = 0 THEN "init" ELSE mem[a].goal)
  /\ UNCHANGED <<heads, ranges, lost, used, device, held>>

\* init_list: a new list, whether or not there is one by now.
InitList(a) ==
  /\ mem[a].at = "init"
  /\ heads' = heads + 1
  /\ ranges' = <<>> /\ lost' = lost \o ranges
  /\ Proceed(a, mem[a].goal)
  /\ UNCHANGED <<used, device, held>>

\* The critical section of allocate_mem.  The range is what the driver has
\* there unless another thread has freed it since.
Insert(t) ==
  LET call == mem[t] IN
  /\ call.at = "insert"
  /\ used' = used + call.size
  /\ ranges' = <<[ptr |-> call.ptr, size |-> call.size]>> \o ranges
  /\ device' = IF call.ok /\ device[call.ptr] = t
                 THEN [device EXCEPT ![call.ptr] = "recorded"] ELSE device
  /\ Proceed(t, "advise")
  /\ UNCHANGED <<heads, lost, held>>

\* cuMemAdvise, whose result the entry point returns: it can succeed for any
\* range the driver has.
Advise(t, advised) ==
  LET call == mem[t] IN
  /\ call.at = "advise"
  /\ advised => device[call.ptr] # "free"
  /\ held' = IF advised THEN [held EXCEPT ![t] = @ \cup {call.ptr}] ELSE held
  /\ mem' = [mem EXCEPT ![t] = NoCall]
  /\ UNCHANGED <<heads, ranges, lost, used, device>>

---------------------------------------------------------------------------
(* Release.                                                                *)

\* cuMemFree of an address the caller got from the proxy: what it gets from
\* the driver's own functions it frees with them, and the list knows nothing.
BeginFree(t, p, isBe) ==
  /\ mem[t].at = "no"
  /\ p \in held[t]
  /\ held' = [held EXCEPT ![t] = @ \ {p}]
  /\ device' = [device EXCEPT ![p] = "free"]
  /\ mem' = IF isBe /\ device[p] # "free"
              THEN [mem EXCEPT ![t] = [NoCall EXCEPT !.at = "look", !.goal = "delete", !.ptr = p]]
              ELSE mem
  /\ UNCHANGED <<heads, ranges, lost, used>>

\* Mutant: every range with the address is forgotten.
DeleteAll(t) ==
  LET Stays(r) == r.ptr # mem[t].ptr
      rest     == SelectSeq(ranges, Stays)
  IN  /\ mem[t].at = "delete"
      /\ ranges' = rest
      /\ used' = used - FoldSeq(LAMBDA r, sum : IF Stays(r) THEN sum ELSE r.size + sum, 0, ranges)
      /\ mem' = [mem EXCEPT ![t] = NoCall]
      /\ UNCHANGED <<heads, lost, device, held>>

\* The critical section of delete_mem: the newest range with this address.
Delete(t) ==
  LET found == {i \in DOMAIN ranges : ranges[i].ptr = mem[t].ptr}
      first == CHOOSE i \in found : \A j \in found : i <= j
  IN  /\ mem[t].at = "delete"
      /\ IF found = {} THEN UNCHANGED <<ranges, used>>
         ELSE /\ used' = used - ranges[first].size
              /\ ranges' = RemoveAt(ranges, first)
      /\ mem' = [mem EXCEPT ![t] = NoCall]
      /\ UNCHANGED <<heads, lost, device, held>>

---------------------------------------------------------------------------
(* memory_transfer_routine, which the limit manager runs when the HP has   *)
(* closed the connection, unless that is switched off.  Its walk holds the *)
(* lock, skips what it cannot prefetch and changes nothing here.           *)
BeginTransfer ==
  /\ mem[Manager].at = "no"
  /\ mem' = [mem EXCEPT ![Manager] = [NoCall EXCEPT !.at = "look", !.goal = "walk"]]
  /\ UNCHANGED <<heads, ranges, lost, used, device, held>>

Walk ==
  /\ mem[Manager].at = "walk"
  /\ mem' = [mem EXCEPT ![Manager] = NoCall]
  /\ UNCHANGED <<heads, ranges, lost, used, device, held>>

\* A step of a memory call that has begun.
MemStep(a, isBe) ==
  \/ \E known \in BOOLEAN : AskDevice(a, isBe, known)
  \/ Look(a) \/ InitList(a)
  \/ Insert(a)
  \/ \E advised \in BOOLEAN : Advise(a, advised)
  \/ Delete(a)

---------------------------------------------------------------------------
Listed == {r.ptr : r \in Range(ranges)}
Total(seq) == SumFunctionOnSet([i \in DOMAIN seq |-> seq[i].size], DOMAIN seq)

Lost   == {r.ptr : r \in Range(lost)}

\* What the driver has given out and a BE has recorded is in the list, so that
\* the prefetch reaches it, whatever fails and whoever gets an address another
\* thread has freed and not forgotten yet; or there is a range with its
\* address in a list that was replaced, which is so only when several actors
\* found no list, as many as made one (init_list 1183, allocate_mem 1216,
\* delete_mem 1233).
LiveIsListed ==
  /\ \A p \in Pointers : device[p] = "recorded" => p \in Listed \cup Lost
  /\ lost # <<>> => heads > 1
  /\ heads <= Cardinality(Actors)

\* g_used_memory is the total of the ranges in the list and in those that were
\* replaced, which it counts for ever: it never runs below zero.  Of two ranges
\* with one address the newest is forgotten first, so a size may stay for
\* another.
UsedIsTotal == used = Total(ranges) + Total(lost)
=============================================================================
