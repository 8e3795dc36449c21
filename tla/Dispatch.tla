------------------------------ MODULE Dispatch ------------------------------
(***************************************************************************)
(* How a CUDA call of an application reaches the driver through the HP's   *)
(* or the BE's proxy: the lookups it interposes (dlsym, cuGetProcAddress:  *)
(* driver_proxy_compat.c), the loader of the driver's functions            *)
(* (loader.c), the entry points that forward (cuda_originals.c,            *)
(* nvml_entry.c) and those that wrap a launch with the policy's hooks      *)
(* (be_intercept.c, hp_intercept.c, graph_scheduler.c).                    *)
(*                                                                         *)
(* What a hook does is in BeAdmission, HpMonitor and RateControl; here it  *)
(* is that it ran, and in which case.  An entry point is named by a few    *)
(* that stand for their kind, with the flag of its _ptsz variant.  Threads *)
(* with one role are of one process and share its driver table.            *)
(***************************************************************************)
EXTENDS MemRanges

CONSTANTS
  Setups,     \* the drivers and the programs to look at
  MaxStreams  \* bound: streams that exist at once

VARIABLES
  setup,     \* the configuration, the driver and what the program uses
  once,      \* per process: g_cuda_set
  table,     \* per process: the driver's functions in the library tables
  status,    \* per process: whether it runs, and why not
  ready,     \* per process: a call that loads the driver has returned
  call,      \* per thread: the call it is in
  getproc,   \* per thread: the cuGetProcAddress it uses
  pointer,   \* per thread: the last function pointer it got
  bypass,    \* per thread: g_tgs_capture_bypass_after
  streams    \* streams created, with role and priority

procVars == <<setup, once, table, status, ready>>
appVars  == <<call, getproc, pointer, bypass, streams>>
vars     == <<procVars, appVars, memVars>>

---------------------------------------------------------------------------
(* Functions.                                                              *)
Fn(name)   == [name |-> name, ptsz |-> FALSE]
Ptsz(name) == [name |-> name, ptsz |-> TRUE]

\* Functions with a variant for the per-thread default stream, and those with
\* a newer version under another name.
Streamed == {"cuLaunchKernel", "cuLaunchKernelEx", "cuGraphLaunch", "cuGraphInstantiateWithParams"}
Newer == [cuGetProcAddress   |-> "cuGetProcAddress_v2",
          cuGraphInstantiate |-> "cuGraphInstantiateWithFlags",
          cuGraphExecUpdate  |-> "cuGraphExecUpdate_v2"]

GetProcs == {Fn("cuGetProcAddress"), Fn("cuGetProcAddress_v2")}

\* The launches whose entry points call the hooks.  cuLaunchKernel also stands
\* for cuLaunchCooperativeKernel, cuLaunchGrid for cuLaunch and
\* cuLaunchGridAsync, which only a linked call can intercept.
HookedLaunches == {"cuLaunchKernel", "cuLaunchKernelEx", "cuGraphLaunch", "cuLaunchGrid"}

\* The launch that is forwarded as a query is, and all the launches.
MultiDevice == Fn("cuLaunchCooperativeKernelMultiDevice")
Launches == HookedLaunches \cup {MultiDevice.name}

\* direct_cuda_wrapper: what dlsym replaces.
Interposed ==
  GetProcs \cup {Fn(n) : n \in Streamed} \cup {Ptsz(n) : n \in Streamed} \cup
  {Fn(n) : n \in {"cuGraphExecDestroy", "cuGraphInstantiate", "cuGraphInstantiate_v2",
                  "cuGraphInstantiateWithFlags", "cuGraphNodeSetEnabled",
                  "cuGraphExecUpdate", "cuGraphExecUpdate_v2"}}

\* Entry points that forward through a library table, filled once, and those
\* of the compatibility and graph layers, which look the name up each time.
Queries == {Fn("cuDeviceGet")}    \* and all others of cuda_originals.c
Copies  == {Fn("cuMemcpy")}       \* in the files of the two roles, as the launches
CudaForwards ==
  Queries \cup Copies \cup
  {Fn("cuLaunchGrid"), Fn("cuLaunchKernel"), Ptsz("cuLaunchKernel"), MultiDevice}
NvmlForwards == {Fn("nvmlDeviceGetCount")}
ByTable == CudaForwards \cup NvmlForwards

Functions == Interposed \cup ByTable
Roles     == {"be", "hp"}

SetupType ==
  [role    : [Threads -> Roles],
   policy  : {"event", "tgs", "passthrough"},
   library : {"found", "relative", "proxy", "missing", "no nvml"},
   exports : SUBSET Functions,       \* what dlsym finds in the driver
   alias   : BOOLEAN,                \* cuGetProcAddress returns other addresses
   handles : SUBSET {"default", "next"},
   lookups : [Threads -> SUBSET Functions],  \* what each thread looks up
   links   : [Threads -> SUBSET Functions],  \* what it calls by name
   memory  : BOOLEAN,                \* whether it allocates
   fatal   : BOOLEAN,                \* whether it makes a call that ends it
   ranges  : SUBSET ({0} \X Int)]    \* stream priorities: least, greatest

ASSUME SetupAssumption == Setups \subseteq SetupType

\* A function pointer: a proxy's entry point or the driver's function, at the
\* address dlsym exports it at or at another.  answers is the function that
\* was asked for.
Wrapper(fn, asked)       == [kind |-> "proxy", fn |-> fn, alias |-> FALSE, answers |-> asked]
Driver(fn, alias, asked) == [kind |-> "driver", fn |-> fn, alias |-> alias, answers |-> asked]
NoPointer == [kind |-> "null", fn |-> Fn("none"), alias |-> FALSE, answers |-> Fn("none")]

Proc(t) == setup.role[t]
Runs(t) == status[Proc(t)] = "runs"

\* lilt_system_dlsym(g_cuda_real_handle, symbol)
Real(fn) == IF fn \in setup.exports THEN Driver(fn, FALSE, fn) ELSE NoPointer

NoWork == [pc |-> "idle", goal |-> "none", fn |-> Fn("none"), version |-> 11,
           flag |-> FALSE, captured |-> FALSE, configured |-> TRUE, hooked |-> "no"]

Init ==
  /\ setup \in Setups
  /\ once = [p \in Roles |-> "never"]
  /\ table = [p \in Roles |-> {}]
  /\ status = [p \in Roles |-> "runs"]
  /\ ready = [p \in Roles |-> FALSE]
  /\ call = [t \in Threads |-> NoWork]
  /\ getproc = [t \in Threads |-> Wrapper(Fn("cuGetProcAddress"), Fn("cuGetProcAddress"))]
  /\ pointer = [t \in Threads |-> NoPointer]
  /\ bypass = [t \in Threads |-> FALSE]
  /\ streams = {}
  /\ MemInit

Goto(t, pc)   == call' = [call EXCEPT ![t].pc = pc]
Return(t, hooked) == call' = [call EXCEPT ![t] = [NoWork EXCEPT !.hooked = hooked]]
Answer(t, p)  == pointer' = [pointer EXCEPT ![t] = p]
Stop(p, why)  == status' = [status EXCEPT ![p] = why]

Idle(t) == Runs(t) /\ call[t].pc = "idle"

---------------------------------------------------------------------------
(* The loader: load_necessary_data, once in a process.                     *)

\* Mutant: a flag instead of pthread_once: the others go on at once.
EnterOnceNoWait(t) ==
  /\ Runs(t) /\ call[t].pc = "load"
  /\ once' = [once EXCEPT ![Proc(t)] = "done"]
  /\ Goto(t, IF once[Proc(t)] = "never" THEN "open" ELSE "loaded")
  /\ UNCHANGED <<setup, table, status, ready, getproc, pointer, bypass, streams, memVars>>

\* The first thread loads, the others wait for it.
EnterOnce(t) ==
  /\ Runs(t) /\ call[t].pc = "load"
  /\ \/ /\ once[Proc(t)] = "never"
        /\ once' = [once EXCEPT ![Proc(t)] = "running"]
        /\ Goto(t, "open")
     \/ /\ once[Proc(t)] = "done"
        /\ Goto(t, "loaded")
        /\ UNCHANGED once
  /\ UNCHANGED <<setup, table, status, ready, getproc, pointer, bypass, streams, memVars>>

\* load_real_cuda_handle: a path that is relative, leads back to the proxy or
\* cannot be opened ends the process.
OpenDriver(t) ==
  /\ Runs(t) /\ call[t].pc = "open"
  /\ IF setup.library \in {"relative", "proxy", "missing"}
       THEN Stop(Proc(t), "exited") /\ UNCHANGED call
       ELSE Goto(t, "cuda") /\ UNCHANGED status
  /\ UNCHANGED <<setup, once, table, ready, getproc, pointer, bypass, streams, memVars>>

\* Mutant: the table filled by the interposed dlsym, which loads first.
LoadCudaReenters(t) ==
  /\ Runs(t) /\ call[t].pc = "cuda"
  /\ Goto(t, "load")
  /\ UNCHANGED <<procVars, getproc, pointer, bypass, streams, memVars>>

\* load_cuda_libraries: the entries of the CUDA table, by the system's dlsym.
LoadCuda(t) ==
  /\ Runs(t) /\ call[t].pc = "cuda"
  /\ table' = [table EXCEPT ![Proc(t)] = CudaForwards \cap setup.exports]
  /\ Goto(t, "nvml")
  /\ UNCHANGED <<setup, once, status, ready, getproc, pointer, bypass, streams, memVars>>

\* load_driver_libraries: those of the NVML table; the call that loads is
\* then done.
LoadNvml(t) ==
  /\ Runs(t) /\ call[t].pc = "nvml"
  /\ IF setup.library = "no nvml"
       THEN /\ Stop(Proc(t), "exited")
            /\ UNCHANGED <<table, once, call>>
       ELSE /\ table' = [table EXCEPT ![Proc(t)] = @ \cup (NvmlForwards \cap setup.exports)]
            /\ once' = [once EXCEPT ![Proc(t)] = "done"]
            /\ Goto(t, "loaded")
            /\ UNCHANGED status
  /\ UNCHANGED <<setup, ready, getproc, pointer, bypass, streams, memVars>>

---------------------------------------------------------------------------
(* Lookups.                                                                *)

\* What the driver's cuGetProcAddress gives for a symbol: the variant the
\* flag or the name asks for, the version the caller was built for.
DriverAnswer(symbol, version, flag) ==
  LET name == IF version = 12 /\ symbol.name \in DOMAIN Newer THEN Newer[symbol.name]
              ELSE IF symbol.name = "cuGraphInstantiate" THEN "cuGraphInstantiate_v2"
              ELSE symbol.name
      fn   == [name |-> name, ptsz |-> name \in Streamed /\ (symbol.ptsz \/ flag)]
  IN  IF fn \in setup.exports THEN Driver(fn, setup.alias, fn) ELSE NoPointer

SameCode(p, q) == p.kind = "driver" /\ q.kind = "driver" /\ p.fn = q.fn /\ p.alias = q.alias

\* Mutant: the version is not looked at.
ReplacementNoVersion(symbol, returned, version, flag) ==
  LET name == symbol.name
      Is(fn) == SameCode(returned, Real(fn))
  IN  CASE name \in Streamed ->
             [name |-> name,
              ptsz |-> Is(Ptsz(name)) \/ symbol.ptsz \/ (~Is(Fn(name)) /\ flag)]
        [] name \in DOMAIN Newer /\ Is(Fn(Newer[name])) -> Fn(Newer[name])
        [] name = "cuGraphInstantiate" /\ Is(Fn("cuGraphInstantiate_v2")) ->
             Fn("cuGraphInstantiate_v2")
        [] OTHER -> symbol

\* replace_getproc_pointer: the entry point that takes the place of what the
\* driver returned, by its address where that tells, or by what was asked.
Replacement(symbol, returned, version, flag) ==
  LET name == symbol.name
      Is(fn) == SameCode(returned, Real(fn))
  IN  CASE name \in Streamed ->
             [name |-> name,
              ptsz |-> Is(Ptsz(name)) \/ symbol.ptsz \/ (~Is(Fn(name)) /\ flag)]
        [] name = "cuGetProcAddress" ->
             IF Is(Fn("cuGetProcAddress_v2")) \/ (~Is(symbol) /\ version = 12)
               THEN Fn("cuGetProcAddress_v2") ELSE symbol
        [] name \in {"cuGraphInstantiate", "cuGraphInstantiate_v2"} ->
             IF Is(Fn("cuGraphInstantiateWithFlags")) THEN Fn("cuGraphInstantiateWithFlags")
             ELSE IF Is(Fn("cuGraphInstantiate_v2")) THEN Fn("cuGraphInstantiate_v2")
             ELSE symbol
        [] name = "cuGraphExecUpdate" ->
             IF Is(Fn("cuGraphExecUpdate_v2")) THEN Fn("cuGraphExecUpdate_v2") ELSE symbol
        [] OTHER -> symbol

\* dlsym of the proxy, which knows its own entry points without the driver.
\* What the driver lacks is looked for where the caller said, where the proxy
\* itself may have it.
\* RTLD_NEXT is the caller's own chain.
Dlsym(t, handle, symbol) ==
  /\ Idle(t) /\ handle \in setup.handles /\ symbol \in setup.lookups[t]
  /\ \/ /\ handle = "next"
        /\ Answer(t, Real(symbol))
        /\ UNCHANGED call
     \/ /\ handle # "next" /\ symbol \in Interposed
        /\ Answer(t, Wrapper(symbol, symbol))
        /\ UNCHANGED call
     \/ /\ handle # "next" /\ symbol \notin Interposed
        /\ call' = [call EXCEPT ![t] = [NoWork EXCEPT !.pc = "load", !.goal = "dlsym", !.fn = symbol]]
        /\ UNCHANGED pointer
  /\ UNCHANGED <<procVars, getproc, bypass, streams, memVars>>

DlsymEnds(t) ==
  /\ Runs(t) /\ call[t].pc = "loaded" /\ call[t].goal = "dlsym"
  /\ LET fn == call[t].fn IN
       \/ Answer(t, Real(fn))
       \/ fn \notin setup.exports /\ Answer(t, Wrapper(fn, fn))
  /\ Return(t, "no")
  /\ UNCHANGED <<procVars, getproc, bypass, streams, memVars>>

\* cuGetProcAddress and its second version, of the proxy or of the driver.
GetProcAddress(t, symbol, version, flag) ==
  /\ Idle(t) /\ symbol \in setup.lookups[t]
  /\ IF getproc[t].kind = "driver"
       THEN /\ Answer(t, DriverAnswer(symbol, version, flag))
            /\ UNCHANGED call
       ELSE /\ call' = [call EXCEPT ![t] = [NoWork EXCEPT !.pc = "load", !.goal = "getproc",
                          !.fn = symbol, !.version = version, !.flag = flag]]
            /\ UNCHANGED pointer
  /\ UNCHANGED <<procVars, getproc, bypass, streams, memVars>>

\* Mutant: cuGetProcAddress itself is not among what it replaces.
GetProcAddressEndsBare(t) ==
  LET c == call[t]
      returned == DriverAnswer(c.fn, c.version, c.flag)
      answer ==
        IF getproc[t].fn \notin setup.exports \/ returned.kind = "null" THEN NoPointer
        ELSE IF c.fn \in Interposed \ GetProcs
             THEN Wrapper(Replacement(c.fn, returned, c.version, c.flag), returned.fn)
        ELSE returned
  IN  /\ Runs(t) /\ c.pc = "loaded" /\ c.goal = "getproc"
      /\ Answer(t, answer)
      /\ Return(t, "no")
      /\ UNCHANGED <<procVars, getproc, bypass, streams, memVars>>

GetProcAddressEnds(t) ==
  LET c == call[t]
      returned == DriverAnswer(c.fn, c.version, c.flag)
      answer ==
        IF getproc[t].fn \notin setup.exports \/ returned.kind = "null" THEN NoPointer
        ELSE IF c.fn \in Interposed
             THEN Wrapper(Replacement(c.fn, returned, c.version, c.flag), returned.fn)
        ELSE returned
  IN  /\ Runs(t) /\ c.pc = "loaded" /\ c.goal = "getproc"
      /\ Answer(t, answer)
      /\ Return(t, "no")
      /\ UNCHANGED <<procVars, getproc, bypass, streams, memVars>>

\* The program goes on to use the cuGetProcAddress it looked up.
UseGetProc(t) ==
  /\ Idle(t) /\ pointer[t].fn \in GetProcs
  /\ getproc' = [getproc EXCEPT ![t] = pointer[t]]
  /\ Answer(t, NoPointer)
  /\ UNCHANGED <<procVars, call, bypass, streams, memVars>>

---------------------------------------------------------------------------
(* Calls.                                                                  *)

\* cuInit, cuDriverGetVersion, nvmlInit_v2, nvmlInitWithFlags, until one of
\* them has returned.
CallInit(t) ==
  /\ Idle(t) /\ ~ready[Proc(t)]
  /\ call' = [call EXCEPT ![t] = [NoWork EXCEPT !.pc = "load", !.goal = "init"]]
  /\ UNCHANGED <<procVars, getproc, pointer, bypass, streams, memVars>>

InitEnds(t) ==
  /\ Runs(t) /\ call[t].pc = "loaded" /\ call[t].goal = "init"
  /\ ready' = [ready EXCEPT ![Proc(t)] = TRUE]
  /\ Return(t, "no")
  /\ UNCHANGED <<setup, once, table, status, getproc, pointer, bypass, streams, memVars>>

\* A program calls what it links to or a pointer it has, once CUDA or NVML is
\* initialized.  The stream may be under capture; cuLaunchKernelEx may be
\* given no configuration.
CallFunction(t, p, captured, configured) ==
  /\ Idle(t) /\ ready[Proc(t)]
  /\ \/ p = pointer[t] /\ p.kind # "null"
     \/ p.kind = "proxy" /\ p.fn \in setup.links[t]
  /\ p.fn \in setup.exports \/ p.fn \notin ByTable
  /\ captured => p.fn.name \in HookedLaunches
  /\ ~configured => p.fn.name = "cuLaunchKernelEx"
  /\ call' = [call EXCEPT ![t] =
                [NoWork EXCEPT !.fn = p.fn, !.captured = captured, !.configured = configured,
                   !.goal = IF p.kind = "driver" THEN "direct" ELSE "call",
                   !.pc = IF p.kind = "driver" THEN "driver"
                          ELSE IF p.fn \notin ByTable THEN "load"
                          ELSE IF p.fn.name \in HookedLaunches THEN "before" ELSE "driver"]]
  /\ UNCHANGED <<procVars, getproc, pointer, bypass, streams, memVars>>

\* An entry point that has looked up the driver's function by name: without
\* one it returns CUDA_ERROR_NOT_SUPPORTED.
LookedUp(t) ==
  LET c == call[t] IN
  /\ Runs(t) /\ c.pc = "loaded" /\ c.goal = "call"
  /\ IF c.fn \notin setup.exports THEN Return(t, "no")
     ELSE Goto(t, IF c.fn.name \in HookedLaunches /\ c.configured THEN "before" ELSE "driver")
  /\ UNCHANGED <<procVars, getproc, pointer, bypass, streams, memVars>>

\* lilt_before_kernel_launch, which an HP's cuLaunchKernel and cuLaunchGrid
\* call, looks at no capture; lilt_before_kernel_launch_ex, of all the other
\* launches, does so under the event policy and then stays out.
LooksAtCapture(t) ==
  setup.role[t] = "be" \/ call[t].fn.name \in {"cuLaunchKernelEx", "cuGraphLaunch"}

StaysOut(t) ==
  setup.policy = "event" /\ LooksAtCapture(t) /\ call[t].captured

BeforeLaunch(t) ==
  /\ Runs(t) /\ call[t].pc = "before"
  /\ bypass' = IF LooksAtCapture(t) THEN [bypass EXCEPT ![t] = StaysOut(t)] ELSE bypass
  /\ call' = [call EXCEPT ![t] =
                [@ EXCEPT !.pc = "driver",
                          !.hooked = CASE setup.policy = "passthrough" -> "passed"
                                       [] StaysOut(t)                  -> "bypassed"
                                       [] OTHER                        -> "admitted"]]
  /\ UNCHANGED <<procVars, getproc, pointer, streams, memVars>>

\* The driver's function: through the table there is none for an entry that
\* has not been filled.
CallDriver(t) ==
  LET c == call[t] IN
  /\ Runs(t) /\ c.pc = "driver"
  /\ IF c.goal = "call" /\ c.fn \in ByTable \ table[Proc(t)]
       THEN Stop(Proc(t), "called null") /\ UNCHANGED call
       ELSE /\ IF c.hooked = "no" THEN Return(t, "no") ELSE Goto(t, "after")
            /\ UNCHANGED status
  /\ UNCHANGED <<setup, once, table, ready, getproc, pointer, bypass, streams, memVars>>

\* lilt_after_kernel_launch.
Concluded(hooked) == IF hooked = "admitted" THEN "reported" ELSE "spurious"

\* Mutant: the note of a captured launch is left for the next one.
AfterLaunchKeepsBypass(t) ==
  LET c == call[t] IN
  /\ Runs(t) /\ c.pc = "after"
  /\ Return(t, IF bypass[t] \/ setup.policy # "event" THEN c.hooked ELSE Concluded(c.hooked))
  /\ UNCHANGED <<procVars, getproc, pointer, bypass, streams, memVars>>

AfterLaunch(t) ==
  LET c == call[t] IN
  /\ Runs(t) /\ c.pc = "after"
  /\ bypass' = [bypass EXCEPT ![t] = FALSE]
  /\ Return(t, IF bypass[t] \/ setup.policy # "event" THEN c.hooked ELSE Concluded(c.hooked))
  /\ UNCHANGED <<procVars, getproc, pointer, streams, memVars>>

\* Calls the proxy answers by ending the process: a BE's that creates an
\* array, an HP's that ends a context while the thread has none.
CallFatal(t) ==
  /\ Idle(t) /\ ready[Proc(t)] /\ setup.fatal
  /\ Stop(Proc(t), "exited")
  /\ UNCHANGED <<setup, once, table, ready, appVars, memVars>>

---------------------------------------------------------------------------
(* Streams.                                                                *)

\* Halving in C, which rounds towards zero.
Halved(n) == IF n < 0 THEN -((-n) \div 2) ELSE n \div 2
Larger(a, b)  == IF a > b THEN a ELSE b
Smaller(a, b) == IF a < b THEN a ELSE b

\* Mutant: both roles are bounded by the same middle.
BoundedPrioritySameMiddle(role, least, greatest, asked) ==
  IF role = "be" THEN Larger(asked, Halved(least + greatest))
  ELSE Smaller(asked, Halved(least + greatest))

\* The priority a stream is created with (the smaller, the more urgent):
\* cuStreamCreateWithPriority bounds what is asked, cuStreamCreate chooses.
BoundedPriority(role, least, greatest, asked) ==
  IF role = "be" THEN Larger(asked, Halved(least + greatest))
  ELSE Smaller(asked, Halved(least + greatest - 1))

ChosenPriority(role, least, greatest) ==
  IF role = "be" THEN least ELSE Halved(least + greatest - 1)

\* What the driver gives a stream no priority was asked for: the least.
DefaultPriority == 0

\* cuStreamCreate falls back on the driver's own when it cannot learn the range
\* or the driver refuses the priority; cuStreamCreateWithPriority, without the
\* range, passes on what the program asks for.
CreateStream(t, range) ==
  LET least == range[1]
      greatest == range[2]
      role == setup.role[t]
      Made(priority, by) ==
        streams' = streams \cup {[role |-> role, priority |-> priority, range |-> range, by |-> by]}
  IN  /\ Idle(t) /\ ready[Proc(t)] /\ range \in setup.ranges
      /\ Cardinality(streams) < MaxStreams
      /\ \/ \E asked \in greatest .. least :
              \/ Made(BoundedPriority(role, least, greatest, asked), "proxy")
              \/ Made(asked, "program")
         \/ Made(ChosenPriority(role, least, greatest), "proxy")
         \/ Made(DefaultPriority, "driver")
      /\ UNCHANGED <<procVars, call, getproc, pointer, bypass, memVars>>

---------------------------------------------------------------------------
(* Memory, in a program that allocates and has initialized.                *)
MemBegins(t) ==
  LET isBe == setup.role[t] = "be" IN
  /\ Idle(t) /\ ready[Proc(t)] /\ setup.memory
  /\ \/ \E ok \in BOOLEAN : BeginAlloc(t, ok)
     \/ \E p \in Pointers : BeginFree(t, p, isBe)
  /\ UNCHANGED <<procVars, appVars>>

MemProceeds(t) ==
  /\ Runs(t)
  /\ MemStep(t, setup.role[t] = "be")
  /\ UNCHANGED <<procVars, appVars>>

\* The limit manager, which the first limited launch starts: the HP may have
\* left at any time.
TransferBegins ==
  /\ setup.memory /\ setup.policy = "tgs" /\ ready["be"] /\ status["be"] = "runs"
  /\ BeginTransfer
  /\ UNCHANGED <<procVars, appVars>>

TransferProceeds ==
  /\ status["be"] = "runs"
  /\ Look(Manager) \/ InitList(Manager) \/ Walk
  /\ UNCHANGED <<procVars, appVars>>

\* Without the device's context the transfer ends the process.
TransferFails ==
  /\ status["be"] = "runs" /\ mem[Manager].at = "walk"
  /\ Stop("be", "exited")
  /\ UNCHANGED <<setup, once, table, ready, appVars, memVars>>

---------------------------------------------------------------------------
Proceeds(t) ==
  \/ EnterOnce(t) \/ OpenDriver(t) \/ LoadCuda(t) \/ LoadNvml(t)
  \/ DlsymEnds(t) \/ GetProcAddressEnds(t) \/ InitEnds(t) \/ LookedUp(t)
  \/ BeforeLaunch(t) \/ CallDriver(t) \/ AfterLaunch(t)

Begins(t) ==
  /\ mem[t].at = "no"
  /\ \/ \E handle \in {"default", "next"}, symbol \in setup.lookups[t] : Dlsym(t, handle, symbol)
     \/ \E symbol \in setup.lookups[t], version \in {11, 12}, flag \in BOOLEAN :
          GetProcAddress(t, symbol, version, flag)
     \/ UseGetProc(t)
     \/ CallInit(t)
     \/ \E p \in {pointer[t]} \cup {Wrapper(f, f) : f \in setup.links[t]},
           captured, configured \in BOOLEAN : CallFunction(t, p, captured, configured)
     \/ CallFatal(t)
     \/ \E range \in setup.ranges : CreateStream(t, range)

Next ==
  \/ \E t \in Threads : Proceeds(t) \/ Begins(t) \/ MemBegins(t) \/ MemProceeds(t)
  \/ TransferBegins \/ TransferProceeds \/ TransferFails

Spec == Init /\ [][Next]_vars

\* A thread in a call goes on unless it waits for another to load.
Fairness == \A t \in Threads : WF_vars(Proceeds(t))
LiveSpec == Spec /\ Fairness

---------------------------------------------------------------------------
(* Properties.                                                             *)
FnType == [name : {fn.name : fn \in Functions} \cup {"none"}, ptsz : BOOLEAN]

PointerType == [kind : {"null", "proxy", "driver"}, fn : FnType, alias : BOOLEAN, answers : FnType]

CallType ==
  [pc : {"idle", "load", "open", "cuda", "nvml", "loaded", "before", "driver", "after"},
   goal : {"none", "dlsym", "getproc", "init", "call", "direct"},
   fn : FnType, version : {11, 12}, flag : BOOLEAN, captured : BOOLEAN, configured : BOOLEAN,
   hooked : {"no", "passed", "bypassed", "admitted", "reported", "spurious"}]

ProcTypeOK ==
  /\ setup \in SetupType
  /\ once \in [Roles -> {"never", "running", "done"}]
  /\ table \in [Roles -> SUBSET ByTable]
  /\ status \in [Roles -> {"runs", "exited", "called null"}]
  /\ ready \in [Roles -> BOOLEAN]
  /\ call \in [Threads -> CallType]
  /\ getproc \in [Threads -> PointerType]
  /\ pointer \in [Threads -> PointerType]
  /\ bypass \in [Threads -> BOOLEAN]
  /\ streams \subseteq [role : Roles, priority : Int, range : {0} \X Int,
                        by : {"proxy", "program", "driver"}]

MemTypeOK ==
  /\ \A p \in Pointers : device[p] \in {"free", "recorded"} \cup Threads
  /\ \A t \in Threads : held[t] \subseteq Pointers
  /\ used \in Nat

TypeOK == ProcTypeOK /\ MemTypeOK

\* Whatever chain of lookups a program goes through, short of RTLD_NEXT, every
\* launch of a function the proxy interposes or the program links to runs
\* between the hooks, but for two: a cuLaunchKernelEx without configuration
\* and cuLaunchCooperativeKernelMultiDevice, which no hook sees in either role
\* (driver_proxy_compat.c: replace_getproc_pointer 184, dlsym 149;
\* cuda_originals.c 1025).
LaunchesAreHooked ==
  "next" \notin setup.handles =>
    \A t \in Threads :
      LET c == call[t] IN
      c.pc = "driver" /\ c.fn.name \in Launches \ {MultiDevice.name} /\ c.configured
        /\ (c.fn \in Interposed \/ c.goal = "call")
        => c.hooked # "no"

\* What the address alone tells: where the driver gives out others than it
\* exports, its newer cuGraphInstantiate and cuGraphExecUpdate are taken for
\* the older, of other parameters (241, 259).
TakenForOlder(p) ==
  /\ setup.alias /\ p.kind = "proxy"
  /\ \/ /\ p.fn = Fn("cuGraphInstantiate")
        /\ p.answers \in {Fn("cuGraphInstantiate_v2"), Fn("cuGraphInstantiateWithFlags")}
     \/ /\ p.fn = Fn("cuGraphExecUpdate")
        /\ p.answers = Fn("cuGraphExecUpdate_v2")

\* A lookup gives the function that was asked for, of the variant and the
\* version the driver would have given, although the proxy can tell an address
\* it does not know only by the flag and the version: two cuGetProcAddress
\* with other parameters are never taken for each other (274), and of the rest
\* only what TakenForOlder says is.
KindPreserved ==
  \A t \in Threads : \A p \in {pointer[t], getproc[t]} :
    p.fn = p.answers \/ TakenForOlder(p)

\* What the hook before a launch has started the hook after it ends, and
\* nothing else: a thread's note that a launch was captured is never left for
\* a launch of another kind that follows (be_intercept.c 281, hp_intercept.c 233).
HooksPaired ==
  \A t \in Threads :
    /\ call[t].hooked # "spurious"
    /\ call[t].pc = "idle" /\ setup.policy = "event" => call[t].hooked # "admitted"

\* No call goes through an empty table entry once some thread has seen an
\* initialising call return, with two threads loading at once (loader.c 909).
NoCallThroughNull == \A p \in Roles : status[p] # "called null"

\* No stream of a BE is more urgent than one of an HP, whatever the two
\* programs ask for, as long as the proxies gave both their priority; and each
\* of an HP's is more urgent on a device whose priorities, from zero down, are
\* even in number.  With an odd number the middle one is open to both
\* (be_intercept.c 2110, hp_intercept.c 1230).  A BE's stream the driver placed
\* does no harm; an HP's is as little urgent as any, and one with the priority
\* its program asked for may be anywhere.
HpOutranksBe ==
  \A b, h \in streams :
    /\ b.role = "be" /\ b.by # "program"
    /\ h.role = "hp" /\ h.by = "proxy"
    /\ b.range = h.range /\ h.range[2] <= h.range[1]
    =>
      /\ h.priority <= b.priority
      /\ LET sum == h.range[1] + h.range[2] IN
           sum < 0 /\ sum % 2 = 1 => h.priority < b.priority

\* The types, and a list of allocations that covers what the driver has given
\* but for what was lost with an earlier list, with a total that counts both
\* (be_intercept.c: allocate_mem, delete_mem, init_list).
MemoryAccounted == TypeOK /\ LiveIsListed /\ UsedIsTotal

\* A call returns or its process ends: nobody waits for a loader that does
\* not finish.
CallsReturn ==
  \A t \in Threads : call[t].pc # "idle" ~> (call[t].pc = "idle" \/ ~Runs(t))
=============================================================================
