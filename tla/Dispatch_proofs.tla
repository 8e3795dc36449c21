-------------------------- MODULE Dispatch_proofs --------------------------
(***************************************************************************)
(* Theorems about Dispatch: for every driver and program, every number of  *)
(* threads and every chain of lookups.                                     *)
(***************************************************************************)
EXTENDS Dispatch, SumTheorems, SequenceTheorems, TLAPS

USE SetupAssumption

---------------------------------------------------------------------------
(* Types.                                                                  *)

Names ==
  {"none", "cuLaunchKernel", "cuLaunchKernelEx", "cuGraphLaunch",
   "cuGraphInstantiateWithParams", "cuGetProcAddress", "cuGetProcAddress_v2",
   "cuGraphExecDestroy", "cuGraphInstantiate", "cuGraphInstantiate_v2",
   "cuGraphInstantiateWithFlags", "cuGraphNodeSetEnabled", "cuGraphExecUpdate",
   "cuGraphExecUpdate_v2", "cuDeviceGet", "cuMemcpy", "cuLaunchGrid", "nvmlDeviceGetCount",
   "cuLaunchCooperativeKernelMultiDevice"}

LEMMA FunctionNames == FnType = [name : Names, ptsz : BOOLEAN]
  <1>1. \A fn \in Functions : fn.name \in Names
    BY DEF Functions, Interposed, ByTable, CudaForwards, Queries, Copies,
           NvmlForwards, GetProcs, Streamed, MultiDevice, Fn, Ptsz, Names
  <1>2. \A name \in Names \ {"none"} : Fn(name) \in Functions
    BY DEF Functions, Interposed, ByTable, CudaForwards, Queries, Copies,
           NvmlForwards, GetProcs, Streamed, MultiDevice, Fn, Names
  <1>3. \A name \in Names \ {"none"} : Fn(name).name = name
    BY DEF Fn
  <1>4. {fn.name : fn \in Functions} \cup {"none"} \subseteq Names
    BY <1>1 DEF Names
  <1>5. Names \subseteq {fn.name : fn \in Functions} \cup {"none"}
    BY <1>2, <1>3
  <1> QED
    BY <1>4, <1>5 DEF FnType

LEMMA FunctionsTyped == Functions \subseteq FnType /\ Fn("none") \in FnType
  <1>1. \A name \in Names : Fn(name) \in FnType /\ Ptsz(name) \in FnType
    BY FunctionNames DEF Fn, Ptsz
  <1>2. {"cuDeviceGet", "cuMemcpy", "cuLaunchGrid", "nvmlDeviceGetCount", "none",
         "cuLaunchCooperativeKernelMultiDevice"} \cup Streamed \subseteq Names
    BY DEF Streamed, Names
  <1>3. Interposed \subseteq FnType
    BY <1>1, <1>2 DEF Interposed, GetProcs, Names
  <1>4. ByTable \subseteq FnType
    BY <1>1, <1>2 DEF ByTable, CudaForwards, Queries, Copies, NvmlForwards, Streamed, MultiDevice
  <1> QED
    BY <1>1, <1>2, <1>3, <1>4 DEF Functions

LEMMA NoWorkTyped == NoWork \in CallType
  BY FunctionsTyped DEF NoWork, CallType

LEMMA RealTyped ==
  ASSUME NEW fn \in FnType
  PROVE  Real(fn) \in PointerType /\ Wrapper(fn, fn) \in PointerType
  BY FunctionsTyped DEF Real, Wrapper, Driver, NoPointer, PointerType

LEMMA AnswerTyped ==
  ASSUME NEW symbol \in FnType, NEW version \in {11, 12}, NEW flag \in BOOLEAN,
         setup \in SetupType
  PROVE  DriverAnswer(symbol, version, flag) \in PointerType
  BY FunctionsTyped DEF DriverAnswer, Driver, NoPointer, PointerType, SetupType

LEMMA ReplacementTyped ==
  ASSUME NEW symbol \in FnType, NEW version \in {11, 12}, NEW flag \in BOOLEAN,
         NEW returned \in PointerType
  PROVE  Replacement(symbol, returned, version, flag) \in FnType
  BY FunctionNames DEF Replacement, SameCode, Real, Driver, NoPointer, PointerType, Fn, Ptsz, Names

LEMMA InitTypes == Init => ProcTypeOK
  <1>1. Fn("cuGetProcAddress") \in FnType
    BY FunctionsTyped DEF Functions, Interposed, GetProcs
  <1>2. Wrapper(Fn("cuGetProcAddress"), Fn("cuGetProcAddress")) \in PointerType
    BY <1>1, RealTyped
  <1>3. NoPointer \in PointerType
    BY FunctionsTyped DEF NoPointer, PointerType
  <1> QED
    BY <1>2, <1>3, NoWorkTyped DEF Init, ProcTypeOK, Roles

Places == {"idle", "load", "open", "cuda", "nvml", "loaded", "before", "driver", "after"}

\* A thread moves on in its call, or leaves it.
LEMMA GotoTyped ==
  ASSUME call \in [Threads -> CallType], NEW t \in Threads, NEW pc \in Places, Goto(t, pc)
  PROVE  call' \in [Threads -> CallType]
  <1> DEFINE c == [call[t] EXCEPT !.pc = pc]
  <1>1. c \in CallType
    BY DEF CallType, Places
  <1>2. call' = [call EXCEPT ![t] = c]
    BY DEF Goto
  <1> QED
    BY <1>1, <1>2

Hooked == {"no", "passed", "bypassed", "admitted", "reported", "spurious"}

LEMMA ReturnTyped ==
  ASSUME call \in [Threads -> CallType], NEW t \in Threads, NEW hooked \in Hooked,
         Return(t, hooked)
  PROVE  call' \in [Threads -> CallType]
  <1> DEFINE c == [NoWork EXCEPT !.hooked = hooked]
  <1>1. c \in CallType
    BY NoWorkTyped DEF CallType, Hooked
  <1>2. call' = [call EXCEPT ![t] = c]
    BY DEF Return
  <1> QED
    BY <1>1, <1>2

LEMMA HalvedInt == \A n \in Int : Halved(n) \in Int
  BY DEF Halved

\* The priorities the proxies give a stream.
Priorities(role, least, greatest) ==
  {BoundedPriority(role, least, greatest, asked) : asked \in greatest .. least}
    \cup {ChosenPriority(role, least, greatest)}

LEMMA PriorityInt ==
  ASSUME NEW role, NEW least \in Int, NEW greatest \in Int
  PROVE  Priorities(role, least, greatest) \subseteq Int
  <1>1. Halved(least + greatest) \in Int /\ Halved(least + greatest - 1) \in Int
    BY HalvedInt
  <1>2. \A asked \in Int : BoundedPriority(role, least, greatest, asked) \in Int
    BY <1>1 DEF BoundedPriority, Larger, Smaller
  <1>3. ChosenPriority(role, least, greatest) \in Int
    BY <1>1 DEF ChosenPriority
  <1> QED
    BY <1>2, <1>3 DEF Priorities

LEMMA RangeInts == \A range \in {0} \X Int : range[1] = 0 /\ range[1] \in Int /\ range[2] \in Int
  OBVIOUS

StreamType ==
  [role : Roles, priority : Int, range : {0} \X Int, by : {"proxy", "program", "driver"}]

\* What a stream can be created with.
StreamMade(t, range, priority, by) ==
  /\ streams' = streams \cup
       {[role |-> setup.role[t], priority |-> priority, range |-> range, by |-> by]}
  /\ \/ by = "proxy" /\ priority \in Priorities(setup.role[t], range[1], range[2])
     \/ by = "program" /\ priority \in range[2] .. range[1]
     \/ by = "driver" /\ priority = DefaultPriority

LEMMA MadeInt ==
  ASSUME NEW t, NEW range \in {0} \X Int, NEW priority, NEW by,
         StreamMade(t, range, priority, by)
  PROVE  priority \in Int
  <1>1. range[1] \in Int /\ range[2] \in Int
    BY RangeInts
  <1>2. Priorities(setup.role[t], range[1], range[2]) \subseteq Int
    BY <1>1, PriorityInt
  <1>3. CASE priority \in Priorities(setup.role[t], range[1], range[2])
    BY <1>2, <1>3
  <1>4. CASE priority \in range[2] .. range[1]
    BY <1>1, <1>4, SMT
  <1>5. CASE priority = DefaultPriority
    BY <1>5 DEF DefaultPriority
  <1> QED
    BY <1>3, <1>4, <1>5 DEF StreamMade

LEMMA StreamIsMade ==
  ASSUME NEW t, NEW range, CreateStream(t, range)
  PROVE  \E priority, by : StreamMade(t, range, priority, by)
  <1>1. CASE \E asked \in range[2] .. range[1] :
               StreamMade(t, range, BoundedPriority(setup.role[t], range[1], range[2], asked), "proxy")
    BY <1>1
  <1>2. CASE \E asked \in range[2] .. range[1] : StreamMade(t, range, asked, "program")
    BY <1>2
  <1>3. CASE StreamMade(t, range, ChosenPriority(setup.role[t], range[1], range[2]), "proxy")
    BY <1>3
  <1>4. CASE StreamMade(t, range, DefaultPriority, "driver")
    BY <1>4
  <1> QED
    BY <1>1, <1>2, <1>3, <1>4, Zenon DEF CreateStream, StreamMade, Priorities

LEMMA NextTypes == ProcTypeOK /\ [Next]_vars => ProcTypeOK'
  <1> SUFFICES ASSUME ProcTypeOK, [Next]_vars PROVE ProcTypeOK'
    OBVIOUS
  <1> USE DEF ProcTypeOK, Places, procVars
  <1>0. /\ \A t \in Threads : Proc(t) \in Roles /\ setup.role[t] \in Roles
        /\ \A t \in Threads : setup.lookups[t] \subseteq Functions
        /\ \A t \in Threads : setup.links[t] \subseteq Functions
        /\ setup.ranges \subseteq {0} \X Int
    BY DEF SetupType, Proc
  <1>1. ASSUME NEW t \in Threads, EnterOnce(t) PROVE ProcTypeOK'
    BY <1>0, <1>1, GotoTyped DEF EnterOnce
  <1>2. ASSUME NEW t \in Threads, OpenDriver(t) PROVE ProcTypeOK'
    BY <1>0, <1>2, GotoTyped DEF OpenDriver, Stop
  <1>3. ASSUME NEW t \in Threads, LoadCuda(t) PROVE ProcTypeOK'
    BY <1>0, <1>3, GotoTyped DEF LoadCuda, ByTable
  <1>4. ASSUME NEW t \in Threads, LoadNvml(t) PROVE ProcTypeOK'
    <2>1. CASE setup.library = "no nvml"
      BY <1>0, <1>4, <2>1 DEF LoadNvml, Stop
    <2>2. CASE setup.library # "no nvml"
      <3>1. table' \in [Roles -> SUBSET ByTable]
        <4>1. table' = [table EXCEPT ![Proc(t)] = @ \cup (NvmlForwards \cap setup.exports)]
          BY <1>4, <2>2 DEF LoadNvml
        <4> QED
          BY <1>0, <4>1 DEF ByTable
      <3>2. once' \in [Roles -> {"never", "running", "done"}] /\ Goto(t, "loaded")
        BY <1>0, <1>4, <2>2 DEF LoadNvml
      <3> QED
        BY <1>4, <2>2, <3>1, <3>2, GotoTyped DEF LoadNvml
    <2> QED
      BY <2>1, <2>2
  <1>5. ASSUME NEW t \in Threads, DlsymEnds(t) PROVE ProcTypeOK'
    <2>1. call[t].fn \in FnType
      BY DEF CallType
    <2>2. pointer' \in [Threads -> PointerType]
      BY <1>5, <2>1, RealTyped DEF DlsymEnds, Answer
    <2>3. Return(t, "no") /\ "no" \in Hooked
      BY <1>5 DEF DlsymEnds, Hooked
    <2>4. call' \in [Threads -> CallType]
      BY <2>3, ReturnTyped
    <2> QED
      BY <1>5, <2>2, <2>4 DEF DlsymEnds
  <1>6. ASSUME NEW t \in Threads, InitEnds(t) PROVE ProcTypeOK'
    <2>1. Return(t, "no") /\ "no" \in Hooked
      BY <1>6 DEF InitEnds, Hooked
    <2>2. ready' \in [Roles -> BOOLEAN]
      BY <1>0, <1>6 DEF InitEnds
    <2>3. call' \in [Threads -> CallType]
      BY <2>1, ReturnTyped
    <2> QED
      BY <1>6, <2>2, <2>3 DEF InitEnds
  <1>7. ASSUME NEW t \in Threads, LookedUp(t) PROVE ProcTypeOK'
    <2>1. call' \in [Threads -> CallType]
      <3>1. CASE Return(t, "no")
        BY <3>1, ReturnTyped DEF Hooked
      <3>2. CASE \E place \in {"before", "driver"} : Goto(t, place)
        BY <3>2, GotoTyped
      <3> QED
        BY <1>7, <3>1, <3>2 DEF LookedUp
    <2> QED
      BY <1>7, <2>1 DEF LookedUp
  <1>8. ASSUME NEW t \in Threads, GetProcAddressEnds(t) PROVE ProcTypeOK'
    <2> DEFINE c == call[t]
               returned == DriverAnswer(c.fn, c.version, c.flag)
    <2>1. c.fn \in FnType /\ c.version \in {11, 12} /\ c.flag \in BOOLEAN
      BY DEF CallType
    <2>2. returned \in PointerType
      BY <2>1, AnswerTyped
    <2>3. /\ NoPointer \in PointerType
          /\ Wrapper(Replacement(c.fn, returned, c.version, c.flag), returned.fn) \in PointerType
      <3>1. Replacement(c.fn, returned, c.version, c.flag) \in FnType /\ returned.fn \in FnType
        BY <2>1, <2>2, ReplacementTyped DEF PointerType
      <3> QED
        BY <3>1, FunctionsTyped DEF Wrapper, NoPointer, PointerType
    <2>4. \E p \in PointerType : Answer(t, p)
      BY <1>8, <2>2, <2>3 DEF GetProcAddressEnds
    <2>5. Return(t, "no") /\ "no" \in Hooked
      BY <1>8 DEF GetProcAddressEnds, Hooked
    <2>6. call' \in [Threads -> CallType]
      BY <2>5, ReturnTyped
    <2>7. pointer' \in [Threads -> PointerType]
      BY <2>4 DEF Answer
    <2> QED
      BY <1>8, <2>6, <2>7 DEF GetProcAddressEnds
  <1>9. ASSUME NEW t \in Threads, BeforeLaunch(t) PROVE ProcTypeOK'
    <2> DEFINE hooked == CASE setup.policy = "passthrough" -> "passed"
                           [] StaysOut(t)                  -> "bypassed"
                           [] OTHER                        -> "admitted"
               c == [call[t] EXCEPT !.pc = "driver", !.hooked = hooked]
    <2>1. hooked \in Hooked
      BY DEF Hooked
    <2>2. c \in CallType
      <3>1. call[t] \in CallType
        OBVIOUS
      <3> HIDE DEF hooked
      <3> QED
        BY <2>1, <3>1 DEF CallType, Hooked
    <2>3. call' = [call EXCEPT ![t] = c]
      BY <1>9 DEF BeforeLaunch
    <2>4. bypass' \in [Threads -> BOOLEAN]
      BY <1>9 DEF BeforeLaunch, StaysOut
    <2> QED
      BY ZenonT(30), <1>9, <2>2, <2>3, <2>4 DEF BeforeLaunch
  <1>10. ASSUME NEW t \in Threads, CallDriver(t) PROVE ProcTypeOK'
    <2>1. CASE Stop(Proc(t), "called null") /\ UNCHANGED call
      BY <1>0, <1>10, <2>1 DEF CallDriver, Stop
    <2>2. CASE (Return(t, "no") \/ Goto(t, "after")) /\ UNCHANGED status
      <3>1. call' \in [Threads -> CallType]
        BY <2>2, ReturnTyped, GotoTyped DEF Hooked
      <3> QED
        BY <1>10, <2>2, <3>1 DEF CallDriver
    <2> QED
      BY <1>10, <2>1, <2>2 DEF CallDriver
  <1>11. ASSUME NEW t \in Threads, AfterLaunch(t) PROVE ProcTypeOK'
    <2>1. \E hooked \in Hooked : Return(t, hooked)
      <3>1. call[t].hooked \in Hooked /\ Concluded(call[t].hooked) \in Hooked
        BY DEF CallType, Hooked, Concluded
      <3> QED
        BY <1>11, <3>1 DEF AfterLaunch
    <2>2. call' \in [Threads -> CallType]
      BY <2>1, ReturnTyped
    <2> QED
      BY <1>11, <2>2 DEF AfterLaunch
  <1>12. ASSUME NEW t \in Threads, NEW handle, NEW symbol, Dlsym(t, handle, symbol)
         PROVE  ProcTypeOK'
    <2>1. symbol \in FnType
      BY <1>0, <1>12, FunctionsTyped DEF Dlsym
    <2>2. call' \in [Threads -> CallType]
      <3> DEFINE c == [NoWork EXCEPT !.pc = "load", !.goal = "dlsym", !.fn = symbol]
      <3>1. c \in CallType
        BY <2>1, NoWorkTyped DEF CallType
      <3>2. call' = call \/ call' = [call EXCEPT ![t] = c]
        BY <1>12 DEF Dlsym
      <3> QED
        BY <3>1, <3>2
    <2>3. pointer' \in [Threads -> PointerType]
      BY <1>12, <2>1, RealTyped DEF Dlsym, Answer
    <2> QED
      BY <1>12, <2>2, <2>3 DEF Dlsym
  <1>13. ASSUME NEW t \in Threads, NEW symbol, NEW version \in {11, 12}, NEW flag \in BOOLEAN,
                GetProcAddress(t, symbol, version, flag)
         PROVE  ProcTypeOK'
    <2>1. symbol \in FnType
      BY <1>0, <1>13, FunctionsTyped DEF GetProcAddress
    <2>2. call' \in [Threads -> CallType]
      <3> DEFINE c == [NoWork EXCEPT !.pc = "load", !.goal = "getproc",
                         !.fn = symbol, !.version = version, !.flag = flag]
      <3>1. c \in CallType
        BY <1>13, <2>1, NoWorkTyped DEF CallType
      <3>2. call' = call \/ call' = [call EXCEPT ![t] = c]
        BY <1>13 DEF GetProcAddress
      <3> QED
        BY <3>1, <3>2
    <2>3. pointer' \in [Threads -> PointerType]
      <3>1. DriverAnswer(symbol, version, flag) \in PointerType
        BY <1>13, <2>1, AnswerTyped
      <3> QED
        BY <1>13, <3>1 DEF GetProcAddress, Answer
    <2> QED
      BY <1>13, <2>2, <2>3 DEF GetProcAddress
  <1>14. ASSUME NEW t \in Threads, UseGetProc(t) PROVE ProcTypeOK'
    <2>1. NoPointer \in PointerType
      BY FunctionsTyped DEF NoPointer, PointerType
    <2> QED
      BY <1>14, <2>1 DEF UseGetProc, Answer
  <1>15. ASSUME NEW t \in Threads, CallInit(t) PROVE ProcTypeOK'
    <2>1. call' \in [Threads -> CallType]
      BY <1>15, NoWorkTyped DEF CallInit, CallType
    <2> QED
      BY <1>15, <2>1 DEF CallInit
  <1>16. ASSUME NEW t \in Threads, NEW p, NEW captured \in BOOLEAN, NEW configured \in BOOLEAN,
                p \in {pointer[t]} \cup {Wrapper(f, f) : f \in setup.links[t]},
                CallFunction(t, p, captured, configured)
         PROVE  ProcTypeOK'
    <2>1. p.fn \in FnType
      <3>1. CASE p = pointer[t]
        BY <3>1 DEF PointerType
      <3>2. CASE p \in {Wrapper(f, f) : f \in setup.links[t]}
        <4>1. PICK f \in setup.links[t] : p = Wrapper(f, f)
          BY <3>2
        <4>2. f \in FnType /\ p.fn = f
          BY <1>0, <4>1, FunctionsTyped DEF Wrapper
        <4> QED
          BY <4>2
      <3> QED
        BY <1>16, <3>1, <3>2
    <2>2. call' \in [Threads -> CallType]
      <3> DEFINE goal == IF p.kind = "driver" THEN "direct" ELSE "call"
                 pc == IF p.kind = "driver" THEN "driver"
                       ELSE IF p.fn \notin ByTable THEN "load"
                       ELSE IF p.fn.name \in HookedLaunches THEN "before" ELSE "driver"
                 c == [NoWork EXCEPT !.fn = p.fn, !.captured = captured,
                         !.configured = configured, !.goal = goal, !.pc = pc]
      <3>1. goal \in {"direct", "call"} /\ pc \in {"driver", "load", "before"}
        OBVIOUS
      <3>2. call' = [call EXCEPT ![t] = c]
        BY <1>16 DEF CallFunction
      <3> HIDE DEF goal, pc
      <3>3. c \in CallType
        BY <2>1, <3>1, NoWorkTyped DEF CallType
      <3> QED
        BY <3>2, <3>3
    <2> QED
      BY <1>16, <2>2 DEF CallFunction
  <1>17. ASSUME NEW t \in Threads, CallFatal(t) PROVE ProcTypeOK'
    BY <1>0, <1>17 DEF CallFatal, Stop, appVars
  <1>18. ASSUME NEW t \in Threads, NEW range, CreateStream(t, range) PROVE ProcTypeOK'
    <2>1. range \in {0} \X Int
      BY <1>0, <1>18 DEF CreateStream
    <2>2. PICK priority, by : StreamMade(t, range, priority, by)
      BY <1>18, StreamIsMade
    <2>3. priority \in Int
      BY <2>1, <2>2, MadeInt
    <2>4. [role |-> setup.role[t], priority |-> priority, range |-> range, by |-> by] \in StreamType
      BY <1>0, <2>1, <2>2, <2>3 DEF StreamMade, StreamType
    <2>5. streams' \subseteq StreamType
      BY <2>2, <2>4 DEF StreamMade, StreamType
    <2> QED
      BY <1>18, <2>5 DEF CreateStream, StreamType
  <1>19. ASSUME UNCHANGED <<procVars, appVars>> PROVE ProcTypeOK'
    BY <1>19 DEF appVars
  <1>20. ASSUME NEW t \in Threads, Proceeds(t) PROVE ProcTypeOK'
    BY <1>1, <1>2, <1>3, <1>4, <1>5, <1>6, <1>7, <1>8, <1>9, <1>10, <1>11, <1>20 DEF Proceeds
  <1>21. ASSUME NEW t \in Threads, Begins(t) PROVE ProcTypeOK'
    <2> HIDE DEF ProcTypeOK, procVars
    <2>1. CASE \E p \in {pointer[t]} \cup {Wrapper(f, f) : f \in setup.links[t]},
                  captured, configured \in BOOLEAN : CallFunction(t, p, captured, configured)
      <3>1. PICK p \in {pointer[t]} \cup {Wrapper(f, f) : f \in setup.links[t]},
                 captured \in BOOLEAN, configured \in BOOLEAN :
                   CallFunction(t, p, captured, configured)
        BY <2>1
      <3> QED
        BY <1>16, <3>1
    <2>2. CASE \E handle \in {"default", "next"}, symbol \in setup.lookups[t] :
                 Dlsym(t, handle, symbol)
      BY <1>12, <2>2
    <2>3. CASE \E symbol \in setup.lookups[t], version \in {11, 12}, flag \in BOOLEAN :
                 GetProcAddress(t, symbol, version, flag)
      <3>1. PICK symbol \in setup.lookups[t], version \in {11, 12}, flag \in BOOLEAN :
                   GetProcAddress(t, symbol, version, flag)
        BY <2>3
      <3> QED
        BY <1>13, <3>1
    <2>4. CASE \E range \in setup.ranges : CreateStream(t, range)
      BY <1>18, <2>4
    <2>5. CASE UseGetProc(t) \/ CallInit(t) \/ CallFatal(t)
      BY <1>14, <1>15, <1>17, <2>5
    <2> QED
      BY <1>21, <2>1, <2>2, <2>3, <2>4, <2>5, Zenon DEF Begins
  <1>22. CASE Next
    <2>1. \/ \E t \in Threads : Proceeds(t) \/ Begins(t)
          \/ UNCHANGED <<procVars, appVars>>
          \/ TransferFails
      BY <1>22 DEF Next, MemBegins, MemProceeds, TransferBegins, TransferProceeds
    <2>2. CASE TransferFails
      BY <1>0, <2>2 DEF TransferFails, Stop, appVars
    <2> QED
      BY <1>19, <1>20, <1>21, <2>1, <2>2
  <1>23. CASE UNCHANGED vars
    BY <1>19, <1>23 DEF vars
  <1> QED
    BY <1>22, <1>23

LEMMA Types == Spec => []ProcTypeOK
  BY InitTypes, NextTypes, PTL DEF Spec

---------------------------------------------------------------------------
(* The loader.                                                             *)

Loading(t) == call[t].pc \in {"open", "cuda", "nvml"}

\* What a thread knows of the table from the place it is at.
KnowsTable(t) ==
  LET c == call[t] IN
  /\ Loading(t) => once[Proc(t)] = "running"
  /\ c.pc = "nvml" => table[Proc(t)] = CudaForwards \cap setup.exports
  /\ c.pc = "loaded" => once[Proc(t)] = "done"
  /\ c.goal = "call" /\ c.fn \in ByTable => c.fn \in setup.exports /\ ready[Proc(t)]

OneLoader ==
  \A t, u \in Threads : Loading(t) /\ Loading(u) /\ Proc(t) = Proc(u) => t = u

\* The table is full from the moment the loader is done, and there is at most
\* one loader in a process.
LoadsOnce ==
  /\ \A p \in Roles : once[p] = "done" => table[p] = ByTable \cap setup.exports
  /\ \A p \in Roles : ready[p] => once[p] = "done"
  /\ \A t \in Threads : KnowsTable(t)
  /\ OneLoader

LInv == ProcTypeOK /\ LoadsOnce /\ NoCallThroughNull

LEMMA InitLoads == Init => LoadsOnce /\ NoCallThroughNull
  BY DEF Init, NoWork, LoadsOnce, OneLoader, KnowsTable, Loading, NoCallThroughNull

\* What a step does to the call of its thread alone.
LEMMA CallChanges ==
  ASSUME call \in [Threads -> CallType], NEW t \in Threads
  PROVE  /\ \A pc : Goto(t, pc) =>
              /\ call'[t].pc = pc
              /\ call'[t].goal = call[t].goal /\ call'[t].fn = call[t].fn
              /\ call'[t].hooked = call[t].hooked
              /\ call'[t].captured = call[t].captured
              /\ call'[t].configured = call[t].configured
              /\ \A u \in Threads \ {t} : call'[u] = call[u]
         /\ \A hooked : Return(t, hooked) =>
              /\ call'[t].pc = "idle" /\ call'[t].goal = "none"
              /\ call'[t].hooked = hooked
              /\ \A u \in Threads \ {t} : call'[u] = call[u]
  BY DEF Goto, Return, NoWork, CallType

LEMMA OneLoaderKept ==
  ASSUME OneLoader, \A u \in Threads : (Loading(u)' => Loading(u)) /\ Proc(u)' = Proc(u)
  PROVE  OneLoader'
  BY DEF OneLoader

\* A step that changes no call.
LEMMA CallsKept ==
  ASSUME LInv, UNCHANGED <<setup, once, table, ready, call>>,
         \A p \in Roles : status'[p] # "called null"
  PROVE  LoadsOnce' /\ NoCallThroughNull'
  <1>1. \A u \in Threads : KnowsTable(u) /\ Loading(u)' = Loading(u) /\ Proc(u)' = Proc(u)
    BY DEF LInv, LoadsOnce, Loading, Proc
  <1>2. \A u \in Threads : KnowsTable(u)'
    BY <1>1 DEF KnowsTable
  <1>3. OneLoader'
    BY <1>1, OneLoaderKept DEF LInv, LoadsOnce
  <1> QED
    BY <1>2, <1>3 DEF LInv, LoadsOnce, NoCallThroughNull

\* How a call begins.
Begun(t) ==
  /\ UNCHANGED procVars
  /\ \A u \in Threads \ {t} : call'[u] = call[u]
  /\ call[t].pc = "idle"
  /\ \/ call'[t] = call[t]
     \/ /\ call'[t].pc = "load" /\ call'[t].hooked = "no"
        /\ call'[t].goal \in {"dlsym", "getproc", "init"}
        /\ call'[t].goal = "dlsym" => call'[t].fn \notin Interposed
        /\ call'[t].goal = "getproc" => call'[t].fn \in Functions
     \/ /\ call'[t].goal = "call" /\ call'[t].hooked = "no"
        /\ call'[t].fn \in ByTable => call'[t].fn \in setup.exports /\ ready[Proc(t)]
        /\ call'[t].pc = IF call'[t].fn \notin ByTable THEN "load"
                         ELSE IF call'[t].fn.name \in HookedLaunches THEN "before" ELSE "driver"
     \/ /\ call'[t].goal = "direct" /\ call'[t].hooked = "no" /\ call'[t].pc = "driver"
        /\ pointer[t].kind = "driver" /\ call'[t].fn = pointer[t].fn

LEMMA BeginsCall ==
  ASSUME ProcTypeOK, NEW t \in Threads, Begins(t), ~CallFatal(t)
  PROVE  Begun(t)
  <1>0. /\ call \in [Threads -> CallType]
        /\ setup.lookups[t] \subseteq Functions
    BY DEF ProcTypeOK, SetupType
  <1>1. ASSUME NEW handle, NEW symbol \in setup.lookups[t], Dlsym(t, handle, symbol)
        PROVE  Begun(t)
    BY ZenonT(30), <1>0, <1>1 DEF Dlsym, Begun, Idle, NoWork
  <1>2. ASSUME NEW symbol \in setup.lookups[t], NEW version, NEW flag,
               GetProcAddress(t, symbol, version, flag)
        PROVE  Begun(t)
    BY ZenonT(30), <1>0, <1>2 DEF GetProcAddress, Begun, Idle, NoWork
  <1>3. ASSUME UseGetProc(t) PROVE Begun(t)
    BY <1>3 DEF UseGetProc, Begun, Idle
  <1>4. ASSUME CallInit(t) PROVE Begun(t)
    BY <1>0, <1>4 DEF CallInit, Begun, Idle, NoWork
  <1>5. ASSUME NEW range, CreateStream(t, range) PROVE Begun(t)
    BY <1>5 DEF CreateStream, Begun, Idle
  <1>6. ASSUME NEW p \in {pointer[t]} \cup {Wrapper(f, f) : f \in setup.links[t]},
               NEW captured, NEW configured, CallFunction(t, p, captured, configured)
        PROVE  Begun(t)
    <2>1. /\ call'[t].fn = p.fn /\ call'[t].hooked = "no"
          /\ call'[t].goal = IF p.kind = "driver" THEN "direct" ELSE "call"
          /\ call'[t].pc = IF p.kind = "driver" THEN "driver"
                           ELSE IF p.fn \notin ByTable THEN "load"
                           ELSE IF p.fn.name \in HookedLaunches THEN "before" ELSE "driver"
          /\ \A u \in Threads \ {t} : call'[u] = call[u]
      BY <1>0, <1>6 DEF CallFunction, NoWork
    <2>2. /\ UNCHANGED procVars /\ call[t].pc = "idle"
          /\ ready[Proc(t)] /\ (p.fn \in setup.exports \/ p.fn \notin ByTable)
          /\ p.kind = "driver" => p = pointer[t]
      BY <1>6 DEF CallFunction, Idle
    <2> QED
      BY <2>1, <2>2 DEF Begun
  <1> QED
    <2>1. CASE \E p \in {pointer[t]} \cup {Wrapper(f, f) : f \in setup.links[t]},
                  captured, configured \in BOOLEAN : CallFunction(t, p, captured, configured)
      <3>1. PICK p \in {pointer[t]} \cup {Wrapper(f, f) : f \in setup.links[t]},
                 captured \in BOOLEAN, configured \in BOOLEAN :
                   CallFunction(t, p, captured, configured)
        BY <2>1
      <3> QED
        BY <1>6, <3>1
    <2>2. CASE \E handle \in {"default", "next"}, symbol \in setup.lookups[t] :
                 Dlsym(t, handle, symbol)
      BY <1>1, <2>2
    <2>3. CASE \E symbol \in setup.lookups[t], version \in {11, 12}, flag \in BOOLEAN :
                 GetProcAddress(t, symbol, version, flag)
      BY <1>2, <2>3
    <2>4. CASE \E range \in setup.ranges : CreateStream(t, range)
      BY <1>5, <2>4
    <2> QED
      BY <1>3, <1>4, <2>1, <2>2, <2>3, <2>4, Zenon DEF Begins

\* A step of one thread that leaves the loader alone.
LEMMA OutsideLoader ==
  ASSUME LInv, NEW t \in Threads, UNCHANGED <<setup, once, table, ready>>,
         \A p \in Roles : status'[p] # "called null",
         \A u \in Threads \ {t} : call'[u] = call[u],
         call'[t].pc \notin {"open", "cuda", "nvml"},
         call'[t].pc = "loaded" => once[Proc(t)] = "done",
         call'[t].goal = "call" /\ call'[t].fn \in ByTable
           => call'[t].fn \in setup.exports /\ ready[Proc(t)]
  PROVE  LoadsOnce' /\ NoCallThroughNull'
  <1>1. \A u \in Threads : Proc(u)' = Proc(u) /\ (Loading(u)' => u # t /\ Loading(u))
    BY DEF Proc, Loading
  <1>2. KnowsTable(t)'
    BY <1>1 DEF LInv, LoadsOnce, KnowsTable
  <1>3. \A u \in Threads \ {t} : KnowsTable(u)'
    <2> SUFFICES ASSUME NEW u \in Threads \ {t} PROVE KnowsTable(u)'
      OBVIOUS
    <2>1. KnowsTable(u) /\ call'[u] = call[u] /\ Proc(u)' = Proc(u)
      BY <1>1 DEF LInv, LoadsOnce
    <2> QED
      BY <2>1 DEF KnowsTable, Loading
  <1>4. OneLoader'
    BY <1>1, OneLoaderKept DEF LInv, LoadsOnce
  <1> QED
    BY <1>2, <1>3, <1>4 DEF LInv, LoadsOnce, NoCallThroughNull

LEMMA NextLoads == LInv /\ [Next]_vars => LoadsOnce' /\ NoCallThroughNull'
  <1> SUFFICES ASSUME LInv, [Next]_vars PROVE LoadsOnce' /\ NoCallThroughNull'
    OBVIOUS
  <1> DEFINE Kept == LoadsOnce' /\ NoCallThroughNull'
  <1> HIDE DEF Kept
  <1>0. /\ ProcTypeOK /\ LoadsOnce /\ NoCallThroughNull
        /\ call \in [Threads -> CallType]
        /\ \A t \in Threads : Proc(t) \in Roles
        /\ \A p \in Roles : status[p] # "called null"
    BY DEF LInv, ProcTypeOK, SetupType, Proc, NoCallThroughNull
  <1>1. ASSUME NEW t \in Threads, EnterOnce(t) PROVE Kept
    <2>1. CASE once[Proc(t)] = "never"
      <3>1. /\ call'[t].pc = "open" /\ call'[t].goal = call[t].goal /\ call'[t].fn = call[t].fn
            /\ \A u \in Threads \ {t} : call'[u] = call[u]
            /\ once' = [once EXCEPT ![Proc(t)] = "running"]
            /\ UNCHANGED <<setup, table, ready, status>>
        BY <1>0, <1>1, <2>1, CallChanges DEF EnterOnce
      <3>2. \A u \in Threads : Proc(u) = Proc(t) => ~Loading(u) /\ call[u].pc # "loaded"
        BY <1>0, <2>1 DEF LoadsOnce, KnowsTable
      <3>3. /\ once'[Proc(t)] = "running"
            /\ \A p \in Roles : p # Proc(t) => once'[p] = once[p]
        BY <1>0, <3>1 DEF ProcTypeOK
      <3>4. \A u \in Threads : KnowsTable(u)'
        <4> SUFFICES ASSUME NEW u \in Threads PROVE KnowsTable(u)'
          OBVIOUS
        <4>1. KnowsTable(u) /\ Proc(u)' = Proc(u)
          BY <1>0, <3>1 DEF LoadsOnce, Proc
        <4>2. CASE u = t
          BY <3>1, <3>3, <4>1, <4>2 DEF KnowsTable, Loading
        <4>3. CASE u # t
          BY <1>0, <3>1, <3>2, <3>3, <4>1, <4>3 DEF KnowsTable, Loading
        <4> QED
          BY <4>2, <4>3
      <3>5. OneLoader'
        <4>1. \A u \in Threads : Proc(u)' = Proc(u) /\ (Loading(u)' => u = t \/ Loading(u))
          BY <3>1 DEF Loading, Proc
        <4> QED
          BY <1>0, <3>2, <4>1 DEF LoadsOnce, OneLoader
      <3>6. \A p \in Roles : (once'[p] = "done" => once[p] = "done") /\ ~(ready[p] /\ p = Proc(t))
        BY <1>0, <2>1, <3>3 DEF LoadsOnce
      <3> QED
        BY <1>0, <3>1, <3>3, <3>4, <3>5, <3>6 DEF LoadsOnce, NoCallThroughNull, Kept
    <2>2. CASE once[Proc(t)] = "done" /\ Goto(t, "loaded") /\ UNCHANGED once
      <3>1. /\ call'[t].pc = "loaded" /\ call'[t].goal = call[t].goal /\ call'[t].fn = call[t].fn
            /\ \A u \in Threads \ {t} : call'[u] = call[u]
        BY <1>0, <2>2, CallChanges
      <3>2. KnowsTable(t)
        BY <1>0 DEF LoadsOnce
      <3> QED
        BY <1>0, <1>1, <2>2, <3>1, <3>2, OutsideLoader DEF EnterOnce, KnowsTable, Kept
    <2> QED
      BY <1>1, <2>1, <2>2 DEF EnterOnce
  <1>6. ASSUME NEW t \in Threads, InitEnds(t) PROVE Kept
    <2>1. /\ call'[t].pc = "idle" /\ call'[t].goal = "none"
          /\ \A u \in Threads \ {t} : call'[u] = call[u]
      BY <1>0, <1>6, CallChanges DEF InitEnds
    <2>2. /\ ready' = [ready EXCEPT ![Proc(t)] = TRUE]
          /\ UNCHANGED <<setup, once, table, status>>
          /\ once[Proc(t)] = "done"
      BY <1>0, <1>6 DEF InitEnds, LoadsOnce, KnowsTable
    <2>3. \A p \in Roles : ready'[p] => once'[p] = "done"
      BY <1>0, <2>2 DEF LoadsOnce, ProcTypeOK
    <2>4. \A u \in Threads : KnowsTable(u)' /\ (Loading(u)' => Loading(u)) /\ Proc(u)' = Proc(u)
      <3> SUFFICES ASSUME NEW u \in Threads
                   PROVE  KnowsTable(u)' /\ (Loading(u)' => Loading(u)) /\ Proc(u)' = Proc(u)
        OBVIOUS
      <3>1. KnowsTable(u) /\ Proc(u)' = Proc(u)
        BY <1>0, <2>2 DEF LoadsOnce, Proc
      <3>2. CASE u = t
        BY <2>1, <3>1, <3>2 DEF KnowsTable, Loading
      <3>3. CASE u # t
        <4>1. ready[Proc(u)] => ready'[Proc(u)]
          BY <1>0, <2>2 DEF ProcTypeOK
        <4> QED
          BY <2>1, <2>2, <3>1, <3>3, <4>1 DEF KnowsTable, Loading
      <3> QED
        BY <3>2, <3>3
    <2>5. OneLoader'
      BY <1>0, <2>4, OneLoaderKept DEF LoadsOnce
    <2> QED
      BY <1>0, <2>2, <2>3, <2>4, <2>5 DEF LoadsOnce, NoCallThroughNull, Kept
  <1>7. ASSUME NEW t \in Threads,
               DlsymEnds(t) \/ GetProcAddressEnds(t) \/ LookedUp(t) \/ BeforeLaunch(t) \/ AfterLaunch(t)
        PROVE  Kept
    <2>1. /\ UNCHANGED <<setup, once, table, ready, status>>
          /\ \A u \in Threads \ {t} : call'[u] = call[u]
          /\ call'[t].pc \in {"idle", "before", "driver"}
          /\ call'[t].goal = "none" \/ (call'[t].goal = call[t].goal /\ call'[t].fn = call[t].fn)
      <3>1. CASE \E hooked : Return(t, hooked)
        BY <1>0, <1>7, <3>1, CallChanges
           DEF DlsymEnds, GetProcAddressEnds, LookedUp, BeforeLaunch, AfterLaunch, procVars
      <3>2. CASE \E pc \in {"before", "driver"} : Goto(t, pc)
        BY <1>0, <1>7, <3>2, CallChanges
           DEF DlsymEnds, GetProcAddressEnds, LookedUp, BeforeLaunch, AfterLaunch, procVars
      <3>3. CASE BeforeLaunch(t)
        BY <1>0, <3>3 DEF BeforeLaunch, procVars, CallType
      <3> QED
        BY <1>7, <3>1, <3>2, <3>3 DEF DlsymEnds, GetProcAddressEnds, LookedUp, AfterLaunch
    <2>2. KnowsTable(t)
      BY <1>0 DEF LoadsOnce
    <2> QED
      BY <1>0, <2>1, <2>2, OutsideLoader DEF KnowsTable, Kept
  <1>2. ASSUME NEW t \in Threads, OpenDriver(t) PROVE Kept
    <2>1. CASE Stop(Proc(t), "exited") /\ UNCHANGED call
      <3>1. \A p \in Roles : status'[p] # "called null"
        BY <1>0, <2>1 DEF Stop, ProcTypeOK
      <3>2. UNCHANGED <<setup, once, table, ready, call>>
        BY <1>2, <2>1 DEF OpenDriver
      <3> QED
        BY <3>1, <3>2, CallsKept DEF Kept
    <2>2. CASE Goto(t, "cuda") /\ UNCHANGED status
      <3>1. /\ call'[t].pc = "cuda" /\ call'[t].goal = call[t].goal /\ call'[t].fn = call[t].fn
            /\ \A u \in Threads \ {t} : call'[u] = call[u]
            /\ UNCHANGED <<setup, once, table, ready, status>>
            /\ Loading(t)
        BY <1>0, <1>2, <2>2, CallChanges DEF OpenDriver, Loading
      <3>2. \A u \in Threads : (Loading(u)' => Loading(u)) /\ Proc(u)' = Proc(u)
        BY <3>1 DEF Loading, Proc
      <3>3. \A u \in Threads : KnowsTable(u)'
        <4> SUFFICES ASSUME NEW u \in Threads PROVE KnowsTable(u)'
          OBVIOUS
        <4>1. KnowsTable(u) /\ Proc(u)' = Proc(u)
          BY <1>0, <3>2 DEF LoadsOnce
        <4> QED
          BY <3>1, <4>1 DEF KnowsTable, Loading
      <3>4. OneLoader'
        BY <1>0, <3>2, OneLoaderKept DEF LoadsOnce
      <3> QED
        BY <1>0, <3>1, <3>3, <3>4 DEF LoadsOnce, NoCallThroughNull, Kept
    <2> QED
      BY <1>2, <2>1, <2>2 DEF OpenDriver
  <1>3. ASSUME NEW t \in Threads, LoadCuda(t) PROVE Kept
    <2>1. /\ call'[t].pc = "nvml" /\ call'[t].goal = call[t].goal /\ call'[t].fn = call[t].fn
          /\ \A u \in Threads \ {t} : call'[u] = call[u]
          /\ table' = [table EXCEPT ![Proc(t)] = CudaForwards \cap setup.exports]
          /\ UNCHANGED <<setup, once, ready, status>>
          /\ Loading(t)
      BY <1>0, <1>3, CallChanges DEF LoadCuda, Loading
    <2>2. /\ once[Proc(t)] = "running"
          /\ table'[Proc(t)] = CudaForwards \cap setup.exports
          /\ \A p \in Roles : p # Proc(t) => table'[p] = table[p]
      BY <1>0, <2>1 DEF LoadsOnce, KnowsTable, ProcTypeOK
    <2>3. \A u \in Threads : Loading(u)' = Loading(u) /\ Proc(u)' = Proc(u)
      BY <2>1 DEF Loading, Proc
    <2>4. \A u \in Threads : KnowsTable(u)'
      <3> SUFFICES ASSUME NEW u \in Threads PROVE KnowsTable(u)'
        OBVIOUS
      <3>1. KnowsTable(u) /\ (u # t /\ Loading(u) => Proc(u) # Proc(t))
        BY <1>0, <2>1 DEF LoadsOnce, OneLoader
      <3>2. CASE u = t
        BY <2>1, <2>2, <2>3, <3>1, <3>2 DEF KnowsTable, Loading
      <3>3. CASE u # t
        BY <1>0, <2>1, <2>2, <2>3, <3>1, <3>3 DEF KnowsTable, Loading
      <3> QED
        BY <3>2, <3>3
    <2>5. OneLoader'
      BY <1>0, <2>3, OneLoaderKept DEF LoadsOnce
    <2>6. \A p \in Roles : once'[p] = "done" => table'[p] = ByTable \cap setup'.exports
      BY <1>0, <2>1, <2>2 DEF LoadsOnce
    <2> QED
      BY <1>0, <2>1, <2>4, <2>5, <2>6 DEF LoadsOnce, NoCallThroughNull, Kept
  <1>4. ASSUME NEW t \in Threads, LoadNvml(t) PROVE Kept
    <2>0. Loading(t) /\ KnowsTable(t) /\ call[t].pc = "nvml"
      BY <1>0, <1>4 DEF LoadNvml, Loading, LoadsOnce
    <2>1. CASE setup.library = "no nvml"
      <3>1. \A p \in Roles : status'[p] # "called null"
        BY <1>0, <1>4, <2>1 DEF LoadNvml, Stop, ProcTypeOK
      <3>2. UNCHANGED <<setup, once, table, ready, call>>
        BY <1>4, <2>1 DEF LoadNvml
      <3> QED
        BY <3>1, <3>2, CallsKept DEF Kept
    <2>2. CASE setup.library # "no nvml"
      <3>1. /\ call'[t].pc = "loaded" /\ call'[t].goal = call[t].goal /\ call'[t].fn = call[t].fn
            /\ \A u \in Threads \ {t} : call'[u] = call[u]
            /\ table' = [table EXCEPT ![Proc(t)] = @ \cup (NvmlForwards \cap setup.exports)]
            /\ once' = [once EXCEPT ![Proc(t)] = "done"]
            /\ UNCHANGED <<setup, ready, status>>
        BY <1>0, <1>4, <2>2, CallChanges DEF LoadNvml
      <3>2. /\ table'[Proc(t)] = ByTable \cap setup.exports
            /\ once'[Proc(t)] = "done"
            /\ \A p \in Roles : p # Proc(t) => table'[p] = table[p] /\ once'[p] = once[p]
        BY <1>0, <2>0, <3>1 DEF KnowsTable, ProcTypeOK, ByTable
      <3>3. \A u \in Threads : (Loading(u)' => Loading(u) /\ u # t) /\ Proc(u)' = Proc(u)
        BY <3>1 DEF Loading, Proc
      <3>4. \A u \in Threads : KnowsTable(u)'
        <4> SUFFICES ASSUME NEW u \in Threads PROVE KnowsTable(u)'
          OBVIOUS
        <4>1. KnowsTable(u) /\ (u # t /\ Loading(u) => Proc(u) # Proc(t))
          BY <1>0, <2>0 DEF LoadsOnce, OneLoader
        <4>2. CASE u = t
          BY <3>1, <3>2, <3>3, <4>1, <4>2 DEF KnowsTable, Loading
        <4>3. CASE u # t
          <5>1. /\ call'[u] = call[u] /\ Proc(u)' = Proc(u) /\ UNCHANGED <<setup, ready>>
                /\ Proc(u) \in Roles
            BY <1>0, <3>1, <3>3, <4>3
          <5>2. Loading(u) => once'[Proc(u)] = once[Proc(u)] /\ table'[Proc(u)] = table[Proc(u)]
            BY <3>2, <4>1, <4>3, <5>1
          <5>3. once[Proc(u)] = "done" => once'[Proc(u)] = "done"
            BY <3>2, <5>1
          <5> QED
            BY <4>1, <5>1, <5>2, <5>3 DEF KnowsTable, Loading
        <4> QED
          BY <4>2, <4>3
      <3>5. OneLoader'
        BY <1>0, <3>3, OneLoaderKept DEF LoadsOnce
      <3>6. \A p \in Roles : once'[p] = "done" => table'[p] = ByTable \cap setup'.exports
        BY <1>0, <3>1, <3>2 DEF LoadsOnce
      <3>7. \A p \in Roles : ready'[p] => once'[p] = "done"
        BY <1>0, <3>1, <3>2 DEF LoadsOnce
      <3> QED
        BY <1>0, <3>1, <3>4, <3>5, <3>6, <3>7 DEF LoadsOnce, NoCallThroughNull, Kept
    <2> QED
      BY <2>1, <2>2
  <1>5. ASSUME NEW t \in Threads, CallDriver(t) PROVE Kept
    <2>1. ~(call[t].goal = "call" /\ call[t].fn \in ByTable \ table[Proc(t)])
      BY <1>0 DEF LoadsOnce, KnowsTable
    <2>2. /\ UNCHANGED <<setup, once, table, ready, status>>
          /\ Return(t, "no") \/ Goto(t, "after")
      BY <1>5, <2>1 DEF CallDriver
    <2>3. /\ \A u \in Threads \ {t} : call'[u] = call[u]
          /\ call'[t].pc \in {"idle", "after"}
          /\ call'[t].goal = "none" \/ (call'[t].goal = call[t].goal /\ call'[t].fn = call[t].fn)
      BY <1>0, <2>2, CallChanges
    <2>4. KnowsTable(t)
      BY <1>0 DEF LoadsOnce
    <2> QED
      BY <1>0, <2>2, <2>3, <2>4, OutsideLoader DEF KnowsTable, Kept
  <1>8. ASSUME NEW t \in Threads, Begins(t) PROVE Kept
    <2>1. CASE CallFatal(t)
      <3>1. UNCHANGED <<setup, once, table, ready, call>>
        BY <2>1 DEF CallFatal, appVars
      <3>2. \A p \in Roles : status'[p] # "called null"
        BY <1>0, <2>1 DEF CallFatal, Stop, ProcTypeOK
      <3> QED
        BY <3>1, <3>2, CallsKept DEF Kept
    <2>2. CASE ~CallFatal(t)
      <3>1. Begun(t) /\ KnowsTable(t)
        BY <1>0, <1>8, <2>2, BeginsCall DEF LoadsOnce
      <3>2. /\ call'[t].pc \in {"idle", "load", "driver", "before"}
            /\ call'[t].goal = "call" /\ call'[t].fn \in ByTable
                 => call'[t].fn \in setup.exports /\ ready[Proc(t)]
        BY <3>1 DEF Begun, KnowsTable
      <3> QED
        BY <1>0, <3>1, <3>2, OutsideLoader DEF Begun, Kept, procVars
    <2> QED
      BY <2>1, <2>2
  <1>9. CASE UNCHANGED <<procVars, appVars>>
    <2>1. UNCHANGED <<setup, once, table, ready, status, call>>
      BY <1>9 DEF procVars, appVars
    <2> QED
      BY <1>0, <2>1, CallsKept DEF Kept
  <1>10. ASSUME NEW t \in Threads, Proceeds(t) PROVE Kept
    BY <1>1, <1>2, <1>3, <1>4, <1>5, <1>6, <1>7, <1>10 DEF Proceeds
  <1>11. CASE Next
    <2>1. \/ \E t \in Threads : Proceeds(t) \/ Begins(t)
          \/ UNCHANGED <<procVars, appVars>>
          \/ TransferFails
      BY <1>11 DEF Next, MemBegins, MemProceeds, TransferBegins, TransferProceeds
    <2>2. CASE TransferFails
      <3>1. UNCHANGED <<setup, once, table, ready, call>>
        BY <2>2 DEF TransferFails, appVars
      <3>2. \A p \in Roles : status'[p] # "called null"
        BY <1>0, <2>2 DEF TransferFails, Stop, ProcTypeOK
      <3> QED
        BY <3>1, <3>2, CallsKept DEF Kept
    <2> QED
      BY <1>8, <1>9, <1>10, <2>1, <2>2 DEF Kept
  <1>12. CASE UNCHANGED vars
    BY <1>9, <1>12 DEF vars
  <1> QED
    BY <1>11, <1>12 DEF Kept

LEMMA Loads == Spec => []LInv
  <1>1. Init => LInv
    BY InitTypes, InitLoads DEF LInv
  <1>2. LInv /\ [Next]_vars => LInv'
    BY NextTypes, NextLoads DEF LInv
  <1> QED
    BY <1>1, <1>2, PTL DEF Spec

\* No call of the program goes through an entry of the driver table that has
\* not been filled, however its threads race to load it (loader.c 903).
THEOREM NoNullCalls == Spec => []NoCallThroughNull
  <1>1. LInv => NoCallThroughNull
    BY DEF LInv
  <1> QED
    BY <1>1, Loads, PTL

---------------------------------------------------------------------------
(* Lookups and hooks.                                                      *)

\* What a lookup may give: what the driver would have, or the older function
\* that cannot be told from it.
Right(p) == p.fn = p.answers \/ TakenForOlder(p)

LEMMA Same == \A fn, asked : fn = asked => Right(Wrapper(fn, asked))
  BY DEF Right, Wrapper

LEMMA Older ==
  ASSUME setup.alias
  PROVE  /\ \A asked \in {Fn("cuGraphInstantiate_v2"), Fn("cuGraphInstantiateWithFlags")} :
              Right(Wrapper(Fn("cuGraphInstantiate"), asked))
         /\ Right(Wrapper(Fn("cuGraphExecUpdate"), Fn("cuGraphExecUpdate_v2")))
  BY DEF Right, Wrapper, TakenForOlder

\* What the proxy puts in the place of the driver's answer is the function
\* that the driver answered with, or the older one.
LEMMA ReplacementRight ==
  ASSUME setup \in SetupType, NEW symbol \in Interposed,
         NEW version \in {11, 12}, NEW flag \in BOOLEAN,
         NEW returned, returned = DriverAnswer(symbol, version, flag), returned.kind # "null"
  PROVE  Right(Wrapper(Replacement(symbol, returned, version, flag), returned.fn))
  <1> DEFINE name == symbol.name
             Is(fn) == SameCode(returned, Real(fn))
  <1>0. /\ returned.kind = "driver" /\ returned.fn \in setup.exports
        /\ symbol = [name |-> name, ptsz |-> symbol.ptsz]
        /\ symbol.ptsz \in BOOLEAN
        /\ symbol.ptsz => name \in Streamed
        /\ \A fn : Is(fn) => returned.fn = fn
        /\ \A fn : ~returned.alias /\ returned.fn = fn => Is(fn)
        /\ returned.alias => \A fn : ~Is(fn)
    <2>1. symbol = [name |-> name, ptsz |-> symbol.ptsz] /\ symbol.ptsz \in BOOLEAN
          /\ (symbol.ptsz => name \in Streamed)
      <3>1. symbol \in [name : Names, ptsz : BOOLEAN]
        BY FunctionsTyped, FunctionNames DEF Functions
      <3>2. symbol \in {Ptsz(n) : n \in Streamed} \/ ~symbol.ptsz
        BY DEF Interposed, GetProcs, Fn
      <3>3. ASSUME symbol \in {Ptsz(n) : n \in Streamed} PROVE name \in Streamed
        BY <3>3 DEF Ptsz
      <3> QED
        BY <3>1, <3>2, <3>3
    <2>2. PICK fn, alias : fn \in setup.exports /\ returned = Driver(fn, alias, fn) /\ alias \in BOOLEAN
      BY DEF DriverAnswer, NoPointer, SetupType
    <2>3. \A f : Real(f) = IF f \in setup.exports THEN Driver(f, FALSE, f) ELSE NoPointer
      BY DEF Real
    <2>4. /\ returned.kind = "driver" /\ returned.fn = fn /\ returned.alias = alias
      BY <2>2 DEF Driver
    <2>5. \A f : Is(f) <=> f \in setup.exports /\ returned.fn = f /\ ~returned.alias
      BY <2>2, <2>3, <2>4 DEF SameCode, Driver, NoPointer
    <2> QED
      BY <2>1, <2>2, <2>4, <2>5
  <1> DEFINE called == IF version = 12 /\ name \in DOMAIN Newer THEN Newer[name]
                       ELSE IF name = "cuGraphInstantiate" THEN "cuGraphInstantiate_v2"
                       ELSE name
  <1>6. /\ returned.fn = [name |-> called, ptsz |-> called \in Streamed /\ (symbol.ptsz \/ flag)]
        /\ returned.alias = setup.alias
    <2> DEFINE fn == [name |-> called, ptsz |-> called \in Streamed /\ (symbol.ptsz \/ flag)]
               alias == setup.alias
    <2>1. returned = IF fn \in setup.exports THEN Driver(fn, alias, fn) ELSE NoPointer
      BY DEF DriverAnswer
    <2> HIDE DEF fn, alias
    <2>2. returned.fn = fn /\ returned.alias = alias
      <3>1. fn \in setup.exports
        BY <2>1, <1>0 DEF NoPointer
      <3>2. returned = Driver(fn, alias, fn)
        BY <2>1, <3>1
      <3> QED
        BY <3>2 DEF Driver
    <2> QED
      BY <2>2 DEF fn, alias
  <1>7. called = CASE name = "cuGraphInstantiate" -> IF version = 12 THEN "cuGraphInstantiateWithFlags"
                                                     ELSE "cuGraphInstantiate_v2"
                   [] name = "cuGetProcAddress"  -> IF version = 12 THEN "cuGetProcAddress_v2" ELSE name
                   [] name = "cuGraphExecUpdate" -> IF version = 12 THEN "cuGraphExecUpdate_v2" ELSE name
                   [] OTHER -> name
    BY DEF Newer
  <1> HIDE DEF called
  <1>1. CASE name \in Streamed
    <2>1. returned.fn = [name |-> name, ptsz |-> symbol.ptsz \/ flag]
      BY <1>0, <1>1, <1>6, <1>7 DEF Streamed
    <2>2. Fn(name) = [name |-> name, ptsz |-> FALSE] /\ Ptsz(name) = [name |-> name, ptsz |-> TRUE]
      BY DEF Fn, Ptsz
    <2>3. Replacement(symbol, returned, version, flag)
            = [name |-> name, ptsz |-> Is(Ptsz(name)) \/ symbol.ptsz \/ (~Is(Fn(name)) /\ flag)]
      BY <1>1 DEF Replacement, Streamed
    <2>4. Is(Ptsz(name)) \/ symbol.ptsz \/ (~Is(Fn(name)) /\ flag) <=> symbol.ptsz \/ flag
      BY <1>0, <2>1, <2>2
    <2> QED
      BY <2>1, <2>3, <2>4, Same
  <1>2. CASE name = "cuGetProcAddress"
    <2>1. symbol = Fn(name)
      BY <1>0, <1>2 DEF Fn, Streamed
    <2>2. returned.fn = IF version = 12 THEN Fn("cuGetProcAddress_v2") ELSE symbol
      BY <1>2, <2>1, <1>6, <1>7 DEF Streamed, Fn
    <2>3. Replacement(symbol, returned, version, flag)
            = IF Is(Fn("cuGetProcAddress_v2")) \/ (~Is(symbol) /\ version = 12)
                THEN Fn("cuGetProcAddress_v2") ELSE symbol
      BY <1>2 DEF Replacement, Streamed
    <2>4. Fn("cuGetProcAddress_v2") # symbol
      BY <1>2, <2>1 DEF Fn
    <2>5. Replacement(symbol, returned, version, flag) = returned.fn
      BY <1>0, <2>2, <2>3, <2>4
    <2> QED
      BY <2>5, Same
  <1>3. CASE name \in {"cuGraphInstantiate", "cuGraphInstantiate_v2"}
    <2>1. symbol = Fn(name)
      BY <1>0, <1>3 DEF Fn, Streamed
    <2>2. returned.fn \in {Fn("cuGraphInstantiateWithFlags"), Fn("cuGraphInstantiate_v2")}
      BY <1>3, <1>6, <1>7 DEF Streamed, Fn
    <2>3. Replacement(symbol, returned, version, flag)
            = IF Is(Fn("cuGraphInstantiateWithFlags")) THEN Fn("cuGraphInstantiateWithFlags")
              ELSE IF Is(Fn("cuGraphInstantiate_v2")) THEN Fn("cuGraphInstantiate_v2")
              ELSE symbol
      BY <1>3 DEF Replacement, Streamed
    <2>4. name = "cuGraphInstantiate_v2" => returned.fn = symbol
      BY <1>6, <1>7, <2>1 DEF Streamed, Fn
    <2>5. Fn("cuGraphInstantiate_v2") # Fn("cuGraphInstantiateWithFlags")
      BY DEF Fn
    <2>6. CASE ~returned.alias
      <3>1. Replacement(symbol, returned, version, flag) = returned.fn
        BY <1>0, <2>2, <2>3, <2>5, <2>6
      <3> QED
        BY <3>1, Same
    <2>7. CASE returned.alias
      <3>1. Replacement(symbol, returned, version, flag) = symbol
        BY <1>0, <2>3, <2>7
      <3>2. CASE name = "cuGraphInstantiate_v2"
        BY <2>4, <3>1, <3>2, Same
      <3>3. CASE name = "cuGraphInstantiate"
        BY <1>6, <2>1, <2>2, <2>7, <3>1, <3>3, Older
      <3> QED
        BY <1>3, <3>2, <3>3
    <2> QED
      BY <1>0, <2>6, <2>7
  <1>4. CASE name = "cuGraphExecUpdate"
    <2>1. symbol = Fn(name)
      BY <1>0, <1>4 DEF Fn, Streamed
    <2>2. returned.fn \in {Fn("cuGraphExecUpdate_v2"), symbol}
      BY <1>4, <2>1, <1>6, <1>7 DEF Streamed, Fn
    <2>3. Replacement(symbol, returned, version, flag)
            = IF Is(Fn("cuGraphExecUpdate_v2")) THEN Fn("cuGraphExecUpdate_v2") ELSE symbol
      BY <1>4 DEF Replacement, Streamed
    <2>4. CASE returned.alias /\ returned.fn # symbol
      <3>1. Replacement(symbol, returned, version, flag) = symbol
        BY <1>0, <2>3, <2>4
      <3> QED
        BY <1>4, <1>6, <2>1, <2>2, <2>4, <3>1, Older
    <2>5. CASE ~(returned.alias /\ returned.fn # symbol)
      <3>1. Replacement(symbol, returned, version, flag) = returned.fn
        BY <1>0, <2>2, <2>3, <2>5
      <3> QED
        BY <3>1, Same
    <2> QED
      BY <2>4, <2>5
  <1>5. CASE name \notin Streamed \cup {"cuGetProcAddress", "cuGraphInstantiate",
                                        "cuGraphInstantiate_v2", "cuGraphExecUpdate"}
    <2>1. symbol = Fn(name)
      BY <1>0, <1>5 DEF Fn
    <2>2. returned.fn = symbol
      BY <1>0, <1>5, <2>1, <1>6, <1>7 DEF Fn
    <2>3. Replacement(symbol, returned, version, flag) = symbol
      BY <1>5 DEF Replacement
    <2> QED
      BY <2>2, <2>3, Same
  <1> QED
    BY <1>1, <1>2, <1>3, <1>4, <1>5

\* A function the proxy does not replace is answered under its own name.
LEMMA PlainAnswer ==
  ASSUME NEW symbol \in Functions \ Interposed, NEW version, NEW flag,
         NEW returned, returned = DriverAnswer(symbol, version, flag), returned.kind # "null"
  PROVE  /\ returned.kind = "driver" /\ returned.fn = returned.answers
         /\ returned.fn \notin Interposed
  <1>1. symbol \in {Fn("cuDeviceGet"), Fn("cuMemcpy"), Fn("cuLaunchGrid"), Fn("nvmlDeviceGetCount"),
                    Fn("cuLaunchCooperativeKernelMultiDevice")}
    BY DEF MultiDevice, Functions, ByTable, CudaForwards, Queries, Copies, NvmlForwards, Interposed, Streamed
  <1>2. PICK name \in {"cuDeviceGet", "cuMemcpy", "cuLaunchGrid", "nvmlDeviceGetCount",
                       "cuLaunchCooperativeKernelMultiDevice"} : symbol = Fn(name)
    BY <1>1
  <1>3. symbol.name = name /\ symbol.ptsz = FALSE /\ symbol = [name |-> name, ptsz |-> FALSE]
    BY <1>2 DEF Fn
  <1>4. name \notin DOMAIN Newer /\ name \notin Streamed /\ name # "cuGraphInstantiate"
    BY DEF Newer, Streamed
  <1>5. \E alias : returned = Driver(symbol, alias, symbol)
    <2>1. [name |-> name, ptsz |-> name \in Streamed /\ (symbol.ptsz \/ flag)] = symbol
      BY <1>3, <1>4
    <2> QED
      BY <1>3, <1>4, <2>1 DEF DriverAnswer, NoPointer
  <1> QED
    BY <1>5 DEF Driver

\* Whatever the driver answers with is what it was asked for.
LEMMA AnswerTells ==
  ASSUME NEW symbol, NEW version, NEW flag
  PROVE  LET p == DriverAnswer(symbol, version, flag) IN
         Right(p) /\ (p.kind = "null" => p.fn = Fn("none"))
  BY DEF DriverAnswer, Driver, NoPointer, Right

\* What a thread is looking up, and what it has found.
LooksUpRight(t) ==
  LET c == call[t] IN
  /\ c.goal = "dlsym" => c.fn \notin Interposed
  /\ c.goal = "getproc" => c.fn \in Functions
  /\ Right(pointer[t]) /\ Right(getproc[t])
  /\ pointer[t].kind = "null" => pointer[t].fn = Fn("none")
  /\ "next" \notin setup.handles =>
       /\ pointer[t].kind = "driver" => pointer[t].fn \notin Interposed
       /\ getproc[t].kind = "proxy"

\* Which hook has run, and the note that the launch is captured.
HooksInOrder(t) ==
  LET c == call[t] IN
  /\ c.hooked # "spurious"
  /\ c.pc \notin {"idle", "driver", "after"} => c.hooked = "no"
  /\ bypass[t] <=> c.pc \in {"driver", "after"} /\ c.hooked = "bypassed"
  /\ setup.policy = "event" =>
       /\ c.pc = "idle" => c.hooked # "admitted"
       /\ c.pc = "driver" => c.hooked \in {"no", "admitted", "bypassed"}
       /\ c.pc = "after" => c.hooked \in {"admitted", "bypassed"}

\* A launch that is about to reach the driver has been through the hook.
HookedLaunch(t) ==
  LET c == call[t] IN
  "next" \notin setup.handles /\ c.pc = "driver" /\ c.fn.name \in HookedLaunches
    /\ c.configured /\ (c.fn \in Interposed \/ c.goal = "call") => c.hooked # "no"

ThreadOK(t) == LooksUpRight(t) /\ HooksInOrder(t) /\ HookedLaunch(t)

Answers == \A t \in Threads : ThreadOK(t)

LEMMA InitAnswers == Init => Answers
  BY DEF Init, NoWork, Answers, ThreadOK, LooksUpRight, Right, TakenForOlder, HooksInOrder, HookedLaunch,
         Wrapper, NoPointer

\* A step of one thread leaves the others as they are.
LEMMA OthersKept ==
  ASSUME Answers, NEW t \in Threads, setup' = setup,
         \A u \in Threads \ {t} :
           /\ call'[u] = call[u] /\ pointer'[u] = pointer[u]
           /\ getproc'[u] = getproc[u] /\ bypass'[u] = bypass[u],
         ThreadOK(t)'
  PROVE  Answers'
  <1> SUFFICES ASSUME NEW u \in Threads PROVE ThreadOK(u)'
    BY DEF Answers
  <1>1. CASE u = t
    BY <1>1
  <1>2. CASE u # t
    BY <1>2 DEF Answers, ThreadOK, LooksUpRight, Right, TakenForOlder, HooksInOrder, HookedLaunch
  <1> QED
    BY <1>1, <1>2

LEMMA NextAnswers == LInv /\ Answers /\ [Next]_vars => Answers'
  <1> SUFFICES ASSUME LInv, Answers, [Next]_vars PROVE Answers'
    OBVIOUS
  <1>0. /\ ProcTypeOK
        /\ setup \in SetupType
        /\ call \in [Threads -> CallType]
        /\ pointer \in [Threads -> PointerType]
        /\ getproc \in [Threads -> PointerType]
        /\ bypass \in [Threads -> BOOLEAN]
        /\ \A t \in Threads : ThreadOK(t)
    BY DEF LInv, ProcTypeOK, Answers
  <1> DEFINE Kept == Answers'
  <1> HIDE DEF Kept
  <1>1. ASSUME NEW t \in Threads,
               EnterOnce(t) \/ OpenDriver(t) \/ LoadCuda(t) \/ LoadNvml(t)
        PROVE  Kept
    <2>1. /\ UNCHANGED <<setup, getproc, pointer, bypass>>
          /\ call[t].pc \in {"load", "open", "cuda", "nvml"}
          /\ UNCHANGED call \/ \E pc \in {"open", "cuda", "nvml", "loaded"} : Goto(t, pc)
      BY <1>1 DEF EnterOnce, OpenDriver, LoadCuda, LoadNvml, procVars
    <2>2. CASE UNCHANGED call
      BY <1>0, <2>1, <2>2, OthersKept DEF Kept, ThreadOK, LooksUpRight, Right, TakenForOlder, HooksInOrder, HookedLaunch
    <2>3. ASSUME NEW pc \in {"open", "cuda", "nvml", "loaded"}, Goto(t, pc) PROVE Kept
      <3>1. /\ call'[t].pc = pc /\ call'[t].goal = call[t].goal /\ call'[t].fn = call[t].fn
            /\ call'[t].hooked = call[t].hooked
            /\ \A u \in Threads \ {t} : call'[u] = call[u]
        BY <1>0, <2>3, CallChanges
      <3>2. ThreadOK(t)'
        BY <1>0, <2>1, <2>3, <3>1 DEF ThreadOK, LooksUpRight, Right, TakenForOlder, HooksInOrder, HookedLaunch
      <3> QED
        BY <2>1, <3>1, <3>2, OthersKept DEF Kept
    <2> QED
      BY <2>1, <2>2, <2>3
  <1>2. ASSUME NEW t \in Threads, DlsymEnds(t) PROVE Kept
    <2>1. /\ UNCHANGED <<setup, getproc, bypass>>
          /\ call[t].pc = "loaded" /\ call[t].goal = "dlsym"
          /\ Return(t, "no")
      BY <1>2 DEF DlsymEnds, procVars
    <2>2. /\ call'[t].pc = "idle" /\ call'[t].goal = "none" /\ call'[t].hooked = "no"
          /\ \A u \in Threads \ {t} : call'[u] = call[u]
      BY <1>0, <2>1, CallChanges
    <2>3. /\ pointer'[t] \in {Driver(call[t].fn, FALSE, call[t].fn), NoPointer,
                              Wrapper(call[t].fn, call[t].fn)}
          /\ \A u \in Threads \ {t} : pointer'[u] = pointer[u]
      BY <1>0, <1>2 DEF DlsymEnds, Answer, Real
    <2>4. LooksUpRight(t)'
      BY <1>0, <2>1, <2>2, <2>3 DEF ThreadOK, LooksUpRight, Right, TakenForOlder, Driver, NoPointer, Wrapper
    <2>5. HooksInOrder(t)' /\ HookedLaunch(t)'
      BY <1>0, <2>1, <2>2 DEF ThreadOK, HooksInOrder, HookedLaunch
    <2> QED
      BY <2>1, <2>2, <2>3, <2>4, <2>5, OthersKept DEF Kept, ThreadOK
  <1>3. ASSUME NEW t \in Threads, GetProcAddressEnds(t) PROVE Kept
    <2> DEFINE c == call[t]
               returned == DriverAnswer(c.fn, c.version, c.flag)
               replaced == Replacement(c.fn, returned, c.version, c.flag)
    <2>1. /\ UNCHANGED <<setup, getproc, bypass>>
          /\ c.pc = "loaded" /\ c.goal = "getproc"
          /\ Return(t, "no")
      BY <1>3 DEF GetProcAddressEnds, procVars
    <2>2. /\ call'[t].pc = "idle" /\ call'[t].goal = "none" /\ call'[t].hooked = "no"
          /\ \A u \in Threads \ {t} : call'[u] = call[u]
      BY <1>0, <2>1, CallChanges
    <2>3. /\ c.version \in {11, 12} /\ c.flag \in BOOLEAN /\ c.fn \in Functions
      BY <1>0, <2>1 DEF CallType, ThreadOK, LooksUpRight, Right, TakenForOlder
    <2>4. /\ \/ pointer'[t] = NoPointer
             \/ /\ c.fn \in Interposed /\ returned.kind # "null"
                /\ pointer'[t] = Wrapper(replaced, returned.fn)
                /\ Right(pointer'[t])
             \/ /\ c.fn \notin Interposed /\ returned.kind # "null" /\ pointer'[t] = returned
          /\ \A u \in Threads \ {t} : pointer'[u] = pointer[u]
      <3>1. c.fn \in Interposed /\ returned.kind # "null" =>
              Right(Wrapper(replaced, returned.fn))
        BY <1>0, <2>3, ReplacementRight
      <3> QED
        BY <1>0, <1>3, <3>1 DEF GetProcAddressEnds, Answer
    <2>5. ASSUME c.fn \notin Interposed, returned.kind # "null"
          PROVE  returned.kind = "driver" /\ returned.fn = returned.answers /\ returned.fn \notin Interposed
      BY <2>3, <2>5, PlainAnswer
    <2>6. LooksUpRight(t)'
      BY <1>0, <2>1, <2>2, <2>4, <2>5 DEF ThreadOK, LooksUpRight, Right, TakenForOlder, NoPointer, Wrapper
    <2>7. HooksInOrder(t)' /\ HookedLaunch(t)'
      BY <1>0, <2>1, <2>2 DEF ThreadOK, HooksInOrder, HookedLaunch
    <2> QED
      BY <2>1, <2>2, <2>4, <2>6, <2>7, OthersKept DEF Kept, ThreadOK
  <1>4. ASSUME NEW t \in Threads, InitEnds(t) \/ LookedUp(t) PROVE Kept
    <2>1. /\ UNCHANGED <<setup, getproc, pointer, bypass>>
          /\ call[t].pc = "loaded"
          /\ \/ Return(t, "no")
             \/ /\ call[t].goal = "call" /\ Goto(t, "before")
             \/ /\ call[t].goal = "call" /\ Goto(t, "driver")
                /\ ~(call[t].fn.name \in HookedLaunches /\ call[t].configured)
      BY <1>4 DEF InitEnds, LookedUp, procVars
    <2>2. CASE Return(t, "no")
      <3>1. /\ call'[t].pc = "idle" /\ call'[t].goal = "none" /\ call'[t].hooked = "no"
            /\ \A u \in Threads \ {t} : call'[u] = call[u]
        BY <1>0, <2>2, CallChanges
      <3>2. ThreadOK(t)'
        BY <1>0, <2>1, <3>1 DEF ThreadOK, LooksUpRight, Right, TakenForOlder, HooksInOrder, HookedLaunch
      <3> QED
        BY <2>1, <3>1, <3>2, OthersKept DEF Kept
    <2>3. ASSUME NEW pc \in {"before", "driver"}, Goto(t, pc), call[t].goal = "call",
                 pc = "driver" => ~(call[t].fn.name \in HookedLaunches /\ call[t].configured)
          PROVE  Kept
      <3>1. /\ call'[t].pc = pc /\ call'[t].goal = call[t].goal /\ call'[t].fn = call[t].fn
            /\ call'[t].hooked = call[t].hooked /\ call'[t].configured = call[t].configured
            /\ \A u \in Threads \ {t} : call'[u] = call[u]
        BY <1>0, <2>3, CallChanges
      <3>2. ThreadOK(t)'
        BY <1>0, <2>1, <2>3, <3>1 DEF ThreadOK, LooksUpRight, Right, TakenForOlder, HooksInOrder, HookedLaunch
      <3> QED
        BY <2>1, <3>1, <3>2, OthersKept DEF Kept
    <2> QED
      BY <2>1, <2>2, <2>3
  <1>5. ASSUME NEW t \in Threads, BeforeLaunch(t) PROVE Kept
    <2>1. /\ UNCHANGED <<setup, getproc, pointer>>
          /\ call[t].pc = "before"
          /\ call'[t].pc = "driver" /\ call'[t].goal = call[t].goal /\ call'[t].fn = call[t].fn
          /\ call'[t].hooked = CASE setup.policy = "passthrough" -> "passed"
                                 [] StaysOut(t)                  -> "bypassed"
                                 [] OTHER                        -> "admitted"
          /\ \A u \in Threads \ {t} : call'[u] = call[u] /\ bypass'[u] = bypass[u]
          /\ bypass'[t] = IF LooksAtCapture(t) THEN StaysOut(t) ELSE bypass[t]
      BY <1>0, <1>5 DEF BeforeLaunch, procVars, CallType
    <2>2. StaysOut(t) => LooksAtCapture(t) /\ setup.policy = "event"
      BY DEF StaysOut
    <2>3. call'[t].hooked \in {"passed", "bypassed", "admitted"}
          /\ (call'[t].hooked = "bypassed" <=> StaysOut(t))
          /\ (call'[t].hooked = "passed" => setup.policy # "event")
      BY <2>1, <2>2
    <2>4. bypass'[t] <=> StaysOut(t)
      BY <1>0, <2>1, <2>2 DEF ThreadOK, HooksInOrder
    <2>5. LooksUpRight(t)' /\ HookedLaunch(t)'
      BY <1>0, <2>1, <2>3 DEF ThreadOK, LooksUpRight, Right, TakenForOlder, HookedLaunch
    <2>6. HooksInOrder(t)'
      BY <2>1, <2>3, <2>4 DEF HooksInOrder
    <2> QED
      BY <2>1, <2>5, <2>6, OthersKept DEF Kept, ThreadOK
  <1>6. ASSUME NEW t \in Threads, CallDriver(t) PROVE Kept
    <2>1. /\ UNCHANGED <<setup, getproc, pointer, bypass>>
          /\ call[t].pc = "driver"
          /\ \/ UNCHANGED call
             \/ call[t].hooked = "no" /\ Return(t, "no")
             \/ call[t].hooked # "no" /\ Goto(t, "after")
      BY <1>6 DEF CallDriver, procVars
    <2>2. CASE UNCHANGED call
      BY <1>0, <2>1, <2>2, OthersKept DEF Kept, ThreadOK, LooksUpRight, Right, TakenForOlder, HooksInOrder, HookedLaunch
    <2>3. CASE call[t].hooked = "no" /\ Return(t, "no")
      <3>1. /\ call'[t].pc = "idle" /\ call'[t].goal = "none" /\ call'[t].hooked = "no"
            /\ \A u \in Threads \ {t} : call'[u] = call[u]
        BY <1>0, <2>3, CallChanges
      <3>2. ThreadOK(t)'
        BY <1>0, <2>1, <2>3, <3>1 DEF ThreadOK, LooksUpRight, Right, TakenForOlder, HooksInOrder, HookedLaunch
      <3> QED
        BY <2>1, <3>1, <3>2, OthersKept DEF Kept
    <2>4. CASE call[t].hooked # "no" /\ Goto(t, "after")
      <3>1. /\ call'[t].pc = "after" /\ call'[t].goal = call[t].goal /\ call'[t].fn = call[t].fn
            /\ call'[t].hooked = call[t].hooked
            /\ \A u \in Threads \ {t} : call'[u] = call[u]
        BY <1>0, <2>4, CallChanges
      <3>2. ThreadOK(t)'
        BY <1>0, <2>1, <2>4, <3>1 DEF ThreadOK, LooksUpRight, Right, TakenForOlder, HooksInOrder, HookedLaunch
      <3> QED
        BY <2>1, <3>1, <3>2, OthersKept DEF Kept
    <2> QED
      BY <2>1, <2>2, <2>3, <2>4
  <1>7. ASSUME NEW t \in Threads, AfterLaunch(t) PROVE Kept
    <2> DEFINE hooked == IF bypass[t] \/ setup.policy # "event" THEN call[t].hooked
                         ELSE Concluded(call[t].hooked)
    <2>1. /\ UNCHANGED <<setup, getproc, pointer>>
          /\ call[t].pc = "after"
          /\ ~bypass'[t] /\ \A u \in Threads \ {t} : bypass'[u] = bypass[u]
          /\ Return(t, hooked)
      BY <1>0, <1>7 DEF AfterLaunch, procVars
    <2>2. /\ call'[t].pc = "idle" /\ call'[t].goal = "none" /\ call'[t].hooked = hooked
          /\ \A u \in Threads \ {t} : call'[u] = call[u]
      BY <1>0, <2>1, CallChanges
    <2>3. hooked # "spurious" /\ (setup.policy = "event" => hooked # "admitted")
      BY <1>0, <2>1 DEF ThreadOK, HooksInOrder, Concluded
    <2>4. ThreadOK(t)'
      BY <1>0, <2>1, <2>2, <2>3 DEF ThreadOK, LooksUpRight, Right, TakenForOlder, HooksInOrder, HookedLaunch
    <2> QED
      BY <2>1, <2>2, <2>4, OthersKept DEF Kept
  <1>8. ASSUME NEW t \in Threads, Begins(t) PROVE Kept
    <2>1. CASE CallFatal(t)
      BY <1>0, <2>1, OthersKept
         DEF CallFatal, appVars, Kept, ThreadOK, LooksUpRight, Right, TakenForOlder, HooksInOrder, HookedLaunch
    <2>2. CASE ~CallFatal(t)
      <3>1. Begun(t) /\ UNCHANGED <<setup, bypass>>
        <4>1. UNCHANGED bypass
          BY <1>8, <2>2
             DEF Begins, Dlsym, GetProcAddress, UseGetProc, CallInit, CallFunction, CreateStream
        <4> QED
          BY <1>0, <1>8, <2>2, <4>1, BeginsCall DEF Begun, procVars
      <3>2. HooksInOrder(t)'
        BY <1>0, <3>1 DEF Begun, ThreadOK, HooksInOrder
      <3>3. HookedLaunch(t)'
        BY <1>0, <3>1 DEF Begun, ThreadOK, HookedLaunch, LooksUpRight, Right, TakenForOlder
      <3>4. /\ \A u \in Threads \ {t} : pointer'[u] = pointer[u] /\ getproc'[u] = getproc[u]
            /\ \/ UNCHANGED <<pointer, getproc>>
               \/ /\ UNCHANGED getproc
                  /\ Right(pointer'[t])
                  /\ pointer'[t].kind = "null" => pointer'[t].fn = Fn("none")
                  /\ pointer'[t].kind = "driver" => "next" \in setup.handles
               \/ /\ pointer'[t] = NoPointer
                  /\ getproc'[t] = pointer[t] /\ pointer[t].fn \in GetProcs
        <4>1. CASE \E handle \in {"default", "next"}, symbol \in setup.lookups[t] :
                     Dlsym(t, handle, symbol)
          BY <1>0, <4>1 DEF Dlsym, Answer, Real, Driver, NoPointer, Wrapper, Right
        <4>2. CASE \E symbol \in setup.lookups[t], version \in {11, 12}, flag \in BOOLEAN :
                     GetProcAddress(t, symbol, version, flag)
          <5>1. PICK symbol \in setup.lookups[t], version \in {11, 12}, flag \in BOOLEAN :
                       GetProcAddress(t, symbol, version, flag)
            BY <4>2
          <5>2. getproc[t].kind = "driver" => "next" \in setup.handles
            BY <1>0 DEF ThreadOK, LooksUpRight, Right, TakenForOlder
          <5> QED
            BY <1>0, <5>1, <5>2, AnswerTells DEF GetProcAddress, Answer
        <4>3. CASE UseGetProc(t)
          BY <1>0, <4>3 DEF UseGetProc, Answer
        <4>4. CASE UNCHANGED <<pointer, getproc>>
          BY <4>4
        <4> QED
          BY <1>8, <2>2, <4>1, <4>2, <4>3, <4>4 DEF Begins, CallInit, CallFunction, CreateStream
      <3>5. LooksUpRight(t)'
        <4>1. GetProcs \subseteq Interposed /\ Fn("none") \notin GetProcs
              /\ Right(NoPointer) /\ NoPointer.kind = "null" /\ NoPointer.fn = Fn("none")
          BY DEF Interposed, GetProcs, Fn, NoPointer, Right
        <4>2. pointer[t].kind \in {"null", "proxy", "driver"}
          BY <1>0 DEF PointerType
        <4> QED
          BY <1>0, <3>1, <3>4, <4>1, <4>2 DEF Begun, ThreadOK, LooksUpRight, Right, TakenForOlder
      <3> QED
        BY <3>1, <3>2, <3>3, <3>4, <3>5, OthersKept DEF Begun, Kept, ThreadOK
    <2> QED
      BY <2>1, <2>2
  <1>9. ASSUME UNCHANGED <<setup, appVars>> PROVE Kept
    BY <1>0, <1>9
       DEF appVars, Kept, Answers, ThreadOK, LooksUpRight, Right, TakenForOlder, HooksInOrder, HookedLaunch
  <1>10. ASSUME NEW t \in Threads, Proceeds(t) PROVE Kept
    BY <1>1, <1>2, <1>3, <1>4, <1>5, <1>6, <1>7, <1>10 DEF Proceeds
  <1>11. CASE Next
    <2>1. \/ \E t \in Threads : Proceeds(t) \/ Begins(t)
          \/ UNCHANGED <<setup, appVars>>
      BY <1>11 DEF Next, MemBegins, MemProceeds, TransferBegins, TransferProceeds, TransferFails, procVars
    <2> QED
      BY <1>8, <1>9, <1>10, <2>1 DEF Kept
  <1>12. CASE UNCHANGED vars
    BY <1>9, <1>12 DEF vars, procVars, Kept
  <1> QED
    BY <1>11, <1>12

LEMMA AnswersKept == Spec => [](LInv /\ Answers)
  <1>1. Init => LInv /\ Answers
    BY InitTypes, InitLoads, InitAnswers DEF LInv
  <1>2. LInv /\ Answers /\ [Next]_vars => (LInv /\ Answers)'
    BY NextTypes, NextLoads, NextAnswers DEF LInv
  <1> QED
    BY <1>1, <1>2, PTL DEF Spec

\* Every lookup gives the function of the version and the variant that the
\* driver would have given, but for the newer graph functions of a driver that
\* gives out other addresses than it exports (driver_proxy_compat.c 178).
THEOREM KindsPreserved == Spec => []KindPreserved
  <1>1. LInv /\ Answers => KindPreserved
    BY DEF Answers, ThreadOK, LooksUpRight, Right, KindPreserved
  <1> QED
    BY <1>1, AnswersKept, PTL

\* Whatever chain of lookups a program goes through, its launches run between
\* the hooks, but for the multi-device one and those without a configuration
\* (driver_proxy_compat.c 149, 184).
THEOREM LaunchesHooked == Spec => []LaunchesAreHooked
  <1>1. LInv /\ Answers => LaunchesAreHooked
    <2>1. Launches \ {MultiDevice.name} \subseteq HookedLaunches
      BY DEF Launches
    <2> QED
      BY <2>1 DEF Answers, ThreadOK, HookedLaunch, LaunchesAreHooked
  <1> QED
    BY <1>1, AnswersKept, PTL

\* The hook after a launch ends what the hook before it started, and nothing
\* else (be_intercept.c 281, hp_intercept.c 233).
THEOREM HooksMatch == Spec => []HooksPaired
  <1>1. LInv /\ Answers => HooksPaired
    BY DEF Answers, ThreadOK, HooksInOrder, HooksPaired
  <1> QED
    BY <1>1, AnswersKept, PTL

---------------------------------------------------------------------------
(* Streams.                                                                *)

\* Halving keeps the order, and an odd negative sum is halved upwards.
LEMMA HalvedOrder ==
  ASSUME NEW n \in Int
  PROVE  /\ Halved(n - 1) <= Halved(n)
         /\ n < 0 /\ n % 2 = 1 => Halved(n - 1) < Halved(n)
         /\ \A m \in Int : n <= 2 * m => Halved(n) <= m
  BY DEF Halved

\* The priorities of a BE's streams are above the middle, those of an HP's
\* below.
HpMiddle(range) == Halved(range[1] + range[2] - 1)
BeMiddle(range) == Halved(range[1] + range[2])

OnItsSide(s) ==
  s.range[2] <= s.range[1] =>
    /\ s.role = "be" /\ s.by # "program" => s.priority >= BeMiddle(s.range)
    /\ s.role = "hp" /\ s.by = "proxy" => s.priority <= HpMiddle(s.range)

PrioritiesSplit == \A s \in streams : OnItsSide(s)

LEMMA PrioritiesOrder ==
  ASSUME NEW role \in Roles, NEW least \in Int, NEW greatest \in Int, greatest <= least,
         NEW priority \in Priorities(role, least, greatest)
  PROVE  /\ role = "be" => priority >= Halved(least + greatest)
         /\ role = "hp" => priority <= Halved(least + greatest - 1)
  <1>1. Halved(least + greatest) \in Int /\ Halved(least + greatest - 1) \in Int
    BY HalvedInt
  <1>2. Halved(least + greatest) <= least
    BY HalvedOrder
  <1>3. \A asked \in Int :
          LET p == BoundedPriority(role, least, greatest, asked) IN
          /\ role = "be" => p >= Halved(least + greatest)
          /\ role = "hp" => p <= Halved(least + greatest - 1)
    BY <1>1 DEF BoundedPriority, Larger, Smaller
  <1>4. LET p == ChosenPriority(role, least, greatest) IN
          /\ role = "be" => p >= Halved(least + greatest)
          /\ role = "hp" => p <= Halved(least + greatest - 1)
    BY <1>1, <1>2 DEF ChosenPriority
  <1> QED
    BY <1>3, <1>4 DEF Priorities

LEMMA NextPriorities == ProcTypeOK /\ PrioritiesSplit /\ [Next]_vars => PrioritiesSplit'
  <1> SUFFICES ASSUME ProcTypeOK, PrioritiesSplit, [Next]_vars PROVE PrioritiesSplit'
    OBVIOUS
  <1>1. \/ UNCHANGED streams
        \/ \E t \in Threads, range \in setup.ranges : CreateStream(t, range)
    <2>1. ASSUME NEW t \in Threads, Proceeds(t) PROVE UNCHANGED streams
      BY <2>1 DEF Proceeds, EnterOnce, OpenDriver, LoadCuda, LoadNvml, DlsymEnds, GetProcAddressEnds,
             InitEnds, LookedUp, BeforeLaunch, CallDriver, AfterLaunch
    <2>2. ASSUME NEW t \in Threads, Begins(t)
          PROVE  UNCHANGED streams \/ \E range \in setup.ranges : CreateStream(t, range)
      BY <2>2 DEF Begins, Dlsym, GetProcAddress, UseGetProc, CallInit, CallFunction, CallFatal, appVars
    <2>3. CASE UNCHANGED appVars
      BY <2>3 DEF appVars
    <2>4. \/ \E t \in Threads : Proceeds(t) \/ Begins(t)
          \/ UNCHANGED appVars
      BY DEF Next, MemBegins, MemProceeds, TransferBegins, TransferProceeds, TransferFails, vars
    <2> QED
      BY <2>1, <2>2, <2>3, <2>4
  <1>2. ASSUME NEW t \in Threads, NEW range \in setup.ranges, CreateStream(t, range)
        PROVE  PrioritiesSplit'
    <2>1. range[1] = 0 /\ range[2] \in Int /\ setup.role[t] \in Roles
      BY DEF ProcTypeOK, SetupType
    <2>2. PICK priority, by : StreamMade(t, range, priority, by)
      BY <1>2, StreamIsMade
    <2>3. range[2] <= range[1] =>
            /\ setup.role[t] = "be" /\ by # "program" => priority >= Halved(range[1] + range[2])
            /\ setup.role[t] = "hp" /\ by = "proxy" => priority <= Halved(range[1] + range[2] - 1)
      <3>1. CASE by = "proxy"
        BY <2>1, <2>2, <3>1, PrioritiesOrder DEF StreamMade
      <3>2. CASE by = "driver"
        <4>1. range[2] <= range[1] => Halved(range[1] + range[2]) <= 0
          BY <2>1, HalvedOrder
        <4>2. priority = 0
          BY <2>2, <3>2 DEF StreamMade, DefaultPriority
        <4>3. Halved(range[1] + range[2]) \in Int
          BY <2>1, HalvedInt
        <4> QED
          BY <3>2, <4>1, <4>2, <4>3
      <3> QED
        BY <2>2, <3>1, <3>2 DEF StreamMade
    <2> DEFINE s == [role |-> setup.role[t], priority |-> priority, range |-> range, by |-> by]
    <2>4. s.range = range /\ s.role = setup.role[t] /\ s.priority = priority /\ s.by = by
      OBVIOUS
    <2> HIDE DEF s
    <2>5. \A q \in streams' : q \in streams \/ q = s
      BY <2>2 DEF StreamMade, s
    <2>6. OnItsSide(s)
      BY <2>3, <2>4 DEF OnItsSide, BeMiddle, HpMiddle
    <2> QED
      BY <2>5, <2>6 DEF PrioritiesSplit
  <1> QED
    BY <1>1, <1>2 DEF PrioritiesSplit

\* A stream of a BE is never more urgent than one of an HP as long as the
\* proxies gave both their priority, for every range of priorities a device can
\* have (be_intercept.c 2110, hp_intercept.c 1230).
THEOREM HpOutranks == Spec => []HpOutranksBe
  <1>1. Init => PrioritiesSplit
    BY DEF Init, PrioritiesSplit
  <1>2. ProcTypeOK /\ PrioritiesSplit => HpOutranksBe
    <2> SUFFICES ASSUME ProcTypeOK, PrioritiesSplit, NEW b \in streams, NEW h \in streams,
                        b.role = "be", b.by # "program", h.role = "hp", h.by = "proxy",
                        b.range = h.range,
                        h.range[2] <= h.range[1]
                 PROVE  /\ h.priority <= b.priority
                        /\ LET sum == h.range[1] + h.range[2] IN
                             sum < 0 /\ sum % 2 = 1 => h.priority < b.priority
      BY DEF HpOutranksBe
    <2> DEFINE sum == h.range[1] + h.range[2]
    <2>1. h.priority \in Int /\ b.priority \in Int /\ sum \in Int
          /\ h.range[1] \in Int /\ h.range[2] \in Int
      <3>1. h \in StreamType /\ b \in StreamType
        BY DEF ProcTypeOK, StreamType
      <3>2. h.range[1] \in Int /\ h.range[2] \in Int
        BY <3>1 DEF StreamType
      <3> QED
        BY <3>1, <3>2 DEF StreamType
    <2>2. h.priority <= HpMiddle(h.range) /\ b.priority >= BeMiddle(h.range)
      <3>1. OnItsSide(h) /\ OnItsSide(b)
        BY DEF PrioritiesSplit
      <3> QED
        BY <3>1 DEF OnItsSide
    <2>3. Halved(sum - 1) \in Int /\ Halved(sum) \in Int
      BY <2>1, HalvedInt
    <2>4. Halved(sum - 1) <= Halved(sum) /\ (sum < 0 /\ sum % 2 = 1 => Halved(sum - 1) < Halved(sum))
      BY <2>1, HalvedOrder
    <2>6. HpMiddle(h.range) = Halved(sum - 1) /\ BeMiddle(h.range) = Halved(sum)
      <3>1. h.range[1] + h.range[2] - 1 = sum - 1
        BY <2>1
      <3> QED
        BY <3>1 DEF HpMiddle, BeMiddle
    <2> HIDE DEF sum
    <2>5. h.priority <= b.priority /\ (sum < 0 /\ sum % 2 = 1 => h.priority < b.priority)
      BY <2>1, <2>2, <2>3, <2>4, <2>6
    <2> QED
      BY <2>5 DEF sum
  <1> QED
    BY <1>1, <1>2, Types, NextPriorities, PTL DEF Spec

---------------------------------------------------------------------------
(* Memory.  Every address a BE thread holds, and every release of one that *)
(* it has not forgotten yet, has a record of its own in the list or in one *)
(* that was replaced; an address that is live and recorded has one more    *)
(* than the releases under way.  So the record a release forgets, the      *)
(* newest with its address, is never the only one of a live range, whoever *)
(* has been given the address since.                                       *)

Records == [ptr : Pointers, size : Nat]

\* What the records of a sequence weigh together: their sizes, or how many
\* have an address.
Weighted(W, s) == SumFunctionOnSet([i \in DOMAIN s |-> W[s[i]]], DOMAIN s)

Sizes    == [r \in Records |-> r.size]
OfPtr(p) == [r \in Records |-> IF r.ptr = p THEN 1 ELSE 0]
Count(p) == Weighted(OfPtr(p), lost) + Weighted(OfPtr(p), ranges)

MemCall == [at : {"no", "context", "look", "init", "insert", "advise", "delete", "walk"},
            goal : {"no", "insert", "delete", "walk"},
            ptr : Pointers \cup {0}, size : Nat, ok : BOOLEAN]

\* Where a thread's call can be, and what it goes to.
CallOK(c) ==
  /\ c.at \in {"no", "context", "look", "init", "insert", "advise", "delete"}
  /\ c.at # "no" => c.ptr \in Pointers
  /\ c.at \in {"context", "insert", "advise"} => c.goal = "insert"
  /\ c.at \in {"look", "init"} => c.goal \in {"insert", "delete"}
  /\ c.at = "delete" => c.goal = "delete"

ManagerOK(c) ==
  /\ c.at \in {"no", "look", "init", "walk"}
  /\ c.at # "no" => c.goal = "walk"

MemTypes ==
  /\ mem \in [Actors -> MemCall]
  /\ heads \in Nat
  /\ ranges \in Seq(Records) /\ lost \in Seq(Records)
  /\ device \in [Pointers -> {"free", "recorded"} \cup Threads]
  /\ held \in [Threads -> SUBSET Pointers]

\* Only a BE's calls look at the list, and they insert into a list that is.
CallsOK ==
  /\ \A t \in Threads : CallOK(mem[t])
  /\ \A t \in Threads : mem[t].at \in {"look", "init", "insert", "delete"} => setup.role[t] = "be"
  /\ ManagerOK(mem[Manager])
  /\ heads = 0 => (ranges = <<>> /\ \A t \in Threads : mem[t].at # "insert")
  /\ heads <= 1 => lost = <<>>

\* A list is made by an actor that found none, once.
Making == {a \in Actors : mem[a].at = "init"}
HeadsOK == heads # 0 => heads + Cardinality(Making) <= Cardinality(Actors)

\* A thread has freed p and not forgotten it; it holds p, or is about to.
Pend(t, p) ==
  IF mem[t].at \in {"look", "init", "delete"} /\ mem[t].goal = "delete" /\ mem[t].ptr = p
  THEN 1 ELSE 0
Own(t, p) ==
  IF setup.role[t] = "be" /\ (p \in held[t] \/ (mem[t].at = "advise" /\ mem[t].ptr = p))
  THEN 1 ELSE 0

Pends(p)  == SumFunctionOnSet([t \in Threads |-> Pend(t, p)], Threads)
Claims(p) == SumFunctionOnSet([t \in Threads |-> Pend(t, p) + Own(t, p)], Threads)

Covered(p) ==
  /\ Count(p) >= Claims(p)
  /\ device[p] = "recorded" => Count(p) >= Pends(p) + 1

MemInv ==
  /\ MemTypes
  /\ CallsOK
  /\ HeadsOK
  /\ UsedIsTotal
  /\ \A p \in Pointers : Covered(p)

LEMMA Indices ==
  ASSUME NEW s \in Seq(Records)
  PROVE  /\ Len(s) \in Nat /\ DOMAIN s = 1 .. Len(s) /\ IsFiniteSet(DOMAIN s)
         /\ \A i \in DOMAIN s : s[i] \in Records
  <1>1. Len(s) \in Nat /\ DOMAIN s = 1 .. Len(s)
    OBVIOUS
  <1>2. IsFiniteSet(1 .. Len(s))
    BY <1>1, FS_Interval
  <1> QED
    BY <1>1, <1>2

\* Records weigh a natural number; two sequences weigh what each does; a
\* sequence without a record weighs as much less.
LEMMA WeightNat ==
  ASSUME NEW W \in [Records -> Nat], NEW s \in Seq(Records)
  PROVE  Weighted(W, s) \in Nat
  <1> DEFINE f == [i \in DOMAIN s |-> W[s[i]]]
  <1>1. \A i \in DOMAIN s : f[i] \in Nat
    BY Indices
  <1>2. IsFiniteSet(DOMAIN s) /\ \A i \in DOMAIN s : f[i] \in Int /\ f[i] >= 0
    BY <1>1, Indices
  <1>3. SumFunctionOnSet(f, DOMAIN s) \in Int /\ 0 <= SumFunctionOnSet(f, DOMAIN s)
    <2> HIDE DEF f
    <2> QED
      BY <1>2, SumType, SumMonotonic
  <1> QED
    BY <1>3 DEF Weighted

LEMMA WeightConcat ==
  ASSUME NEW W \in [Records -> Nat], NEW s \in Seq(Records), NEW q \in Seq(Records)
  PROVE  Weighted(W, s \o q) = Weighted(W, s) + Weighted(W, q)
  <1> DEFINE j == s \o q
             L == Len(s)
             M == Len(q)
             f == [i \in DOMAIN j |-> W[j[i]]]
             g == [i \in DOMAIN s |-> W[s[i]]]
             h == [i \in DOMAIN q |-> W[q[i]]]
             A == 1 .. L
             B == L + 1 .. L + M
             C == 1 .. M
  <1>1. L \in Nat /\ M \in Nat /\ DOMAIN s = A /\ DOMAIN q = C
    BY Indices
  <1>2. DOMAIN j = A \cup B /\ A \cap B = {}
    BY <1>1
  <1>3. IsFiniteSet(A) /\ IsFiniteSet(B) /\ IsFiniteSet(C)
    BY <1>1, FS_Interval
  <1>4. \A i \in A : f[i] = g[i] /\ g[i] \in Nat
    BY <1>1, <1>2, Indices
  <1>5. \A i \in C : h[i] \in Nat
    BY <1>1, Indices
  <1>6. \A i \in B : i - L \in C /\ f[i] = h[i - L] /\ f[i] \in Nat
    BY <1>1, <1>2, Indices
  <1>7. \A i \in A \cup B : f[i] \in Int
    BY <1>4, <1>6
  <1>8. SumFunctionOnSet(f, A) = SumFunctionOnSet(g, A)
    <2>1. \A i \in A : g[i] \in Int /\ f[i] = g[i]
      BY <1>4
    <2> HIDE DEF f, g, A
    <2> QED
      BY <1>3, <2>1, SumSame
  <1>9. SumFunctionOnSet(f, B) = SumFunctionOnSet(h, C)
    <2> DEFINE b == [i \in B |-> i - L]
               c == [i \in C |-> i + L]
    <2>1. b \in [B -> C] /\ c \in [C -> B]
      BY <1>1
    <2>2. \A i \in B : c[b[i]] = i /\ f[i] \in Nat /\ h[b[i]] = f[i]
      <3> HIDE DEF f, h
      <3> QED
        BY <1>1, <1>6
    <2>3. \A i \in C : b[c[i]] = i /\ h[i] \in Nat
      <3> HIDE DEF h
      <3> QED
        BY <1>1, <1>5
    <2>4. IsFiniteSet(B) /\ IsFiniteSet(C)
      BY <1>3
    <2>5. Renaming(B, f, C, h, b, c)
      <3> HIDE DEF b, c, f, h, B, C
      <3> QED
        BY <2>1, <2>2, <2>3 DEF Renaming
    <2> HIDE DEF b, c, f, h, B, C
    <2> QED
      BY <2>4, <2>5, SumRename
  <1>10. SumFunctionOnSet(f, A \cup B) = SumFunctionOnSet(f, A) + SumFunctionOnSet(f, B)
    <2> HIDE DEF f, A, B
    <2> QED
      BY <1>2, <1>3, <1>7, SumUnion
  <1> QED
    BY <1>1, <1>2, <1>8, <1>9, <1>10 DEF Weighted

LEMMA WeightOne ==
  ASSUME NEW W \in [Records -> Nat], NEW r \in Records
  PROVE  Weighted(W, <<r>>) = W[r] /\ Weighted(W, <<>>) = 0
  <1> DEFINE s == <<r>>
             f == [i \in DOMAIN s |-> W[s[i]]]
  <1>1. DOMAIN s = {1} /\ f[1] = W[r] /\ W[r] \in Nat
    OBVIOUS
  <1>2. IsFiniteSet({1}) /\ {1} \ {1} = {}
    BY FS_Singleton
  <1>3. SumFunctionOnSet(f, {1}) = f[1] + SumFunctionOnSet(f, {})
    <2>1. \A i \in {1} : f[i] \in Int
      BY <1>1
    <2> HIDE DEF f
    <2> QED
      BY <1>2, <2>1, SumRemove
  <1>4. SumFunctionOnSet(f, {1}) = W[r]
    BY <1>1, <1>3, SumEmpty
  <1>5. Weighted(W, <<>>) = 0
    <2>1. DOMAIN <<>> = {}
      OBVIOUS
    <2> QED
      BY <2>1, SumEmpty DEF Weighted
  <1> QED
    BY <1>1, <1>4, <1>5 DEF Weighted

LEMMA WeightRemove ==
  ASSUME NEW W \in [Records -> Nat], NEW s \in Seq(Records), NEW k \in DOMAIN s
  PROVE  /\ RemoveAt(s, k) \in Seq(Records)
         /\ Weighted(W, RemoveAt(s, k)) = Weighted(W, s) - W[s[k]]
  <1> DEFINE A == SubSeq(s, 1, k - 1)
             B == SubSeq(s, k + 1, Len(s))
  <1>0. Len(s) \in Nat /\ k \in 1 .. Len(s) /\ s[k] \in Records
    BY Indices
  <1>1. /\ A \in Seq(Records) /\ Len(A) = k - 1
        /\ \A i \in 1 .. k - 1 : A[i] = s[i]
    BY <1>0
  <1>2. /\ B \in Seq(Records) /\ Len(B) = Len(s) - k
        /\ \A i \in 1 .. Len(s) - k : B[i] = s[i + k]
    <2>1. k + 1 \in Int /\ Len(s) \in Int /\ \A i \in k + 1 .. Len(s) : s[i] \in Records
      BY <1>0
    <2>2. \A m, n \in Int : (\A i \in m .. n : s[i] \in Records) =>
             /\ SubSeq(s, m, n) \in Seq(Records)
             /\ Len(SubSeq(s, m, n)) = IF m <= n THEN n - m + 1 ELSE 0
             /\ \A i \in 1 .. n - m + 1 : SubSeq(s, m, n)[i] = s[m + i - 1]
      BY ONLY SubSeqProperties
    <2>3. /\ B \in Seq(Records)
          /\ Len(B) = IF k + 1 <= Len(s) THEN Len(s) - (k + 1) + 1 ELSE 0
          /\ \A i \in 1 .. Len(s) - (k + 1) + 1 : B[i] = s[k + 1 + i - 1]
      BY ONLY <2>1, <2>2
    <2>4. Len(B) = Len(s) - k
      BY ONLY <1>0, <2>3
    <2>5. ASSUME NEW i \in 1 .. Len(s) - k PROVE B[i] = s[i + k]
      <3>1. i \in 1 .. Len(s) - (k + 1) + 1 /\ k + 1 + i - 1 = i + k
        BY ONLY <1>0, i \in 1 .. Len(s) - k
      <3> QED
        BY ONLY <2>3, <3>1
    <2> QED
      BY <2>3, <2>4, <2>5
  <1>3. <<s[k]>> \in Seq(Records) /\ Len(<<s[k]>>) = 1 /\ <<s[k]>>[1] = s[k]
    BY <1>0
  <1>4. RemoveAt(s, k) = A \o B
    BY DEF RemoveAt
  <1> HIDE DEF A, B
  <1>5. s = (A \o <<s[k]>>) \o B
    <2>1. s = SubSeq(s, 1, k) \o B
      <3>1. 1 \in 1 .. Len(s) + 1 /\ k \in 1 - 1 .. Len(s) /\ Len(s) \in k .. Len(s)
        BY <1>0
      <3>2. SubSeq(s, 1, k) \o SubSeq(s, k + 1, Len(s)) = SubSeq(s, 1, Len(s))
        BY ONLY <3>1, s \in Seq(Records), ConcatAdjacentSubSeq
      <3>3. SubSeq(s, 1, Len(s)) = s
        BY SubSeqFull
      <3> QED
        BY <3>2, <3>3 DEF B
    <2>2. SubSeq(s, 1, k) = A \o <<s[k]>>
      <3>1. 1 \in 1 .. Len(s) /\ k \in 1 .. Len(s)
        BY <1>0
      <3>2. SubSeq(s, 1, k) = SubSeq(s, 1, k - 1) \o <<s[k]>>
        BY <3>1, SubSeqRecursiveSecond
      <3> QED
        BY <3>2 DEF A
    <2> QED
      BY <2>1, <2>2
  <1>6. A \o B \in Seq(Records) /\ A \o <<s[k]>> \in Seq(Records)
    BY <1>1, <1>2, <1>3
  <1>7. Weighted(W, A \o B) = Weighted(W, A) + Weighted(W, B)
    BY <1>1, <1>2, WeightConcat
  <1>8. Weighted(W, s) = Weighted(W, A \o <<s[k]>>) + Weighted(W, B)
    BY <1>2, <1>5, <1>6, WeightConcat
  <1>9. Weighted(W, A \o <<s[k]>>) = Weighted(W, A) + W[s[k]]
    BY ZenonT(30), <1>0, <1>1, <1>3, WeightConcat, WeightOne
  <1>10. Weighted(W, A) \in Nat /\ Weighted(W, B) \in Nat /\ W[s[k]] \in Nat
    BY <1>0, <1>1, <1>2, WeightNat
  <1>11. Weighted(W, A \o B) = Weighted(W, s) - W[s[k]]
    BY <1>7, <1>8, <1>9, <1>10
  <1> QED
    BY <1>4, <1>6, <1>11

LEMMA WeightZero ==
  ASSUME NEW W \in [Records -> Nat], NEW s \in Seq(Records),
         \A i \in DOMAIN s : W[s[i]] = 0
  PROVE  Weighted(W, s) = 0
  <1> DEFINE f == [i \in DOMAIN s |-> W[s[i]]]
  <1>1. \A i \in DOMAIN s : f[i] = 0
    OBVIOUS
  <1>2. IsFiniteSet(DOMAIN s)
    BY Indices
  <1> HIDE DEF f
  <1>3. SumFunctionOnSet(f, DOMAIN s) = 0
    BY <1>1, <1>2, SumZero
  <1> QED
    BY <1>3 DEF Weighted, f

LEMMA TotalWeighs == \A s \in Seq(Records) : Total(s) = Weighted(Sizes, s)
  <1> SUFFICES ASSUME NEW s \in Seq(Records) PROVE Total(s) = Weighted(Sizes, s)
    OBVIOUS
  <1>1. \A i \in DOMAIN s : s[i] \in Records
    BY Indices
  <1>2. [i \in DOMAIN s |-> s[i].size] = [i \in DOMAIN s |-> Sizes[s[i]]]
    BY <1>1 DEF Sizes
  <1> QED
    BY <1>2 DEF Total, Weighted

LEMMA Weights ==
  /\ Sizes \in [Records -> Nat]
  /\ \A p : OfPtr(p) \in [Records -> Nat]
  /\ \A r \in Records : Sizes[r] = r.size /\ \A p : OfPtr(p)[r] = IF r.ptr = p THEN 1 ELSE 0
  BY DEF Sizes, OfPtr, Records

\* A range that is counted is listed or lost.
LEMMA CountedListed ==
  ASSUME ranges \in Seq(Records), lost \in Seq(Records), NEW p, Count(p) > 0
  PROVE  \/ \E i \in DOMAIN ranges : ranges[i].ptr = p
         \/ \E i \in DOMAIN lost : lost[i].ptr = p
  <1> SUFFICES ASSUME \A i \in DOMAIN ranges : ranges[i].ptr # p,
                      \A i \in DOMAIN lost : lost[i].ptr # p
               PROVE  FALSE
    OBVIOUS
  <1>1. /\ \A i \in DOMAIN ranges : OfPtr(p)[ranges[i]] = 0
        /\ \A i \in DOMAIN lost : OfPtr(p)[lost[i]] = 0
    BY Indices, Weights
  <1>2. Weighted(OfPtr(p), ranges) = 0 /\ Weighted(OfPtr(p), lost) = 0
    BY <1>1, Weights, WeightZero
  <1>3. Count(p) = 0
    BY <1>2 DEF Count
  <1> QED
    BY <1>3

\* The lists that are being made.
LEMMA MakingFinite == IsFiniteSet(Actors) /\ IsFiniteSet(Making) /\ Cardinality(Making) <= Cardinality(Actors)
                      /\ Cardinality(Making) \in Nat /\ Cardinality(Actors) \in Nat
  <1>1. IsFiniteSet(Actors)
    BY MemAssumption, FS_AddElement DEF Actors
  <1>2. Making \subseteq Actors
    BY DEF Making
  <1> QED
    BY <1>1, <1>2, FS_Subset, FS_CardinalityType

LEMMA HeadsKept ==
  ASSUME HeadsOK, heads \in Nat, heads' = heads,
         \A a \in Actors : mem'[a].at = "init" => mem[a].at = "init" \/ heads = 0
  PROVE  HeadsOK'
  <1> SUFFICES ASSUME heads # 0 PROVE heads' + Cardinality(Making)' <= Cardinality(Actors)
    BY DEF HeadsOK, Actors
  <1>1. Making' \subseteq Making
    BY DEF Making, Actors
  <1>2. Cardinality(Making') <= Cardinality(Making) /\ Cardinality(Making') \in Nat
    BY <1>1, MakingFinite, FS_Subset, FS_CardinalityType
  <1>3. Cardinality(Making)' = Cardinality(Making')
    OBVIOUS
  <1>4. heads + Cardinality(Making) <= Cardinality(Actors)
    BY DEF HeadsOK
  <1> QED
    BY <1>2, <1>3, <1>4, MakingFinite

LEMMA HeadsMade ==
  ASSUME HeadsOK, heads \in Nat, heads' = heads + 1, NEW a \in Actors, mem[a].at = "init",
         mem'[a].at # "init", \A b \in Actors : b # a => mem'[b] = mem[b]
  PROVE  HeadsOK'
  <1>1. Making' = Making \ {a} /\ a \in Making
    BY DEF Making, Actors
  <1>2. Cardinality(Making') = Cardinality(Making) - 1
    BY <1>1, MakingFinite, FS_RemoveElement
  <1>3. Cardinality(Making)' = Cardinality(Making') /\ Cardinality(Actors)' = Cardinality(Actors)
    BY DEF Actors
  <1>4. heads + Cardinality(Making) <= Cardinality(Actors)
    BY MakingFinite DEF HeadsOK
  <1> QED
    BY <1>2, <1>3, <1>4, MakingFinite DEF HeadsOK

LEMMA ClaimTypes ==
  /\ \A t \in Threads : \A p : Pend(t, p) \in {0, 1} /\ Own(t, p) \in {0, 1}
  /\ \A p : Pends(p) \in Nat /\ Claims(p) \in Nat /\ Pends(p) <= Claims(p)
  <1>1. \A t \in Threads : \A p : Pend(t, p) \in {0, 1} /\ Own(t, p) \in {0, 1}
    BY DEF Pend, Own
  <1>2. ASSUME NEW p
        PROVE  Pends(p) \in Nat /\ Claims(p) \in Nat /\ Pends(p) <= Claims(p)
    <2> DEFINE f == [t \in Threads |-> Pend(t, p)]
               g == [t \in Threads |-> Pend(t, p) + Own(t, p)]
    <2>1. \A t \in Threads : f[t] \in Int /\ f[t] >= 0 /\ g[t] \in Int /\ g[t] >= 0 /\ f[t] <= g[t]
      BY <1>1
    <2>2. IsFiniteSet(Threads)
      BY MemAssumption
    <2> HIDE DEF f, g
    <2>3. /\ SumFunctionOnSet(f, Threads) \in Int /\ 0 <= SumFunctionOnSet(f, Threads)
          /\ SumFunctionOnSet(g, Threads) \in Int /\ 0 <= SumFunctionOnSet(g, Threads)
      BY <2>1, <2>2, SumType, SumMonotonic
    <2>4. SumFunctionOnSet(f, Threads) <= SumFunctionOnSet(g, Threads)
      BY <2>1, <2>2, SumLeq
    <2> QED
      BY <2>3, <2>4 DEF Pends, Claims, f, g
  <1> QED
    BY <1>1, <1>2

\* What one thread does changes its own claims only.
LEMMA OneClaims ==
  ASSUME NEW t \in Threads, NEW p,
         \A u \in Threads : u # t => Pend(u, p)' = Pend(u, p) /\ Own(u, p)' = Own(u, p)
  PROVE  /\ Pends(p)' = Pends(p) - Pend(t, p) + Pend(t, p)'
         /\ Claims(p)' = Claims(p) - (Pend(t, p) + Own(t, p)) + (Pend(t, p)' + Own(t, p)')
  <1> DEFINE f == [u \in Threads |-> Pend(u, p)]
             g == [u \in Threads |-> Pend(u, p)']
             h == [u \in Threads |-> Pend(u, p) + Own(u, p)]
             k == [u \in Threads |-> Pend(u, p)' + Own(u, p)']
  <1>1. \A u \in Threads : /\ Pend(u, p) \in {0, 1} /\ Own(u, p) \in {0, 1}
                           /\ Pend(u, p)' \in {0, 1} /\ Own(u, p)' \in {0, 1}
    BY DEF Pend, Own
  <1>2. \A u \in Threads : f[u] \in Int /\ g[u] \in Int /\ (u # t => g[u] = f[u])
    BY <1>1
  <1>3. \A u \in Threads : h[u] \in Int /\ k[u] \in Int /\ (u # t => k[u] = h[u])
    BY <1>1
  <1>4. /\ f[t] = Pend(t, p) /\ g[t] = Pend(t, p)'
        /\ h[t] = Pend(t, p) + Own(t, p) /\ k[t] = Pend(t, p)' + Own(t, p)'
    OBVIOUS
  <1>5. /\ Pends(p) = SumFunctionOnSet(f, Threads) /\ Pends(p)' = SumFunctionOnSet(g, Threads)
        /\ Claims(p) = SumFunctionOnSet(h, Threads) /\ Claims(p)' = SumFunctionOnSet(k, Threads)
    BY DEF Pends, Claims
  <1>6. IsFiniteSet(Threads)
    BY MemAssumption
  <1> HIDE DEF f, g, h, k
  <1>7. SumFunctionOnSet(g, Threads) = SumFunctionOnSet(f, Threads) - f[t] + g[t]
    BY <1>2, <1>6, SumChange
  <1>8. SumFunctionOnSet(k, Threads) = SumFunctionOnSet(h, Threads) - h[t] + k[t]
    BY <1>3, <1>6, SumChange
  <1> QED
    BY <1>4, <1>5, <1>7, <1>8

\* The claims are those of the threads' calls and addresses.
LEMMA SameClaims ==
  ASSUME setup' = setup, held' = held, \A t \in Threads : mem'[t] = mem[t]
  PROVE  \A p : Pends(p)' = Pends(p) /\ Claims(p)' = Claims(p)
  <1> SUFFICES ASSUME NEW p PROVE Pends(p)' = Pends(p) /\ Claims(p)' = Claims(p)
    OBVIOUS
  <1>1. [t \in Threads |-> Pend(t, p)'] = [t \in Threads |-> Pend(t, p)]
    BY DEF Pend
  <1>2. [t \in Threads |-> Pend(t, p)' + Own(t, p)'] = [t \in Threads |-> Pend(t, p) + Own(t, p)]
    BY DEF Pend, Own
  <1> QED
    BY <1>1, <1>2 DEF Pends, Claims

LEMMA CountNat ==
  ASSUME ranges \in Seq(Records), lost \in Seq(Records) PROVE \A p : Count(p) \in Nat
  <1> SUFFICES ASSUME NEW p PROVE Count(p) \in Nat
    OBVIOUS
  <1>1. Weighted(OfPtr(p), lost) \in Nat /\ Weighted(OfPtr(p), ranges) \in Nat
    BY Weights, WeightNat
  <1> QED
    BY <1>1 DEF Count

\* A step of t that changes the count of p by d.
LEMMA Covers ==
  ASSUME NEW t \in Threads, NEW p, NEW d \in Int, Covered(p),
         ranges \in Seq(Records), lost \in Seq(Records),
         setup' = setup,
         \A u \in Threads : u # t => mem'[u] = mem[u] /\ held'[u] = held[u],
         Count(p)' = Count(p) + d,
         Pend(t, p)' + Own(t, p)' <= Pend(t, p) + Own(t, p) + d,
         device'[p] = "recorded" =>
           \/ device[p] = "recorded" /\ Pend(t, p)' <= Pend(t, p) + d
           \/ d >= 1 /\ Pend(t, p)' <= Pend(t, p)
  PROVE  Covered(p)'
  <1>1. \A u \in Threads : u # t => Pend(u, p)' = Pend(u, p) /\ Own(u, p)' = Own(u, p)
    BY DEF Pend, Own
  <1>2. /\ Pends(p)' = Pends(p) - Pend(t, p) + Pend(t, p)'
        /\ Claims(p)' = Claims(p) - (Pend(t, p) + Own(t, p)) + (Pend(t, p)' + Own(t, p)')
    BY <1>1, OneClaims
  <1>3. /\ Pend(t, p) \in {0, 1} /\ Own(t, p) \in {0, 1}
        /\ Pend(t, p)' \in {0, 1} /\ Own(t, p)' \in {0, 1}
    BY DEF Pend, Own
  <1>4. Pends(p) \in Nat /\ Claims(p) \in Nat /\ Pends(p) <= Claims(p) /\ Count(p) \in Nat
    BY ClaimTypes, CountNat
  <1>5. Count(p) >= Claims(p) /\ (device[p] = "recorded" => Count(p) >= Pends(p) + 1)
    BY DEF Covered
  <1>6. Count(p)' >= Claims(p)'
    BY SMTT(30), <1>2, <1>3, <1>4, <1>5
  <1>7. ASSUME device'[p] = "recorded" PROVE Count(p)' >= Pends(p)' + 1
    <2>1. CASE device[p] = "recorded" /\ Pend(t, p)' <= Pend(t, p) + d
      BY <1>2, <1>3, <1>4, <1>5, <2>1
    <2>2. CASE d >= 1 /\ Pend(t, p)' <= Pend(t, p)
      BY <1>2, <1>3, <1>4, <1>5, <2>2
    <2> QED
      BY <1>7, <2>1, <2>2
  <1> QED
    BY <1>6, <1>7 DEF Covered

\* A thread's call goes to the next place.
LEMMA ProceedFacts ==
  ASSUME MemTypes, NEW a \in Actors, NEW place, Proceed(a, place),
         place \in {"no", "context", "look", "init", "insert", "advise", "delete", "walk"}
  PROVE  /\ mem' \in [Actors -> MemCall]
         /\ mem'[a].at = place /\ mem'[a].goal = mem[a].goal
         /\ mem'[a].ptr = mem[a].ptr
         /\ \A b \in Actors : b # a => mem'[b] = mem[b]
  BY ZenonT(30) DEF MemTypes, Proceed, MemCall

LEMMA ThreadsAct == \A t \in Threads : t \in Actors /\ t # Manager
  BY MemAssumption DEF Actors

LEMMA ManagerActs == Manager \in Actors
  BY DEF Actors

LEMMA InitMem == Init => MemInv
  <1> SUFFICES ASSUME Init PROVE MemInv
    OBVIOUS
  <1>1. NoCall \in MemCall /\ NoCall.at = "no"
    BY DEF NoCall, MemCall
  <1>2. <<>> \in Seq(Records)
    OBVIOUS
  <1>3. MemInit
    BY DEF Init
  <1>4. mem \in [Actors -> MemCall] /\ \A a \in Actors : mem[a].at = "no"
    BY <1>1, <1>3 DEF MemInit
  <1>5. MemTypes
    BY <1>2, <1>3, <1>4 DEF MemInit, MemTypes
  <1>6. CallsOK
    BY <1>3, <1>4, ThreadsAct, ManagerActs DEF MemInit, CallsOK, CallOK, ManagerOK
  <1>7. \A p : Weighted(OfPtr(p), <<>>) = 0 /\ Weighted(Sizes, <<>>) = 0
    <2>1. DOMAIN <<>> = {}
      OBVIOUS
    <2> QED
      BY <2>1, SumEmpty DEF Weighted
  <1>8. UsedIsTotal
    <2>1. Total(<<>>) = 0
      BY <1>2, <1>7, TotalWeighs
    <2>2. ranges = <<>> /\ lost = <<>> /\ used = 0
      BY <1>3 DEF MemInit
    <2> QED
      BY <2>1, <2>2 DEF UsedIsTotal
  <1>9. ASSUME NEW p \in Pointers PROVE Covered(p)
    <2>1. \A t \in Threads : Pend(t, p) + Own(t, p) = 0
      BY <1>3, <1>4, ThreadsAct DEF MemInit, Pend, Own
    <2>2. Claims(p) = 0
      <3> DEFINE f == [t \in Threads |-> Pend(t, p) + Own(t, p)]
      <3>1. \A t \in Threads : f[t] = 0
        BY <2>1
      <3> HIDE DEF f
      <3>2. SumFunctionOnSet(f, Threads) = 0
        BY <3>1, MemAssumption, SumZero
      <3> QED
        BY <3>2 DEF Claims, f
    <2>3. Count(p) = 0
      BY <1>3, <1>7 DEF MemInit, Count
    <2>4. device[p] = "free"
      BY <1>3 DEF MemInit
    <2> QED
      BY <2>2, <2>3, <2>4 DEF Covered
  <1>10. HeadsOK
    BY <1>3 DEF MemInit, HeadsOK
  <1> QED
    BY <1>5, <1>6, <1>8, <1>9, <1>10 DEF MemInv

\* Steps that leave the records alone.
LEMMA CoverKept ==
  ASSUME MemInv, NEW t \in Threads, setup' = setup,
         \A p : Count(p)' = Count(p),
         \A u \in Threads : u # t => mem'[u] = mem[u] /\ held'[u] = held[u],
         \A p \in Pointers :
           /\ Pend(t, p)' + Own(t, p)' <= Pend(t, p) + Own(t, p)
           /\ device'[p] = "recorded" => device[p] = "recorded" /\ Pend(t, p)' <= Pend(t, p)
  PROVE  \A p \in Pointers : Covered(p)'
  <1> SUFFICES ASSUME NEW p \in Pointers PROVE Covered(p)'
    OBVIOUS
  <1>1. Covered(p) /\ ranges \in Seq(Records) /\ lost \in Seq(Records)
    BY DEF MemInv, MemTypes
  <1>2. Count(p)' = Count(p) + 0
    BY <1>1, CountNat
  <1>3. Pend(t, p)' + Own(t, p)' <= Pend(t, p) + Own(t, p) + 0
    BY DEF Pend, Own
  <1>4. device'[p] = "recorded" => device[p] = "recorded" /\ Pend(t, p)' <= Pend(t, p) + 0
    BY DEF Pend
  <1>5. 0 \in Int
    OBVIOUS
  <1> QED
    BY <1>1, <1>2, <1>3, <1>4, <1>5, Covers

LEMMA ListKept ==
  ASSUME MemInv, NEW t \in Threads, setup' = setup,
         ranges' = ranges, lost' = lost,
         \A u \in Threads : u # t => mem'[u] = mem[u] /\ held'[u] = held[u],
         \A p \in Pointers :
           /\ Pend(t, p)' + Own(t, p)' <= Pend(t, p) + Own(t, p)
           /\ device'[p] = "recorded" => device[p] = "recorded" /\ Pend(t, p)' <= Pend(t, p)
  PROVE  \A p \in Pointers : Covered(p)'
  <1>1. \A p : Count(p)' = Count(p)
    BY DEF Count, OfPtr
  <1> QED
    BY <1>1, CoverKept

LEMMA TotalKept ==
  ASSUME MemInv, ranges' = ranges, lost' = lost, used' = used
  PROVE  UsedIsTotal'
  BY DEF MemInv, UsedIsTotal

LEMMA BeginAllocKeeps ==
  ASSUME MemInv, setup' = setup, NEW t \in Threads, NEW ok \in BOOLEAN, BeginAlloc(t, ok)
  PROVE  MemInv'
  <1>1. /\ mem[t].at = "no" /\ ranges' = ranges /\ lost' = lost /\ used' = used
        /\ heads' = heads /\ held' = held
    BY DEF BeginAlloc
  <1>2. PICK p \in Pointers :
          /\ mem' = [mem EXCEPT ![t] = [at |-> "context", goal |-> "insert", ptr |-> p,
                                        size |-> SizeOf[t], ok |-> ok]]
          /\ device' = IF ok THEN [device EXCEPT ![p] = t] ELSE device
    BY DEF BeginAlloc, FreeAddresses
  <1>3. MemTypes /\ CallsOK /\ t \in Actors /\ t # Manager
    BY ThreadsAct DEF MemInv
  <1>4. /\ mem' \in [Actors -> MemCall]
        /\ mem'[t].at = "context" /\ mem'[t].goal = "insert" /\ mem'[t].ptr = p
        /\ \A b \in Actors : b # t => mem'[b] = mem[b]
    BY <1>2, <1>3, MemAssumption DEF MemTypes, MemCall
  <1>5. MemTypes'
    BY <1>1, <1>2, <1>3, <1>4 DEF MemTypes
  <1>6. CallsOK'
    BY <1>1, <1>3, <1>4, ThreadsAct, ManagerActs DEF CallsOK, CallOK
  <1>7. \A q \in Pointers : device'[q] = "recorded" => device[q] = "recorded"
    BY <1>2, <1>3, MemAssumption DEF MemTypes
  <1>8. \A q : Pend(t, q)' = 0 /\ Own(t, q)' <= Own(t, q) /\ Pend(t, q) = 0 /\ Own(t, q) \in {0, 1}
    BY <1>1, <1>4 DEF Pend, Own
  <1>9. \A q \in Pointers : Covered(q)'
    BY <1>1, <1>4, <1>7, <1>8, ThreadsAct, ListKept DEF Own
  <1>20. HeadsOK'
    BY <1>1, <1>3, <1>4, HeadsKept DEF MemInv, MemTypes
  <1> QED
    BY <1>1, <1>5, <1>6, <1>9, <1>20, TotalKept DEF MemInv

LEMMA AskDeviceKeeps ==
  ASSUME MemInv, setup' = setup, NEW t \in Threads, NEW known \in BOOLEAN,
         AskDevice(t, setup.role[t] = "be", known)
  PROVE  MemInv'
  <1>1. /\ mem[t].at = "context" /\ ranges' = ranges /\ lost' = lost /\ used' = used
        /\ heads' = heads /\ held' = held /\ device' = device
    BY DEF AskDevice
  <1>3. MemTypes /\ CallsOK /\ t \in Actors /\ t # Manager
    BY ThreadsAct DEF MemInv
  <1>2. PICK place \in {"no", "look", "advise"} :
          /\ Proceed(t, place)
          /\ place = "look" => setup.role[t] = "be"
          /\ place = "advise" => setup.role[t] # "be"
    BY DEF AskDevice
  <1>4. /\ mem' \in [Actors -> MemCall]
        /\ mem'[t].at = place /\ mem'[t].goal = mem[t].goal /\ mem'[t].ptr = mem[t].ptr
        /\ \A b \in Actors : b # t => mem'[b] = mem[b]
    BY <1>2, <1>3, ProceedFacts
  <1>5. MemTypes'
    BY <1>1, <1>3, <1>4 DEF MemTypes
  <1>6. CallOK(mem[t]) /\ CallOK(mem'[t])
    BY <1>1, <1>2, <1>3, <1>4 DEF CallsOK, CallOK
  <1>7. CallsOK'
    BY <1>1, <1>2, <1>3, <1>4, <1>6, ThreadsAct, ManagerActs DEF CallsOK
  <1>8. \A q : Pend(t, q)' = 0 /\ Own(t, q)' <= Own(t, q) /\ Pend(t, q) = 0 /\ Own(t, q) \in {0, 1}
    BY <1>1, <1>2, <1>4, <1>6 DEF Pend, Own, CallOK
  <1>9. \A q \in Pointers : Covered(q)'
    BY <1>1, <1>4, <1>8, ThreadsAct, ListKept DEF Own
  <1>20. HeadsOK'
    BY <1>1, <1>2, <1>3, <1>4, HeadsKept DEF MemInv, MemTypes
  <1> QED
    BY <1>1, <1>5, <1>7, <1>9, <1>20, TotalKept DEF MemInv

LEMMA LookKeeps ==
  ASSUME MemInv, setup' = setup, NEW t \in Threads, Look(t)
  PROVE  MemInv'
  <1>1. /\ mem[t].at = "look" /\ ranges' = ranges /\ lost' = lost /\ used' = used
        /\ heads' = heads /\ held' = held /\ device' = device
    BY DEF Look
  <1>2. MemTypes /\ CallsOK /\ t \in Actors /\ t # Manager
    BY ThreadsAct DEF MemInv
  <1>3. CallOK(mem[t]) /\ setup.role[t] = "be" /\ mem[t].goal \in {"insert", "delete"}
    BY <1>1, <1>2 DEF CallsOK, CallOK
  <1>4. PICK place \in {"init", "insert", "delete"} :
          /\ Proceed(t, place)
          /\ place # "init" => place = mem[t].goal /\ heads # 0
          /\ place = "init" => heads = 0
    BY <1>3 DEF Look
  <1>5. /\ mem' \in [Actors -> MemCall]
        /\ mem'[t].at = place /\ mem'[t].goal = mem[t].goal /\ mem'[t].ptr = mem[t].ptr
        /\ \A b \in Actors : b # t => mem'[b] = mem[b]
    BY <1>2, <1>4, ProceedFacts
  <1>6. MemTypes'
    BY <1>1, <1>2, <1>5 DEF MemTypes
  <1>7. CallOK(mem'[t])
    BY <1>1, <1>3, <1>4, <1>5 DEF CallOK
  <1>8. CallsOK'
    BY <1>1, <1>2, <1>3, <1>4, <1>5, <1>7, ThreadsAct, ManagerActs DEF CallsOK
  <1>9. \A q : /\ Pend(t, q)' = Pend(t, q) /\ Own(t, q)' = Own(t, q)
               /\ Pend(t, q) \in {0, 1} /\ Own(t, q) \in {0, 1}
    BY <1>1, <1>3, <1>4, <1>5 DEF Pend, Own
  <1>10. \A q \in Pointers : Covered(q)'
    BY <1>1, <1>5, <1>9, ThreadsAct, ListKept
  <1>20. HeadsOK'
    BY <1>1, <1>2, <1>3, <1>4, <1>5, HeadsKept DEF MemInv, MemTypes
  <1> QED
    BY <1>1, <1>6, <1>8, <1>10, <1>20, TotalKept DEF MemInv

\* The list is replaced: by an empty one for an empty one, or the second time.
LEMMA ListReplaced ==
  ASSUME MemInv, heads' = heads + 1, ranges' = <<>>, lost' = lost \o ranges, used' = used
  PROVE  /\ ranges' \in Seq(Records) /\ lost' \in Seq(Records)
         /\ heads' \in Nat /\ heads' # 0
         /\ UsedIsTotal'
         /\ heads' <= 1 => lost' = <<>>
         /\ \A p : Count(p)' = Count(p)
  <1>1. /\ heads \in Nat /\ ranges \in Seq(Records) /\ lost \in Seq(Records)
        /\ (heads = 0 => ranges = <<>>) /\ (heads <= 1 => lost = <<>>)
        /\ used = Total(ranges) + Total(lost)
    BY DEF MemInv, MemTypes, CallsOK, UsedIsTotal
  <1>2. ranges' \in Seq(Records) /\ lost' \in Seq(Records)
    BY <1>1
  <1>3. Total(<<>>) = 0
    <2>1. <<>> \in Seq(Records) /\ DOMAIN <<>> = {}
      OBVIOUS
    <2>2. Weighted(Sizes, <<>>) = 0
      BY <2>1, SumEmpty DEF Weighted
    <2> QED
      BY <2>1, <2>2, TotalWeighs
  <1>4. Total(lost \o ranges) = Total(lost) + Total(ranges)
    <2>1. Weighted(Sizes, lost \o ranges) = Weighted(Sizes, lost) + Weighted(Sizes, ranges)
      BY <1>1, Weights, WeightConcat
    <2>2. lost \o ranges \in Seq(Records)
      BY <1>1
    <2> QED
      BY <1>1, <2>1, <2>2, TotalWeighs
  <1>5. Total(ranges) \in Nat /\ Total(lost) \in Nat
    BY <1>1, Weights, WeightNat, TotalWeighs
  <1>6. UsedIsTotal'
    <2>1. Total(ranges)' = 0 /\ Total(lost)' = Total(lost) + Total(ranges)
      BY <1>3, <1>4 DEF Total
    <2> QED
      BY <1>1, <1>5, <2>1 DEF UsedIsTotal
  <1>7. heads' <= 1 => lost' = <<>>
    BY <1>1
  <1>8. ASSUME NEW p PROVE Count(p)' = Count(p)
    <2>1. OfPtr(p) \in [Records -> Nat]
      BY Weights
    <2>2. Weighted(OfPtr(p), lost \o ranges) = Weighted(OfPtr(p), lost) + Weighted(OfPtr(p), ranges)
      BY <1>1, <2>1, WeightConcat
    <2>3. Weighted(OfPtr(p), <<>>) = 0
      <3>1. DOMAIN <<>> = {}
        OBVIOUS
      <3> QED
        BY <3>1, SumEmpty DEF Weighted
    <2>4. Count(p)' = Weighted(OfPtr(p), lost \o ranges) + Weighted(OfPtr(p), <<>>)
      BY DEF Count, OfPtr
    <2>5. Weighted(OfPtr(p), lost) \in Nat /\ Weighted(OfPtr(p), ranges) \in Nat
      BY <1>1, <2>1, WeightNat
    <2> QED
      BY <2>2, <2>3, <2>4, <2>5 DEF Count
  <1> QED
    BY <1>1, <1>2, <1>6, <1>7, <1>8

LEMMA InitListKeeps ==
  ASSUME MemInv, setup' = setup, NEW t \in Threads, InitList(t)
  PROVE  MemInv'
  <1>1. /\ mem[t].at = "init" /\ ranges' = <<>> /\ lost' = lost \o ranges /\ used' = used
        /\ heads' = heads + 1 /\ held' = held /\ device' = device
        /\ Proceed(t, mem[t].goal)
    BY DEF InitList
  <1>2. MemTypes /\ CallsOK /\ t \in Actors /\ t # Manager
    BY ThreadsAct DEF MemInv
  <1>3. CallOK(mem[t]) /\ setup.role[t] = "be" /\ mem[t].goal \in {"insert", "delete"}
    BY <1>1, <1>2 DEF CallsOK, CallOK
  <1>4. /\ mem' \in [Actors -> MemCall]
        /\ mem'[t].at = mem[t].goal /\ mem'[t].goal = mem[t].goal /\ mem'[t].ptr = mem[t].ptr
        /\ \A b \in Actors : b # t => mem'[b] = mem[b]
    BY <1>1, <1>2, <1>3, ProceedFacts
  <1>5. /\ ranges' \in Seq(Records) /\ lost' \in Seq(Records)
        /\ heads' \in Nat /\ heads' # 0
        /\ UsedIsTotal'
        /\ heads' <= 1 => lost' = <<>>
        /\ \A p : Count(p)' = Count(p)
    BY <1>1, ListReplaced
  <1>6. MemTypes'
    BY <1>1, <1>2, <1>4, <1>5 DEF MemTypes
  <1>7. CallOK(mem'[t])
    BY <1>1, <1>3, <1>4 DEF CallOK
  <1>8. CallsOK'
    BY <1>2, <1>3, <1>4, <1>5, <1>7, ThreadsAct, ManagerActs DEF CallsOK
  <1>9. \A q : /\ Pend(t, q)' = Pend(t, q) /\ Own(t, q)' = Own(t, q)
               /\ Pend(t, q) \in {0, 1} /\ Own(t, q) \in {0, 1}
    BY <1>1, <1>3, <1>4 DEF Pend, Own
  <1>10. \A q \in Pointers : Covered(q)'
    <2>1. \A u \in Threads : u # t => mem'[u] = mem[u] /\ held'[u] = held[u]
      BY <1>1, <1>4, ThreadsAct
    <2>2. \A q \in Pointers :
            /\ Pend(t, q)' + Own(t, q)' <= Pend(t, q) + Own(t, q)
            /\ device'[q] = "recorded" => device[q] = "recorded" /\ Pend(t, q)' <= Pend(t, q)
      BY <1>1, <1>9
    <2> QED
      BY <1>5, <2>1, <2>2, CoverKept
  <1>20. HeadsOK'
    BY <1>1, <1>2, <1>3, <1>4, HeadsMade DEF MemInv, MemTypes
  <1> QED
    BY <1>5, <1>6, <1>8, <1>10, <1>20 DEF MemInv

LEMMA AdviseKeeps ==
  ASSUME MemInv, setup' = setup, NEW t \in Threads, NEW advised \in BOOLEAN, Advise(t, advised)
  PROVE  MemInv'
  <1>1. /\ mem[t].at = "advise" /\ ranges' = ranges /\ lost' = lost /\ used' = used
        /\ heads' = heads /\ device' = device
        /\ mem' = [mem EXCEPT ![t] = NoCall]
        /\ held' = IF advised THEN [held EXCEPT ![t] = @ \cup {mem[t].ptr}] ELSE held
    BY DEF Advise
  <1>2. MemTypes /\ CallsOK /\ t \in Actors /\ t # Manager
    BY ThreadsAct DEF MemInv
  <1>3. mem[t].ptr \in Pointers
    BY <1>1, <1>2 DEF CallsOK, CallOK
  <1>4. /\ mem' \in [Actors -> MemCall] /\ mem'[t].at = "no"
        /\ \A b \in Actors : b # t => mem'[b] = mem[b]
    BY <1>1, <1>2 DEF MemTypes, MemCall, NoCall
  <1>5. /\ held' \in [Threads -> SUBSET Pointers]
        /\ held'[t] \subseteq held[t] \cup {mem[t].ptr}
        /\ \A u \in Threads : u # t => held'[u] = held[u]
    BY <1>1, <1>2, <1>3 DEF MemTypes
  <1>6. MemTypes'
    BY <1>1, <1>2, <1>4, <1>5 DEF MemTypes
  <1>7. CallsOK'
    BY <1>1, <1>2, <1>4, ThreadsAct, ManagerActs DEF CallsOK, CallOK
  <1>8. \A q : /\ Pend(t, q)' = 0 /\ Pend(t, q) = 0 /\ Own(t, q)' <= Own(t, q)
               /\ Own(t, q) \in {0, 1} /\ Own(t, q)' \in {0, 1}
    BY <1>1, <1>4, <1>5 DEF Pend, Own
  <1>9. \A q \in Pointers : Covered(q)'
    BY <1>1, <1>4, <1>5, <1>8, ThreadsAct, ListKept
  <1>20. HeadsOK'
    BY <1>1, <1>2, <1>4, HeadsKept DEF MemInv, MemTypes
  <1> QED
    BY <1>1, <1>6, <1>7, <1>9, <1>20, TotalKept DEF MemInv

LEMMA BeginFreeKeeps ==
  ASSUME MemInv, setup' = setup, NEW t \in Threads, NEW p \in Pointers,
         BeginFree(t, p, setup.role[t] = "be")
  PROVE  MemInv'
  <1> DEFINE begun == setup.role[t] = "be" /\ device[p] # "free"
  <1>1. /\ mem[t].at = "no" /\ ranges' = ranges /\ lost' = lost /\ used' = used
        /\ heads' = heads /\ p \in held[t]
        /\ held' = [held EXCEPT ![t] = @ \ {p}]
        /\ device' = [device EXCEPT ![p] = "free"]
        /\ begun => mem' = [mem EXCEPT ![t] = [NoCall EXCEPT !.at = "look", !.goal = "delete", !.ptr = p]]
        /\ ~begun => mem' = mem
    BY DEF BeginFree
  <1>2. MemTypes /\ CallsOK /\ t \in Actors /\ t # Manager
    BY ThreadsAct DEF MemInv
  <1>3. /\ mem' \in [Actors -> MemCall]
        /\ begun => mem'[t].at = "look" /\ mem'[t].goal = "delete" /\ mem'[t].ptr = p
        /\ ~begun => mem'[t].at = "no"
        /\ \A b \in Actors : b # t => mem'[b] = mem[b]
    <2>1. CASE begun
      <3> DEFINE c == [NoCall EXCEPT !.at = "look", !.goal = "delete", !.ptr = p]
      <3>1. c \in MemCall /\ c.at = "look" /\ c.goal = "delete" /\ c.ptr = p
        BY DEF NoCall, MemCall
      <3>2. mem' = [mem EXCEPT ![t] = c]
        BY <1>1, <2>1
      <3> HIDE DEF c
      <3> QED
        BY <1>2, <2>1, <3>1, <3>2 DEF MemTypes
    <2>2. CASE ~begun
      BY <1>1, <1>2, <2>2 DEF MemTypes
    <2> QED
      BY <2>1, <2>2
  <1>4. /\ held' \in [Threads -> SUBSET Pointers] /\ held'[t] = held[t] \ {p}
        /\ \A u \in Threads : u # t => held'[u] = held[u]
    BY <1>1, <1>2 DEF MemTypes
  <1>5. /\ device' \in [Pointers -> {"free", "recorded"} \cup Threads]
        /\ \A q \in Pointers : device'[q] = "recorded" => q # p /\ device[q] = "recorded"
    BY <1>1, <1>2 DEF MemTypes
  <1>6. MemTypes'
    BY <1>1, <1>2, <1>3, <1>4, <1>5 DEF MemTypes
  <1>7. CallsOK'
    BY <1>1, <1>2, <1>3, ThreadsAct, ManagerActs DEF CallsOK, CallOK
  <1>8. \A q : /\ Pend(t, q)' + Own(t, q)' <= Pend(t, q) + Own(t, q)
               /\ q # p => Pend(t, q)' <= Pend(t, q)
    BY <1>1, <1>3, <1>4 DEF Pend, Own
  <1>9. \A q \in Pointers : Covered(q)'
    BY <1>1, <1>3, <1>4, <1>5, <1>8, ThreadsAct, ListKept
  <1>20. HeadsOK'
    BY <1>1, <1>2, <1>3, HeadsKept DEF MemInv, MemTypes
  <1> QED
    BY <1>1, <1>6, <1>7, <1>9, <1>20, TotalKept DEF MemInv

LEMMA InsertKeeps ==
  ASSUME MemInv, setup' = setup, NEW t \in Threads, Insert(t)
  PROVE  MemInv'
  <1> DEFINE r == [ptr |-> mem[t].ptr, size |-> mem[t].size]
             p == mem[t].ptr
  <1>1. /\ mem[t].at = "insert" /\ lost' = lost /\ heads' = heads /\ held' = held
        /\ used' = used + r.size
        /\ ranges' = <<r>> \o ranges
        /\ device' = IF mem[t].ok /\ device[p] = t THEN [device EXCEPT ![p] = "recorded"] ELSE device
        /\ Proceed(t, "advise")
    BY DEF Insert
  <1>2. MemTypes /\ CallsOK /\ t \in Actors /\ t # Manager
    BY ThreadsAct DEF MemInv
  <1>3. CallOK(mem[t]) /\ setup.role[t] = "be" /\ p \in Pointers /\ heads # 0 /\ mem[t].goal = "insert"
    BY <1>1, <1>2 DEF CallsOK, CallOK
  <1>4. r \in Records /\ <<r>> \in Seq(Records) /\ r.ptr = p
    <2>1. mem[t] \in MemCall
      BY <1>2 DEF MemTypes
    <2> QED
      BY <1>3, <2>1 DEF MemCall, Records
  <1>5. /\ mem' \in [Actors -> MemCall]
        /\ mem'[t].at = "advise" /\ mem'[t].goal = mem[t].goal /\ mem'[t].ptr = p
        /\ \A b \in Actors : b # t => mem'[b] = mem[b]
    BY <1>1, <1>2, ProceedFacts
  <1>6. /\ ranges \in Seq(Records) /\ lost \in Seq(Records) /\ ranges' \in Seq(Records)
    BY <1>1, <1>2, <1>4 DEF MemTypes
  <1>7. /\ device' \in [Pointers -> {"free", "recorded"} \cup Threads]
        /\ \A q \in Pointers : device'[q] = "recorded" => device[q] = "recorded" \/ q = p
    BY <1>1, <1>2 DEF MemTypes
  <1>8. MemTypes'
    BY <1>1, <1>2, <1>5, <1>6, <1>7 DEF MemTypes
  <1>9. CallsOK'
    BY <1>1, <1>2, <1>3, <1>5, ThreadsAct, ManagerActs DEF CallsOK, CallOK
  <1> HIDE DEF r
  <1>10. \A W \in [Records -> Nat] : Weighted(W, ranges') = Weighted(W, ranges) + W[r]
    <2> SUFFICES ASSUME NEW W \in [Records -> Nat]
                 PROVE  Weighted(W, ranges') = Weighted(W, ranges) + W[r]
      OBVIOUS
    <2>1. Weighted(W, <<r>> \o ranges) = Weighted(W, <<r>>) + Weighted(W, ranges)
      BY <1>4, <1>6, WeightConcat
    <2>2. Weighted(W, <<r>>) = W[r]
      BY <1>4, WeightOne
    <2>3. Weighted(W, ranges) \in Nat /\ W[r] \in Nat
      BY <1>4, <1>6, WeightNat
    <2> QED
      BY <1>1, <2>1, <2>2, <2>3
  <1>11. UsedIsTotal'
    <2>1. Total(ranges)' = Total(ranges) + r.size /\ Total(lost)' = Total(lost)
      <3>1. Total(ranges)' = Weighted(Sizes, ranges') /\ Total(ranges) = Weighted(Sizes, ranges)
        <4>1. Total(ranges') = Weighted(Sizes, ranges') /\ Total(ranges) = Weighted(Sizes, ranges)
          BY <1>6, TotalWeighs
        <4> QED
          BY <4>1 DEF Total
      <3>2. Weighted(Sizes, ranges') = Weighted(Sizes, ranges) + r.size
        BY <1>4, <1>10, Weights
      <3> QED
        BY <1>1, <3>1, <3>2 DEF Total
    <2>2. Total(ranges) \in Nat /\ Total(lost) \in Nat /\ r.size \in Nat
      BY ZenonT(30), <1>4, <1>6, Weights, WeightNat, TotalWeighs DEF Records
    <2>3. used = Total(ranges) + Total(lost)
      BY DEF MemInv, UsedIsTotal
    <2>4. used' = used + r.size
      BY <1>1
    <2> QED
      BY <2>1, <2>2, <2>3, <2>4 DEF UsedIsTotal
  <1>12. ASSUME NEW q \in Pointers PROVE Covered(q)'
    <2> DEFINE d == IF q = p THEN 1 ELSE 0
    <2>1. Covered(q)
      BY DEF MemInv
    <2>2. Count(q)' = Count(q) + d
      <3>1. Weighted(OfPtr(q), ranges') = Weighted(OfPtr(q), ranges) + OfPtr(q)[r]
        BY <1>10, Weights
      <3>2. OfPtr(q)[r] = d
        BY <1>4, Weights
      <3>3. Count(q)' = Weighted(OfPtr(q), lost) + Weighted(OfPtr(q), ranges')
        BY <1>1 DEF Count, OfPtr
      <3>4. Weighted(OfPtr(q), lost) \in Nat /\ Weighted(OfPtr(q), ranges) \in Nat
        BY <1>6, Weights, WeightNat
      <3> QED
        BY <3>1, <3>2, <3>3, <3>4 DEF Count
    <2>3. /\ Pend(t, q) = 0 /\ Pend(t, q)' = 0 /\ Own(t, q)' <= Own(t, q) + d
      BY <1>1, <1>3, <1>5 DEF Pend, Own
    <2>4. Own(t, q) \in {0, 1} /\ Own(t, q)' \in {0, 1} /\ d \in {0, 1}
      BY DEF Own
    <2>5. device'[q] = "recorded" => device[q] = "recorded" \/ d >= 1
      BY <1>7
    <2>6. \A u \in Threads : u # t => mem'[u] = mem[u] /\ held'[u] = held[u]
      BY <1>1, <1>5, ThreadsAct
    <2> HIDE DEF d, p
    <2>7. d \in Int
      BY <2>4
    <2>8. Pend(t, q)' + Own(t, q)' <= Pend(t, q) + Own(t, q) + d
      BY <2>3, <2>4
    <2>9. device'[q] = "recorded" =>
           \/ device[q] = "recorded" /\ Pend(t, q)' <= Pend(t, q) + d
           \/ d >= 1 /\ Pend(t, q)' <= Pend(t, q)
      BY <2>3, <2>4, <2>5
    <2> QED
      BY <1>6, <2>1, <2>2, <2>6, <2>7, <2>8, <2>9, Covers
  <1>20. HeadsOK'
    BY <1>1, <1>2, <1>5, HeadsKept DEF MemInv, MemTypes
  <1> QED
    BY <1>8, <1>9, <1>11, <1>12, <1>20 DEF MemInv

\* The first of the records that are found.
LEMMA LeastIndex ==
  ASSUME NEW F, F \subseteq Nat, F # {}
  PROVE  \E i \in F : \A j \in F : i <= j
  <1> DEFINE R == OpToRel(<, Nat)
  <1>1. IsWellFoundedOn(R, Nat)
    BY NatLessThanWellFounded
  <1>2. PICK m \in F : \A y \in F : <<y, m>> \notin R
    <2> HIDE DEF R
    <2> QED
      BY <1>1, WFMin
  <1>3. \A y \in F : ~(y < m)
    BY <1>2 DEF OpToRel
  <1> HIDE DEF R
  <1> QED
    BY <1>3

LEMMA DeleteKeeps ==
  ASSUME MemInv, setup' = setup, NEW t \in Threads, Delete(t)
  PROVE  MemInv'
  <1> DEFINE p == mem[t].ptr
             found == {i \in DOMAIN ranges : ranges[i].ptr = p}
             first == CHOOSE i \in found : \A j \in found : i <= j
  <1>1. /\ mem[t].at = "delete" /\ lost' = lost /\ heads' = heads /\ held' = held
        /\ device' = device
        /\ found = {} => ranges' = ranges /\ used' = used
        /\ found # {} => used' = used - ranges[first].size /\ ranges' = RemoveAt(ranges, first)
        /\ mem' = [mem EXCEPT ![t] = NoCall]
    BY DEF Delete
  <1>2. MemTypes /\ CallsOK /\ t \in Actors /\ t # Manager
    BY ThreadsAct DEF MemInv
  <1>3. p \in Pointers /\ mem[t].goal = "delete"
    BY <1>1, <1>2 DEF CallsOK, CallOK
  <1>4. /\ mem' \in [Actors -> MemCall] /\ mem'[t].at = "no"
        /\ \A b \in Actors : b # t => mem'[b] = mem[b]
    BY <1>1, <1>2 DEF MemTypes, MemCall, NoCall
  <1>5. ranges \in Seq(Records) /\ lost \in Seq(Records)
    BY <1>2 DEF MemTypes
  <1>6. Total(ranges) \in Nat /\ Total(lost) \in Nat
    BY <1>5, Weights, WeightNat, TotalWeighs
  <1>7. ASSUME found # {} PROVE first \in DOMAIN ranges /\ ranges[first].ptr = p
    <2>1. found \subseteq Nat
      BY <1>5, Indices
    <2>2. \E i \in found : \A j \in found : i <= j
      BY <1>7, <2>1, LeastIndex
    <2>3. first \in found
      BY <2>2
    <2> QED
      BY <2>3
  <1>8. \A q \in Pointers : /\ Pend(t, q) = (IF q = p THEN 1 ELSE 0) /\ Pend(t, q)' = 0
                            /\ Own(t, q)' = Own(t, q) /\ Own(t, q) \in {0, 1}
    BY <1>1, <1>3, <1>4 DEF Pend, Own
  <1>9. \A u \in Threads : u # t => mem'[u] = mem[u] /\ held'[u] = held[u]
    BY <1>1, <1>4, ThreadsAct
  <1>10. CallsOK' \/ found # {}
    BY <1>1, <1>2, <1>4, ThreadsAct, ManagerActs DEF CallsOK, CallOK
  <1>20. HeadsOK'
    BY <1>1, <1>2, <1>4, HeadsKept DEF MemInv, MemTypes
  <1>11. CASE found = {}
    <2>1. MemTypes'
      BY <1>1, <1>2, <1>4, <1>11 DEF MemTypes
    <2>2. \A q \in Pointers :
            /\ Pend(t, q)' + Own(t, q)' <= Pend(t, q) + Own(t, q)
            /\ device'[q] = "recorded" => device[q] = "recorded" /\ Pend(t, q)' <= Pend(t, q)
      BY <1>1, <1>8
    <2>3. ranges' = ranges /\ used' = used
      BY <1>1, <1>11
    <2>4. \A q \in Pointers : Covered(q)'
      BY <1>1, <1>9, <2>2, <2>3, ListKept
    <2> QED
      BY <1>1, <1>10, <1>11, <1>20, <2>1, <2>3, <2>4, TotalKept DEF MemInv
  <1>12. CASE found # {}
    <2> DEFINE r == ranges[first]
    <2>1. /\ first \in DOMAIN ranges /\ r.ptr = p /\ r \in Records
          /\ ranges' = RemoveAt(ranges, first) /\ used' = used - r.size
      BY <1>1, <1>5, <1>7, <1>12, Indices
    <2> HIDE DEF r, first
    <2>2. /\ ranges' \in Seq(Records)
          /\ \A W \in [Records -> Nat] : Weighted(W, ranges') = Weighted(W, ranges) - W[r]
      BY <1>5, <2>1, WeightRemove, Weights DEF r
    <2>3. MemTypes'
      BY <1>1, <1>2, <1>4, <2>2 DEF MemTypes
    <2>4. ranges # <<>>
      BY <1>12
    <2>5. CallsOK'
      BY <1>1, <1>2, <1>4, <2>4, ThreadsAct, ManagerActs DEF CallsOK, CallOK
    <2>6. UsedIsTotal'
      <3>1. Total(ranges)' = Weighted(Sizes, ranges') /\ Total(ranges) = Weighted(Sizes, ranges)
        <4>1. Total(ranges') = Weighted(Sizes, ranges') /\ Total(ranges) = Weighted(Sizes, ranges)
          BY <1>5, <2>2, TotalWeighs
        <4> QED
          BY <4>1 DEF Total
      <3>2. Weighted(Sizes, ranges') = Weighted(Sizes, ranges) - r.size
        BY <2>1, <2>2, Weights
      <3>3. Total(lost)' = Total(lost)
        BY <1>1 DEF Total
      <3>4. used = Total(ranges) + Total(lost)
        BY DEF MemInv, UsedIsTotal
      <3>5. r.size \in Nat
        BY <2>1 DEF Records
      <3> QED
        BY <1>6, <2>1, <3>1, <3>2, <3>3, <3>4, <3>5 DEF UsedIsTotal
    <2>7. ASSUME NEW q \in Pointers PROVE Covered(q)'
      <3> DEFINE d == IF q = p THEN -1 ELSE 0
      <3>1. Covered(q)
        BY DEF MemInv
      <3>2. Count(q)' = Count(q) + d
        <4>1. Weighted(OfPtr(q), ranges') = Weighted(OfPtr(q), ranges) - OfPtr(q)[r]
          BY <2>2, Weights
        <4>2. OfPtr(q)[r] = IF q = p THEN 1 ELSE 0
          BY <2>1, Weights
        <4>3. Count(q)' = Weighted(OfPtr(q), lost) + Weighted(OfPtr(q), ranges')
          BY <1>1 DEF Count, OfPtr
        <4>4. Weighted(OfPtr(q), lost) \in Nat /\ Weighted(OfPtr(q), ranges) \in Nat
          BY <1>5, Weights, WeightNat
        <4> QED
          BY <4>1, <4>2, <4>3, <4>4 DEF Count
      <3>3. Pend(t, q) = -d /\ Pend(t, q)' = 0 /\ Own(t, q)' = Own(t, q) /\ Own(t, q) \in {0, 1}
        BY <1>8
      <3>4. d \in {-1, 0} /\ device'[q] = device[q]
        BY <1>1
      <3> HIDE DEF d, p
      <3>5. d \in Int
        BY <3>4
      <3>6. Pend(t, q)' + Own(t, q)' <= Pend(t, q) + Own(t, q) + d
        BY <3>3, <3>4
      <3>7. device'[q] = "recorded" =>
             \/ device[q] = "recorded" /\ Pend(t, q)' <= Pend(t, q) + d
             \/ d >= 1 /\ Pend(t, q)' <= Pend(t, q)
        BY <3>3, <3>4
      <3> QED
        BY <1>5, <1>9, <2>2, <3>1, <3>2, <3>5, <3>6, <3>7, Covers
    <2> QED
      BY <1>20, <2>3, <2>5, <2>6, <2>7 DEF MemInv
  <1> QED
    BY <1>11, <1>12

\* What the limit manager does to the list.
LEMMA ManagerKeeps ==
  ASSUME MemInv, setup' = setup, held' = held, device' = device, used' = used,
         mem' \in [Actors -> MemCall], ManagerOK(mem'[Manager]),
         \A a \in Actors : a # Manager => mem'[a] = mem[a],
         \/ /\ heads' = heads /\ ranges' = ranges /\ lost' = lost
            /\ mem'[Manager].at = "init" => mem[Manager].at = "init" \/ heads = 0
         \/ /\ heads' = heads + 1 /\ ranges' = <<>> /\ lost' = lost \o ranges
            /\ mem[Manager].at = "init" /\ mem'[Manager].at # "init"
  PROVE  MemInv'
  <1>1. MemTypes /\ CallsOK /\ UsedIsTotal
    BY DEF MemInv
  <1>2. \A t \in Threads : mem'[t] = mem[t]
    BY ThreadsAct
  <1>3. /\ ranges' \in Seq(Records) /\ lost' \in Seq(Records) /\ heads' \in Nat
        /\ UsedIsTotal' /\ HeadsOK'
        /\ heads' <= 1 => lost' = <<>>
        /\ heads' = 0 => heads = 0 /\ ranges' = ranges
        /\ \A p : Count(p)' = Count(p)
    <2>1. CASE heads' = heads /\ ranges' = ranges /\ lost' = lost
      <3>1. \A p : Count(p)' = Count(p)
        BY <2>1 DEF Count, OfPtr
      <3>2. HeadsOK'
        BY <1>1, <2>1, HeadsKept DEF MemInv, MemTypes
      <3> QED
        BY <1>1, <2>1, <3>1, <3>2, TotalKept DEF MemTypes, CallsOK
    <2>2. CASE heads' = heads + 1 /\ ranges' = <<>> /\ lost' = lost \o ranges
      <3>1. HeadsOK'
        BY <1>1, <2>2, ManagerActs, HeadsMade DEF MemInv, MemTypes
      <3> QED
        BY <2>2, <3>1, ListReplaced
    <2> QED
      BY <2>1, <2>2
  <1>4. MemTypes'
    BY <1>1, <1>3 DEF MemTypes
  <1>5. CallsOK'
    BY <1>1, <1>2, <1>3 DEF CallsOK
  <1>6. ASSUME NEW p \in Pointers PROVE Covered(p)'
    <2>1. Pends(p)' = Pends(p) /\ Claims(p)' = Claims(p)
      BY <1>2, SameClaims
    <2>2. Covered(p)
      BY DEF MemInv
    <2> QED
      BY <1>3, <2>1, <2>2 DEF Covered
  <1> QED
    BY <1>3, <1>4, <1>5, <1>6 DEF MemInv

LEMMA ManagerSteps ==
  ASSUME MemInv, setup' = setup,
         BeginTransfer \/ Look(Manager) \/ InitList(Manager) \/ Walk
  PROVE  MemInv'
  <1>1. MemTypes /\ ManagerOK(mem[Manager]) /\ Manager \in Actors
    BY ManagerActs DEF MemInv, CallsOK
  <1>2. CASE BeginTransfer
    <2> DEFINE c == [NoCall EXCEPT !.at = "look", !.goal = "walk"]
    <2>1. c \in MemCall /\ c.at = "look" /\ c.goal = "walk"
      BY DEF NoCall, MemCall
    <2>2. mem' = [mem EXCEPT ![Manager] = c] /\ UNCHANGED <<heads, ranges, lost, used, device, held>>
      BY <1>2 DEF BeginTransfer
    <2> HIDE DEF c
    <2>3. mem' \in [Actors -> MemCall] /\ ManagerOK(mem'[Manager]) /\ mem'[Manager].at # "init"
      BY <1>1, <2>1, <2>2 DEF MemTypes, ManagerOK
    <2>4. \A a \in Actors : a # Manager => mem'[a] = mem[a]
      BY <1>1, <2>2 DEF MemTypes
    <2> QED
      BY <2>2, <2>3, <2>4, ManagerKeeps
  <1>3. CASE Look(Manager)
    <2>1. PICK place \in {"init", "walk"} : Proceed(Manager, place) /\ (place = "init" => heads = 0)
      BY <1>1, <1>3 DEF Look, ManagerOK
    <2>2. mem[Manager].at = "look" /\ UNCHANGED <<heads, ranges, lost, used, device, held>>
      BY <1>3 DEF Look
    <2>3. /\ mem' \in [Actors -> MemCall]
          /\ mem'[Manager].at = place /\ mem'[Manager].goal = mem[Manager].goal
          /\ \A b \in Actors : b # Manager => mem'[b] = mem[b]
      BY <1>1, <2>1, ProceedFacts
    <2>4. ManagerOK(mem'[Manager]) /\ (mem'[Manager].at = "init" => heads = 0)
      BY <1>1, <2>1, <2>2, <2>3 DEF ManagerOK
    <2> QED
      BY <2>2, <2>3, <2>4, ManagerKeeps
  <1>4. CASE InitList(Manager)
    <2>1. /\ mem[Manager].at = "init" /\ Proceed(Manager, mem[Manager].goal)
          /\ heads' = heads + 1 /\ ranges' = <<>> /\ lost' = lost \o ranges
          /\ UNCHANGED <<used, device, held>>
      BY <1>4 DEF InitList
    <2>2. mem[Manager].goal = "walk"
      BY <1>1, <2>1 DEF ManagerOK
    <2>3. /\ mem' \in [Actors -> MemCall]
          /\ mem'[Manager].at = "walk" /\ mem'[Manager].goal = mem[Manager].goal
          /\ \A b \in Actors : b # Manager => mem'[b] = mem[b]
      BY <1>1, <2>1, <2>2, ProceedFacts
    <2>4. ManagerOK(mem'[Manager]) /\ mem'[Manager].at # "init"
      BY <2>2, <2>3 DEF ManagerOK
    <2> QED
      BY <2>1, <2>3, <2>4, ManagerKeeps
  <1>5. CASE Walk
    <2>1. mem' = [mem EXCEPT ![Manager] = NoCall] /\ UNCHANGED <<heads, ranges, lost, used, device, held>>
      BY <1>5 DEF Walk
    <2>2. NoCall \in MemCall /\ NoCall.at = "no"
      BY DEF NoCall, MemCall
    <2>3. mem' \in [Actors -> MemCall] /\ ManagerOK(mem'[Manager]) /\ mem'[Manager].at # "init"
      BY <1>1, <2>1, <2>2 DEF MemTypes, ManagerOK
    <2>4. \A a \in Actors : a # Manager => mem'[a] = mem[a]
      BY <1>1, <2>1 DEF MemTypes
    <2> QED
      BY <2>1, <2>3, <2>4, ManagerKeeps
  <1> QED
    BY <1>2, <1>3, <1>4, <1>5

\* Steps that are not about memory.
LEMMA MemStutters ==
  ASSUME MemInv, setup' = setup, UNCHANGED memVars
  PROVE  MemInv'
  <1>1. /\ mem' = mem /\ heads' = heads /\ ranges' = ranges /\ lost' = lost
        /\ used' = used /\ device' = device /\ held' = held
    BY DEF memVars
  <1>2. /\ mem' \in [Actors -> MemCall] /\ ManagerOK(mem'[Manager])
    BY <1>1 DEF MemInv, MemTypes, CallsOK
  <1> QED
    BY <1>1, <1>2, ManagerKeeps

LEMMA OtherSteps ==
  ASSUME NEW t \in Threads, Proceeds(t) \/ Begins(t)
  PROVE  setup' = setup /\ UNCHANGED memVars
  <1> USE DEF procVars
  <1>1. CASE EnterOnce(t) \/ OpenDriver(t) \/ LoadCuda(t) \/ LoadNvml(t)
    BY <1>1 DEF EnterOnce, OpenDriver, LoadCuda, LoadNvml
  <1>2. CASE DlsymEnds(t) \/ GetProcAddressEnds(t) \/ InitEnds(t) \/ LookedUp(t)
    BY <1>2 DEF DlsymEnds, GetProcAddressEnds, InitEnds, LookedUp
  <1>3. CASE BeforeLaunch(t) \/ CallDriver(t) \/ AfterLaunch(t)
    BY <1>3 DEF BeforeLaunch, CallDriver, AfterLaunch
  <1>4. CASE Begins(t)
    BY <1>4 DEF Begins, Dlsym, GetProcAddress, UseGetProc, CallInit, CallFunction, CallFatal, CreateStream
  <1> QED
    BY <1>1, <1>2, <1>3, <1>4 DEF Proceeds

LEMMA NextMem == MemInv /\ [Next]_vars => MemInv'
  <1> SUFFICES ASSUME MemInv, [Next]_vars PROVE MemInv'
    OBVIOUS
  <1>1. CASE UNCHANGED vars
    BY <1>1, MemStutters DEF vars, procVars
  <1>2. ASSUME NEW t \in Threads, Proceeds(t) \/ Begins(t) PROVE MemInv'
    BY <1>2, OtherSteps, MemStutters
  <1>3. ASSUME NEW t \in Threads, MemBegins(t) PROVE MemInv'
    BY <1>3, BeginAllocKeeps, BeginFreeKeeps DEF MemBegins, procVars
  <1>4. ASSUME NEW t \in Threads, MemProceeds(t) PROVE MemInv'
    <2>1. setup' = setup /\ MemStep(t, setup.role[t] = "be")
      BY <1>4 DEF MemProceeds, procVars
    <2> QED
      BY <2>1, AskDeviceKeeps, LookKeeps, InitListKeeps, InsertKeeps, AdviseKeeps, DeleteKeeps
      DEF MemStep
  <1>5. ASSUME TransferBegins \/ TransferProceeds PROVE MemInv'
    BY <1>5, ManagerSteps DEF TransferBegins, TransferProceeds, procVars
  <1>6. CASE TransferFails
    BY <1>6, MemStutters DEF TransferFails
  <1> QED
    BY <1>1, <1>2, <1>3, <1>4, <1>5, <1>6 DEF Next

LEMMA MemKept == Spec => []MemInv
  <1>1. Init => MemInv
    BY InitMem
  <1>2. MemInv /\ [Next]_vars => MemInv'
    BY NextMem
  <1> QED
    BY <1>1, <1>2, PTL DEF Spec

LEMMA MemImplies == MemInv => MemTypeOK /\ LiveIsListed /\ UsedIsTotal
  <1> SUFFICES ASSUME MemInv PROVE MemTypeOK /\ LiveIsListed /\ UsedIsTotal
    OBVIOUS
  <1>1. MemTypes /\ UsedIsTotal
    BY DEF MemInv
  <1>2. used \in Nat
    BY <1>1, Weights, WeightNat, TotalWeighs DEF UsedIsTotal, MemTypes
  <1>3. MemTypeOK
    BY <1>1, <1>2 DEF MemTypes, MemTypeOK
  <1>4. ASSUME NEW p \in Pointers, device[p] = "recorded" PROVE p \in Listed \cup Lost
    <2>1. Count(p) > 0
      BY <1>1, <1>4, ClaimTypes, CountNat DEF MemInv, Covered, MemTypes
    <2>2. \/ \E i \in DOMAIN ranges : ranges[i].ptr = p
          \/ \E i \in DOMAIN lost : lost[i].ptr = p
      BY <1>1, <2>1, CountedListed DEF MemTypes
    <2> QED
      BY <2>2 DEF Listed, Lost, Range
  <1>5. lost # <<>> => heads > 1
    BY <1>1 DEF MemInv, CallsOK, MemTypes
  <1>6. heads <= Cardinality(Actors)
    BY <1>1, MakingFinite DEF MemInv, HeadsOK, MemTypes
  <1> QED
    BY <1>1, <1>3, <1>4, <1>5, <1>6 DEF LiveIsListed

\* The types hold; what is live and recorded stays in the list, or there is a
\* record of it in one of the lists that were replaced, of which there are
\* fewer than actors; and the total is that of the records of all the lists:
\* for every number of threads and addresses, with addresses given out again
\* before their release is noticed (be_intercept.c: allocate_mem, delete_mem,
\* init_list).
THEOREM MemoryHolds == Spec => []MemoryAccounted
  <1>1. ProcTypeOK /\ MemInv => MemoryAccounted
    BY MemImplies DEF MemoryAccounted, TypeOK
  <1> QED
    BY <1>1, Types, MemKept, PTL
=============================================================================
