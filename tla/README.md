# A TLA+ model of shuJIT

shuJIT is a just-in-time compiler for the classic Sun JVM on x86.  The JVM calls
it through hooks; Java threads then compile methods, and run compiled ones, with
no thread of the compiler's own.  This directory holds TLA+ modules for the parts
whose correctness depends on order, interleaving or failure, TLC configurations
that check them on small instances, and TLAPS proofs for instances of any size.

## Inventory of the system

| part | source | state | operations |
|---|---|---|---|
| compilation protocol | `compile.c`, `computil.c`, `optimize.c`, `invoker.c`, `compiler.c` | per method: `mb->invoker`, `CompiledCode`, `ACC_MACHINE_COMPILED`, `CodeInfo` (`cc`, `inlineability`, `invocation_count`, throw table, monitor); pool of `CompilerContext`s; `global_monitor` | `compileMethod`, `getCompilerContext`, `releaseCompilerContext`, `prepareCompiledCodeInfo`, `methodInlining`, `eagerCompilation`, `compileAndInvokeMethod`, `compileClass`, `initializeClassForJIT`, `compilerEnable/Disable` |
| front end | `compile.c` | the table of internal instructions (`pctable`) | `makePCTable`, `makeBlockStructure` |
| stack caching | `compile.c`, `code.c`, `code.h` | which of EDX and ECX hold the top of the operand stack (5 states) | `updateStates`, five templates per instruction, state transitions at jumps |
| code generation | `compile.c` | native buffer, jump table | `writeCode`, `resolveJumpInstructions`, `resolveExcRetSwitch`, `resolveDynamicConstants`, `makeExcTable`, `resolveFunctionSymbols` |
| peephole optimizer | `optimize.c` | `pctable` | `peepholeOptimization` |
| method invocation | `code.c`, `runtime.c`, `invoker.c`, `compiler.c` | frames and operand stack of the Java VM, native stack, `mb->invoker`, monitors of synchronized methods | `INVOKE_CORE`, `invocationHelper`, `compileAndInvokeMethod`, `invokeJITCompiledMethod`, inlined entry and exit, method tail, `framePrev` |
| exceptions and patching by signal | `signal.c`, `computil.c`, `runtime.c` | throw table, patched bytes, one trampoline per method, exception and its bytecode offset | SIGSEGV, SIGFPE and SIGTRAP handlers, `once_InitClass`, `searchCatchFrame` |
| other runtime functions | `runtime.c` | inline caches of `invokeinterface` | `getInterfaceMethod`, conversions, allocation |
| code database | `codedb.c` | files | `readCompiledCode`, `writeCompiledCode` (not in the default build) |
| MetaVM client | `Proxy.java`, `metavm/proxy.c`, `metavm/nativemtd.c` | per proxy: `sock` and its streams, `id`, `length`; per thread: the remote flag | field, array, block, method and monitor operations, `reference`, `establishConnection`, `closeConnection`, creation of remote objects |
| MetaVM server | `MetaVMServer.java`, `ThreadPool.java`, `Skeleton.java`, `metavm/vmop.c` | stack of idle threads, `target` of each; per connection: `Skeleton.obj`, `length`; monitors of the objects | main loop, `AThread.run`, one request handler per code of `Protocol.java` |
| MetaVM export table | `ExportTable.java`, `ObjectID.java` | objects under lease, by identifier | `register`, `get`, `expire`, `reset` |
| MetaVM streams | `DistObject*Stream.java`, `ByValue*.java`, `metavm/type.c` | handle tables of the streams | by-value copies, replacement by proxies |
| MetaVM classes, access | `RemoteClassLoader.java`, `AccessController.java` | loaders by source address, rule list | class loading over the network, connection filter |

Compiled code and the protocol meet in `mb->invoker` (what an invocation through
the VM runs), in `ACC_MACHINE_COMPILED` (compiled code calls `CompiledCode`
directly when it is set) and in `invoke_core_compiled` (a call bound at compile
time).  Threads meet in one re-entrant monitor per method (`info->monitor`) and in
`global_monitor`.

The hard behaviours: compilation is recursive (a method's callees are compiled,
to internal code for inlining or completely, while its own monitor is held);
contexts are shared by threads that compile the same method and recycled through
an unlocked list; several fields are read before a lock and used after it; and a
compilation may fail half way.  In MetaVM, two machines and a connection that may
break stand between a thread and its object; the server acknowledges field writes
before it performs them, the client returns from block stores with data in its
buffer, remote monitors belong to server threads, and proxies are shared.  A call
goes through one of eight protocols, chosen from fields another thread may change
between two instructions, and each must find the arguments, the frame and the
monitor where the other kind of code left them.  Null references, divisions and
first executions are signals: what they mean depends on where the processor was,
on tables built earlier and on bytes of code another thread is changing.
`PROJECT.json` lists each of these with its line.

## Modules

`Compilation.tla` models the compilation protocol.  Each thread has a stack of C
activations (`stack`, `depth`); an activation records where it is (`pc`), its
method, target stage, context, and the position of the inlining or eager scan.  An
action is one section of code no other thread can interfere with: the body of a
monitor section, or one unlocked access.  `Lookup` covers the section under
`global_monitor` and the entry into `info->monitor`; `Get`, `Pop`, `Reset`, `Ref`
split the section of `getCompilerContext()` because the pool it works on is not
protected by that monitor; `Unref`, `Unlink`, `Link`, `Push` split
`releaseCompilerContext()` for the same reason.  `Front` stands for
`makePCTable()` to the write of `inlineability`, `Preserve` for the copy of the
instructions that other methods inline, `Write` for `updateStates()` to the copy into
`mb->CompiledCode`, `Static` for the resolution of constants, exception table and
symbols and the flag for direct calls, `Install` for `mb->invoker`, `Finish` for the
stage: other threads read each of these without the monitor.

Data is abstracted to what the properties distinguish.  Native code is the method
it was generated from, or `Junk` when it was generated from a table or into a
buffer that was used twice.  The instruction table is the sequence of its
`invokespecial`/`invokestatic` call sites.  The throw table is the sequence of the
passes of `writeCode()` that filled it, `"part"` for one that failed.

`CompilationProofs.tla` holds the theorems, first those about any threads, then those
about a thread that is the only one in the compiler; `MCCompilation.tla` the instances
for TLC.

`ThreadPool.tla` models the server's main loop and its pool.  A step is one
`synchronized` section or one access to the field `target`, which the dispatcher
writes and the worker tests outside any monitor.  `Die` is a worker ended by an
`Error`.  `ThreadPoolProofs.tla` has its theorems.

Five modules model how bytecodes become instructions.  The compiler keeps the
two topmost words of the operand stack in EDX and ECX when it can; `code.c` has a
template for every internal opcode in each of the five states this gives.

* `NativeCode.tla` is the machine: registers, stack memory (words below ESP stay
  where they are), the FPU stack, local variables, and the list of visible effects
  (checks, tests, stores, returns).  Words are symbolic terms, so two computations
  agree when they build the same term; commutative operators take a set.  The
  processor and the C functions are external.  Storing a double and loading it
  again is taken to be exact: the model does not follow the extra bits the x87 has
  unless its precision is set to double, which the compiler does in `strictfp`
  methods only.  For single precision the term keeps the rounding.
* `CodeTable.tla` is `code_table[opcode][state]`, one definition per template or
  `CODE_*` macro, for the x87 build.  A template is the sequence of instructions
  it executes under run-time conditions `env` (remote array, wide shift).
* `ObjectCode.tla` goes on with the templates that work on objects: fields, new
  objects and arrays, casts, monitors, calls, ignored calls and inlined methods of
  `Math`.  Most of them call C functions, which destroy ECX and EDX, and save what a
  state caches around the call (`FUNCCALL_IN`, `FUNCCALL_OUT`).  A call is the chain
  `stateto0`, `inv_head`, ..., `invoke_core`, whose templates pass the number of
  words, the object, the method and the space for variables in registers.  The null
  test, by fault or by comparison, is an effect (`nonnull`).
* `OperandStack.tla` is the abstract machine: what a bytecode means for one
  sequence of words, whatever is cached.
* `StackCache.tla` compiles and runs a block: `makePCTable` decomposes bytecodes
  into internal opcodes, `makeBlockStructure` marks heads and inserts
  `exc_check`, `peepholeOptimization` merges neighbours, `updateStates` assigns
  states in table order.  Then execution enters at the start, at a head or as an
  exception handler (`Enter`, `Catch`), and each `writeCode` step runs the template
  of one entry, followed by the conversion to the target's state where a jump
  leaves.  A block is a piece of a method: `linear` is the state in which
  `updateStates` arrives at it, `heads` are the bytecodes that jumps from elsewhere
  reach, `env` is what run time decides.  `MCStackCache.tla` has the blocks.

`Invocation.tla` models calls between methods.  One thread is followed; other threads
can only compile methods meanwhile (`OtherStarts`, `OtherFlags`, `OtherDone`).  `stk` is
its native stack, one record for each activation of compiled code, of a C function or
of the interpreter; `frames` are the frames of the Java VM with their `optop`, `mem` the
words of the Java stack, `regs` what a protocol passes in registers.  A method is
`invoker` and `compiled`, as the compilation protocol leaves them.

| action | code |
|---|---|
| `InvokeCore`, `InvokeCoreDone` | `INVOKE_CORE` of `code.c`: direct call, or `invocationHelper()` |
| `InlinedEnter`, `InlinedExit` | the templates around an inlined body |
| `CompiledReturn`, `CompiledThrow` | method tail, exception handler, monitor exit |
| `Helper*` | `invocationHelper()`: JNI, old-style native or Java method, frame, call, result |
| `Candi*` | `compileAndInvokeMethod()`: compile, then run as compiled or by the normal invoker |
| `JITEnter`, `JITDone` | `invokeJITCompiledMethod()` |
| `RemoteInvoke`, `RemoteDone` | `proxy_invoke()`: walk over the signature, boxing, result |
| `Interp*`, `Native*` | the interpreter and native methods, external |

`framePrev` and `Walk` are the stack walk.  Arguments are symbolic words that name the
call and the parameter they belong to, so that a word delivered to the wrong place is
visible.  `build` chooses between the interpreter in C and in assembly, and MetaVM.

`Signals.tla` models compiled code whose exceptions and first executions are
signals.  `code` is the code of each method with the bytes that are `int3`,
`throwtable` its table, `tramp` its trampoline, `cache` the inline caches of
`invokeinterface`, `cls` the classes, `dead` that a signal ended the process.  A
thread's `stk` holds frames of compiled methods, of the trampoline and of static
initialisers; `sig` is the signal it has been sent.

| action | code |
|---|---|
| `Trap`, `Use`, `Deref`, `DivLoad`, `Idivl`, `DivDone`, `ldiv`, `athrow`, `invoke_core`, `return` | templates: those that trap on `int3`, null, division or the end of the stack, and calls |
| `CacheKey`, `CacheHit`, `getInterfaceMethod`, `CacheWrite`, `Bound` | the inline cache of `invokeinterface` |
| `signalHandler` | the handler: `Located` searches native stack and throw table, `SignalSegv`, `SignalFpe`, `SignalTrapIntf` and `SignalTrapInit` are its branches |
| `TrampolinePush`, `once_InitClass`, `InitClass`, `InitClassOver`, `TrampolineReturn` | trampoline, `once_InitClass()`, and the class initialisation of the Java VM (external: one thread runs it, others wait) |
| `exceptionHandler` | `searchCatchFrame()`, and the exit from a frame without a handler |

Integers have `Bits` bits, so that the smallest one divided by -1 faults as on the
processor.

`RemoteCall.tla` models access to remote objects.  A client thread in a method of
`Proxy` is a record `thr[t]`; its steps end where it reads from the connection.
`link[c]` holds the requests and replies under way and the part of the client's
output buffer that is not sent.  `skel[c]` is the `Skeleton` of a connection with
the pool thread that runs it; its steps end where it reads, blocks, or works on
the object after it has replied (`Put` after `ServePut`, `Enter` after
`ServeEnter`, one element of a block after `ServeBlock`).  The 32-bit, 64-bit and
reference variants of an operation are one operation; the contents of an object
are `LEN` cells, so bounds, positions and lengths are kept.  Three variables are
history: `res` (outcomes), `last` (contents according to the operations that
returned) and `unsure` (cells an operation that failed may have written).
`Wants` is the discipline of the program: constant `Locks` says under which
monitor it uses a proxy.  `Programs` are the sets of operations and faults to try: a
behaviour picks one (`prog`) at the start, so that one run covers several mixes.

`SingleVM.tla` is the abstract specification: objects of a thread's own machine,
on which reads, writes, method calls and monitors take effect at once.  The
instance in `RemoteCall` maps the memory to `last` and a monitor's holder to the
thread whose `inside` names it: writes take effect when they return, the monitor
is left when the thread asks to.  `RemoteCallProofs.tla` has the theorems about
the conversation and the monitors, `RefinementProofs.tla` those about the contents
of objects and the refinement, `MCRemote.tla` the instances.

`InvocationProofs.tla` (calls on their way in, variables, monitors), `ResultProofs.tla`
(calls on their way back) and `SignalsProofs.tla` have the theorems about those two
modules; `StackLemmas.tla` what they need about sequences used as stacks.

Operators whose comment begins with "Mutant" are altered copies of the operator
that follows them.  They are not used by the specification; each shows that a
property would notice a plausible slip in the code.

## Runs

| run | instance | question |
|---|---|---|
| `compile_single` | 1 thread, 3 methods in a knot of calls, one may fail and is tried again, depth 7 | does recursive compilation terminate, never re-enter itself, leave complete code and one whole pass of throw entries behind (`ThrowTableComplete`), and pair its monitors on every path? |
| `compile_pair` | 2 threads, 2 mutually recursive methods that do not fail, a call each | can threads that compile from both ends block each other, be given different contexts, or lose the one they use (`NoEarlyRelease`)? |
| `stack_cache` | every modelled bytecode alone; pairs and triples that pass values on; 5 states at the start and at the target; all choices of heads | is the code of a block what its bytecodes mean (`BlockCorrect`), and may every head be entered from elsewhere (`HeadsAgree`)? |
| `pool` | 3 threads, 3 connections, limits 1 and 2 | does each connection get one thread, and is no `target` overwritten? |
| `v_wakeup` | 2 threads | is a filled `target` always run? (no) |
| `remote_locked` | 2 threads, a proxy each, 1 object of 2 cells, all operations | under its own monitor, is a remote object like a local one (`SingleVMSpec`)? |
| `remote_faults` | 1 thread; all operations over connections that cannot be made or break, with values that cannot be stored; data operations with leases that expire and are renewed | are replies paired, is the flag restored by every way out of `Proxy` (`FlagRestored`), does every call end, is what a Skeleton with an object acknowledged performed (`Landed`)? |
| `invocation` | 6 methods of all kinds (compiled, with long arguments, inlined, JNI, old native), 3 calls, 3 builds, one method compiled by another thread at any time | does each call run once (`RunsOnce`), with its arguments (`ArgsDelivered`), leave the caller's variables (`VariablesKept`), give its result (`ResultDelivered`), its monitor (`MonitorsBalanced`) and the operand stack (`OptopBalanced`) back, and does a stack walk see every frame (`WalkComplete`)? |
| `signals` | 2 threads, 9 methods, 6 classes, nested static initialisers | is every signal turned into the exception or the patch it stands for (`SignalsAnswered`), is a quotient right at the edges, is a class initialised before use, does a trap resume where it happened, is an exception looked up at its own bytecode (`ThrownHere`), does an interface call reach the receiver's method, and do the threads finish? |
| `v_monitor` | a method inlined into a synchronized one | does an exception in it leave the monitors balanced? (no) |
| `v_divide` | an inlined division | is its signal an exception? (no) |
| `v_init` | 2 threads at one site | is the class initialised before its use? (no) |

Bounds.  `MaxCalls` bounds the calls a thread makes, `MaxDepth` the nesting of C
calls; a thread that would exceed `MaxDepth` would be stuck, and deadlock checking
in the passing runs shows that no behaviour does.  Two threads suffice for each
conflict over one method or one context, because every monitor involves only its
holder and a waiter; four contexts are more than the runs allocate.

A pattern of the peephole optimizer spans at most three bytecodes, counting a
merge that feeds another, hence blocks of up to three; the only link between one
block and the next is the state, all five of which are tried at the start and at
the target of a jump.  `Depth` is four words for each bytecode, the most one takes.
Blocks with arrays, fields, monitors and allocation run with and without MetaVM, for
local and remote objects and, for `new` and its kin, with a null remote address or a
class passed by value (`near`), except for the entries known to fail (`Flawed`, see
"Findings").  Blocks end, hence no deadlock
check in these runs.

`RemoteCall` needs no bound on behaviours: connections and values are used again.
Two cells tell positions, lengths and partly written blocks apart; two threads and
two values make any stale or foreign result visible.  Values, connections and pool
threads are interchangeable, hence the symmetry in the safety runs.  The passing runs
leave out what "Findings" describes: sharing of proxies, locking by another
object, blocks that do not fit, and remote monitors where mutual exclusion is checked
over connections that break.  Writes that a Skeleton without an object acknowledges
are made in `remote_faults`; `unsure` records their cells and `Landed` excepts them.
`FlagRestored` excepts exceptions out of monitor operations and `finalize()`; a thread
whose flag is off is not followed further (`Call` needs it on), since the VM then
takes proxies for plain objects.  A stream that fails while a connection is set up is
a connection that is made and breaks at once.  A block store that meets a value the
array cannot have as an element is not modelled.

`Invocation`: `MaxCalls` three lets a call be nested in a call that follows another one,
which is what a stale register, an unbalanced `optop` or a frame left behind needs to
show; `MaxDepth` (native activations) and `StackWords` (words of the Java stack) are
more than three calls use, except where `StackWords` makes the overflow check fail: with 22
words it still does in some states, and operand stacks stay on the stack in all (`Roomy`).
The passing instance inlines only into a method that is not synchronized
(`v_monitor` is the other case).  `WalkComplete` does not speak of a method that is on the stack
twice, and `ArgsDelivered` not of a signature with an array of arrays before another parameter
(`Misparsed`): see "Findings".

`Signals`: `Length` four instructions hold a site, what follows it and a handler;
`Bits` two give the smallest integer, -1, 0 and 1; `LibFrames` is how many frames of a C
library function lie above compiled code when it traps; `MaxInsns` and `MaxFrames`
exceed what the programs execute.  In the passing instance no site is shared by two
threads that reach it unresolved, no division is inlined, class initialisation fails
only at `invokestatic`, and receivers implement their interface: the other cases are
under "Findings".

Fairness.  `FairSpec` of `Compilation` assumes weak fairness of each thread inside the compiler:
the C code has no loop that waits other than for a monitor, and the VM schedules
every runnable thread.  Nothing is assumed about threads calling the compiler.  `ThreadPool` and
`RemoteCall` assume that every runnable thread of both machines goes on; a thread that
waits for a connection or a monitor is not runnable.  Nothing makes a program call
again or leave a monitor, and `CallReturns` therefore excludes `monitorEnter()`.  `Signals` assumes only that
some thread that can go on does; a thread that waits for another's static
initialiser cannot.  `Invocation` states safety only.

## Findings

Each `v_*` run exhibits a behaviour of the code that contradicts a comment, the
change log or a document:

* `v_wakeup`: a pool thread misses the notification between its test of `target`
  and `wait()`.
* `v_monitor`: an exception in inlined code that nobody catches reaches `sync_obj_exit`
  with `%esi` on the variables of the inlined method; the monitor of another object is
  exited and that of the receiver is kept.
* `v_divide`: for a division by zero in an inlined method the handler reads the opcode of the
  call it was inlined for, which is no division, and the process ends.
* `v_init`: the `int3` of a site is removed before the initialiser has run; a second
  thread passes the site while the first runs it.

The same modules reach more, with other constants and the properties they define.
No run is kept for these:

* two threads, also without failures: both see that the method is not
  compiled (`compile.c:103`), and the second compilation replaces `CompiledCode` while
  `ACC_MACHINE_COMPILED` is set and adds a second pass of throw entries
  (`DirectCallSafe`, `ThrowTableComplete`); `initializeClassForJIT()` sees a method
  that is not compiled yet and sets its invoker back to `compileAndInvokeMethod` when
  it is (`compiler.c:826`);
* two threads and one method that may fail: a failing thread puts a context into the
  pool another has just taken from `info->cc` (`NoEarlyRelease`), and the test against
  self compilation then misses a method under compilation (`NoSelfCompilation`);
* two threads, one of which inlines what the other compiles: `inlineability` becomes
  `INLINE_MAY` (`compile.c:244`) before `info->pctable` is set (`compile.c:247`), and
  `methodInlining0()`, which reads both without the monitor (`optimize.c:443`), finds
  no table, against its assertion at `optimize.c:473` (`InlineSite` with `"bare"`);
* one thread and one method that fails in `writeCode()`: the throw entries stay in
  the table, and the next compilation appends to them, so that the starts do not
  increase any more, which the binary search needs.  `ThrowTableComplete` says what
  does hold: failed passes stand in front of the one whole pass, and only a method
  that may fail has any;
* two threads and one recursive method: late initialisation of a published `CodeInfo`
  clears `info->cc`, so one method gets two contexts (`OneContextPerMethod`;
  `ChangeLog:523`);
* remote arrays in the stack cache: a remote `lastore` leaves the array handle on the
  stack, and remote `faload` and `daload` merged with a following operation do not
  load the FPU (`BlockCorrect` without `HasFlaw`);
* inlined `Math.abs()` in the stack cache: in state 0 `abs_int` and `abs_float` copy
  the word and do not pop it (`code.c:5759`, `code.c:5811`), so that an extra word
  stays on the operand stack, and `abs_double` masks the low word in states 1 and 4
  (`code.c:5828`; `BlockCorrect` without `HasFlaw`);
* a method that is on the stack twice: `framePrev()` finds the wrong native frame, and a
  walk is cut off (`WalkComplete` without its exception; `ChangeLog:1230`);
* `proxy_invoke()` takes `[[X` for one dimension and its element for the next
  parameter (`proxy.c:574`), and leaves the words of the result on `optop`
  (`proxy.c:726`); `invokeJITCompiledMethod()` moves `optop` for a result also when the method
  threw (`invoker.c:479`);
* two threads at one `invokeinterface`: the key of the inline cache is written before
  the method (`runtime.c:1065`), so a hit may read no method, a signal outside the
  throw table (`SignalsAnswered`), or the method of another class (`DispatchRight`);
  the `int3` behind `getInterfaceMethod()` is gone after the first use, so a later
  failure is not noticed (`ChangeLog:1912`);
* class initialisation that fails at `getstatic`, `new` or an inlined entry: the trampoline
  stores no bytecode offset, so the handler is looked up with the offset of an earlier
  exception (`ThrownHere`);
* one thread over a connection that breaks: `monitorEnter()` and `monitorExit()` leave
  the remote flag off, and so does `finalize()` (`Proxy.java:502`), also for a proxy
  that was never connected, which has no stream to send CLOSE on (`FlagRestored`
  without its exceptions);
* a proxy whose REFERENCE failed keeps its socket, to a Skeleton without an object:
  PUT32FIELD and its kin are acknowledged before that is noticed, ARYSTORE32 and
  ARYSTORE64 reply success and write nothing, ARYLOAD32 and ARYLOAD64 reply 0
  (`Skeleton.java:647-854`; `Landed` without its exceptions, `SingleVMSpec`);
* ARYSTOREOBJ of a value the array cannot have as an element ends `run()` and the
  connection, where the program expects `ArrayStoreException` (`Unfit`);
* two threads that compile different methods pop `cc_pool` together; early returns
  of `compileMethod()` keep their reference, so contexts used for inlining are not
  collected, even by a single thread;
* two threads that share a proxy are both inside a remote monitor
  (`MonitorExclusion`) and take each other's replies (`ReplyMatches`); a field write is not
  performed when the monitor that protects it, another object's, is released
  (`SingleVMSpec`); elements of a block that does not fit are taken for requests (`InStep`); a pool
  thread takes a monitor of a broken connection to its next client
  (`MonitorExclusion`).

Read in the code while modelling, not reached by a module: `processAnOpcode()` omits
`instanceof java/lang/Object` (`compile.c:1727`), which leaves the reference where 1 or
0 belongs; the MetaVM branches of `checkcast` and `instanceof` call C functions
without saving the register of the handle (`code.c:5135`, `code.c:5285`);
`nonnull_quick` has no instruction that faults when `NULL_TEST` is empty
(`code.c:5613`); the `CALL_MONITOR` for JDK 1.1 calls `monitorEnter` for exits too
(`code.c:576`); `invoke_recursive` sets the direction flag and leaves it set
(`code.c:4627`).

## Proofs

Every theorem is about all values of the constants that its hypotheses admit; the
assumptions on constants are those the modules state.  In each module one inductive
invariant carries the theorems; TLC checked each of them on the instances of the
runs before it was proved.

| module | theorem | property | hypotheses |
|---|---|---|---|
| `CompilationProofs` | `TypeCorrectness`, `MonitorPairing`, `CompilationExcludes` | `TypeOK`, `LockDiscipline`, `BodyExclusion` | |
| | `SelfCompilationPrevented`, `ContextsUnshared`, `ReleasedUnused` | `NoSelfCompilation`, `OneContextPerMethod`, `NoEarlyRelease` | `Alone` |
| | `CodeIsOwn`, `DirectCallsReachCode`, `ThrowTableSound` | `OwnCode`, `DirectCallSafe`, `ThrowTableComplete` | `Alone` |
| | `SoloInvariance`, `CountsSound` | (invariant; counts of references) | `Alone` |
| `ThreadPoolProofs` | `PopsFreeThread`, `ConnectionExclusive`, `NoConnectionLost`, `StackBounded` | `StackedIsFree`, `OneWorkerPerJob`, `TargetKept`, `IdleBound` | |
| `RemoteCallProofs` | `ConversationInvariant`, `RepliesMatch` | (invariant), `ReplyMatches` | `Unshared` |
| | `StaysInStep` | `InStep` | `Unshared`, `StoresFit` |
| | `FlagComesBack` | `FlagRestored` | |
| | `MonitorsExclude` | `MonitorExclusion` | `Unshared`, `NoDrops` |
| `RefinementProofs` | `ContentsInvariant`, `WritesLand`, `RemoteLikeLocal` | (invariant), `Landed`, `SingleVMSpec` | `Unshared`, `StoresFit`, `Guarded`, `Reliable` |
| `SignalsProofs` | `MachineInvariance`, `DivisionsRight` | (invariant), `DivisionRight` | |
| | `BisectionRight`, `EntryFound` | (binary search, throw table) | |
| | `AlwaysAnswered`, `ResumesThere`, `DispatchesRight` | `SignalsAnswered`, `ResumesAtTrap`, `DispatchRight` | `Compiled`, `Unraced` |
| | `HandlersSoughtThere` | `ThrownHere` | `Compiled`, `Unraced`, `FailsAtCalls` |
| `InvocationProofs` | `StartInvariance`, `CallsRunOnce` | (invariant), `RunsOnce` | |
| | `Layouts`, `CLayout`, `BoxedLayout` | (layouts of arguments, for every signature) | |
| | `StacksInStep`, `WordsArrive`, `VariablesStay` | (invariant), `ArgsDelivered`, `VariablesKept` | |
| | `MonitorsPaired` | `MonitorsBalanced` | `PlainInlining`, `~Info[Root].sync` |
| `ResultProofs` | `ResultsArrive` | `ResultDelivered` | `[]Roomy` |

`CompilationProofs`.  The inductive invariant `IInv` has three parts:

* `StackOK`: activations are typed and carry what their `pc` needs (`Formed`): a
  method where there is one, a context that belongs to a method after
  `getCompilerContext()`, a callee between the two halves of a scan step, and a
  failure status only while releasing.  Only entry 0 of a stack is idle.
* `MethodOK`: types of everything else, and every `info->cc` is a context of a
  method.
* `MonitorOK`: `LockDiscipline`, i.e. a monitor is held by exactly the activations
  whose `pc` is between an enter and an exit, and by one thread.

`LockDiscipline` is not inductive without `Formed`: the release after a failure is
outside the monitor and the one after a success inside, which only the `ok` field
tells apart, and the exit at the end uses the method of the activation.  The lemmas
`SetStack`, `CallStack` and `ReturnStack` say what the three moves of a thread
preserve; `SetSame`, `SetEnter`, `SetExit`, `CallSame`, `ReturnSame` and
`ReturnExit` say what they do to the monitors; one lemma per action combines them.

Its second half is about contexts and code, which the compiler does not protect by a
monitor that all users take: `cc_pool`, `info->cc` and `mb->invoker` are read and
written outside the monitors that other functions hold, so with two threads the
properties fail ("Findings").  With one thread (`Alone`) they hold for any methods,
call graph, `MaxDepth` and pattern of failures, by the invariant `Solo`:

* `Nested`: each activation waits for the one above it at a `pc` that calls it
  (`Linked`), and a method under compilation is not compiled again above.  This is
  the test of `info->cc` against self compilation, made into an invariant: an
  activation in the body of `compileMethod()` holds a reference, so the context is
  not collected and its stage tells `methodInlining()` not to enter.
* `OwnContext`, `OwnMethod`: what an activation relies on from its test to its use:
  that `info->cc` is its context, with a reference and in a given stage, and that
  `mb->invoker` is still as it was when `compileMethod()` read it.
* `MethodState`, `CodeState`: what a context and the code of a method are when
  nobody is at work on them, `Midway` when somebody is: between the write of
  `inlineability` and the copy of the instructions, and from the copy into
  `mb->CompiledCode` to the last stage.  A method is `Compiled`, with one whole pass of
  throw entries, or `Uncompiled`: failed passes only, and nothing calls it directly.
* `cc_pool` is a list without a cycle of exactly the contexts that no method and no
  activation has (`Free`, `Pooled`).

`Nested` and `OwnContext` need each other: the count of a context stays positive
because its holders are distinct activations, and these are distinct methods because
the count was positive.  `CountsSound` says that no reference is released twice.
Failures are allowed anywhere.  What they cost is in the properties: `compileMethod()`
leaves a reference behind when it fails, and a second attempt at the method gets the
half-filled context and the throw entries of the first.  So `OwnCode` and
`DirectCallSafe` do not say whose code a method in `MayFail` has, only that it is
complete, and `ThrowTableComplete` allows it failed passes.  For methods that call
it or inline it nothing is weakened.  `Pooled` is the least
set of contexts that `cc_pool` leads to.

`ThreadPoolProofs`.  The invariant adds that the thread in the dispatcher's hand is
off the stack and free until its target is filled, and that only a connection in
progress is in a target.  `TargetKept` follows from the invariant step by step: the
only step that writes a non-null target is `FillTarget`, on a thread the invariant
says is free.  `IdleBound` holds because a worker looks at the size of the stack in
the section in which it pushes itself.

`RemoteCallProofs` proves that a proxy and its skeleton agree on what is on their
connection, for any programs, faults, threads, objects, and array length.  The
methods of `Proxy` are not synchronized, so a proxy must be used by one thread
(`Unshared`).  The invariant `Conversation` counts: the replies on the connection,
those the request under way will cause and those the skeleton still has to send
are together what the waiting thread will read (`Waited`); when nobody waits there
is none of either (`Unwaited`); and the elements in the buffer and on the wire
are those the skeleton's block store has yet to read, provided the blocks lie in
the array (`StoresFit`, else the server's loop stops early, see "Findings").  A
broken connection only loses replies, and nobody can open it again before its
proxy has forgotten it (`SockOK`).  `FlagComesBack` needs no
hypothesis: it is about single steps, of which only `Fail` leaves the flag off.

The monitors.  A remote monitor belongs to the pool thread that serves a connection,
and the client knows nothing of pool threads.  The invariant `Monitors` links them:
while a client thread has entered the monitor behind a proxy, from the reply to
MONITORENTER to the reply to MONITOREXIT (`Entered`), the pool thread at the other end
of the proxy's connection owns the monitor of its object exactly once (`Owned`), and
every monitor that is owned has been entered so (`MonOK`).  A pool thread serves one
connection and works on its proxy's object (`ServerOK`); the thread that has
entered makes no step that would end the connection (`UserOK`).  When `Enter` finds the monitor
its own, re-entrance would let a second client thread in: the invariant shows that
this does not happen, because `Conversation` tells who waits for the reply.  Both
hypotheses are needed: threads that share a proxy share its pool thread, and a
connection that is lost, or ended by a refused value (`NoDrops` excludes both), leaves the monitor to a pool thread that serves
another proxy next ("Findings").

`RefinementProofs` proves that a remote object is one of the thread's own machine:
every step of `RemoteCall` is a step of `SingleVM` or none, under the mapping above.
What makes it true is that a write is done before anyone can see that it is not.
The invariant `Contents` says for every cell that the object holds what the
operations that returned have written (`Held`, `Settled`), or that a write to it is
still to be done (`Eventual`): by the skeleton that has replied and not yet put
(`Owed`), or by elements of a block on the wire.  A reply to a read carries what the
cell holds (`ReadOK`, `Heard`), and only the thread whose write is owed may look at
the cell meanwhile: its next request waits behind the write on the same connection.
For every other thread this is a matter of the program, and hence the hypotheses:

* `Unshared`: a proxy is used by one thread, since its methods are not synchronized;
* `StoresFit`: blocks lie in the array, or their rest is read as requests;
* `Guarded`: a thread that uses one of several proxies of an object has entered the monitor
  behind that very proxy, so that the exit from it goes through the same connection
  as the writes it protects;
* `Reliable`: no connection is dropped and no value refused in `run()`; and where leases
  expire, no field is put and no single array element read or written, since a
  Skeleton without an object acknowledges the writes and answers 0 ("Findings").  After
  a drop, a pool thread of the old connection can still owe a write and do it after an
  operation on a new connection has written the cell: with two connections and two
  pool threads TLC finds it in 19 steps.  `remote_faults`, where `Landed` holds with
  drops, has one connection at a time.

The instance of `remote_locked` satisfies all four.  `Contents` was checked by TLC on four
instances, of 9 046 to 243 984 states.

`SignalsProofs`.  The invariant `Machine` says what stands on what on a native stack
(`Above`), that the registers of a division are right from load to use
(`Registers`), and that a pending signal belongs to the innermost frame and was raised in
a phase that can raise it (`SignalOK`).  The last part makes the others
inductive: the handler writes `%eax`, `%edx` and the `pc` of the frame it finds, and only a
frame in `idivl` may be found for a `SIGFPE`.  The assumptions are that
the smallest integer is negative (`IntAssumption`) and that the frames of a library
are numbered by naturals (`LibAssumption`).

Its second half is about what the handler does with a signal.  `BisectionRight` proves
the binary search of `throwtableGet()`, `EntryFound` that in the table `writeCode()` makes
it finds the entry of a template.  Both are inductions, made by hand: were the claim
false, there would be a least interval, or a least number of instructions, for which it is (`LeastNatural`).
The invariant `Steady` then says of every frame what its next instruction will
look for: the instructions of a call carry the method and the receiver that the ones before
left (`Carried`), `-4(%ebp)` holds the offset of the call (`FrameOK`), a trampoline,
or the operands written for it and not yet pushed, are those of the site below
(`TrampOK`); a signal is one that the instruction of the innermost frame raises
(`Raised`); the code is what was compiled but for `int3`s that are gone (`CodeOK`), the throw
table is that of the program (`TableOK`), and an inline cache that nobody is writing holds the method
of its key (`CacheOK`).  With `strict` the offset is current wherever an exception is on its way.
The hypotheses, all true of the instance of `signals`:

* `Compiled` says what code is: it follows from how `compile.c` makes it, and
  is limited to what the model has (static and interface calls, accesses, divisions, throws,
  inlined methods), to receivers that implement their interface and to divisions that are not inlined
  (`v_divide` is the other case).  `MCSignals` evaluates it as the assumption `MixedCompiled`;
* `Unraced`: no two threads are in the same method at a time.  Trampoline and inline cache
  belong to a method and a site, and nothing keeps a second thread from them: the handler
  overwrites the operands between the trap and the trampoline of another
  thread, and the key of a cache is written before its method;
* `FailsAtCalls`: a class whose initialiser fails is initialised for `invokestatic`, since the
  trampoline stores no offset ("Findings").

`throwtableGet()` looks at one entry behind the table when both bounds reach its end; what is
there is taken not to cover the address (`Bisection`).

`InvocationProofs`.  A call is made, and its method started, by different
activations with steps of another thread between them.  `Once` says that only the innermost
activation can have a method to start (`Pending`), and that its call has not
started one (`Fresh`).  The case that needs it is the helper that calls the invoker of
an interpreted method and then `pExecuteJava()` itself, by what it read before
(`inv`): it has a method to start behind the call exactly if the invoker started none.

Layouts of arguments are about signatures of any length.  The loops of the code are
recursive functions over the parameters; a layout that is joined from a group of words for each
parameter is `Joined`, of which `JoinedStep` and `JoinedAt` say where each word lies.
Native code wants the high word of a `long` first, the Java stack the low word; `Layouts`
says that the helper's loop turns this into the layout of the Java stack and
`invokeJITCompiledMethod()` turns it back.  Each is an induction made by hand over
the number of parameters, as for `BisectionRight`.

`Laid` says how the two stacks stand to each other.  `Arr`: each activation has a frame
under it, its own or that of its caller, and these frames never go down along the native stack;
operand stacks begin one above the other, variables lie below the operand stack
of their frame; the words an activation was given are those of its call.  `Spot`: what the innermost activation is about to read
is where it will look (the arguments at `optop` as long as the method has not begun, also behind a
compilation that ran Java code above them).  It is the second part that other
activations rely on when they become innermost, so each way to return is a case.

The monitors held are the concatenation of one group for each activation, which is empty or
the object of a synchronized method (`Bal`, `Grips`).  A monitor is exited with the object that is found
in the variables, so the proof needs `Laid`; and with `%esi`, which is on the
variables of an inlined method if one is active: `PlainInlining` says that no
synchronized instance method has an inlined call, and `v_monitor` is the run in which one has.

`ResultProofs`.  `Flags`: an exception is pending exactly when the call that is coming back has
failed, in each of the conventions that say so (`ok` of an invoker, `exc` in compiled code).  `Enrolled`, `Came`: an
activation that began, and a call that came back without an exception, are in `entered`.  `Answer`: where the
result is at each stage of its way back, in registers, on the operand stack of
the current frame, or of the one below it while the callee's frame is
still there.  A result is written at `optop`; `Roomy` says that `optop` leaves a word on
the Java stack, which is what the code's check of `maxstack` (`EXPAND_JAVASTACK`,
`compiler.h:865`, `compiler.h:939`) is for: the model does not count operands of a method and has no
`maxstack`.  TLC finds `Roomy` true in every state of `invocation`.

What stays model-checked, and why:

* liveness (`Terminates`, `CallReturns`, `Finishes`): fairness and `ENABLED` are out of
  the prover's reach;
* `BlockCorrect` and `HeadsAgree` of `StackCache`, `WalkComplete` of
  `Invocation`: what templates and walks compute is defined by folds over sequences of
  instructions or frames, and what a fold computes for every input is an induction over data;
* `OptopBalanced` of `Invocation`: its bound is a sum over the compiled methods;
* `InitBeforeUse` of `Signals`: limited even for a single thread, since a site whose
  initialisation failed is not patched back and passes the next time.

## Plan

1. Tail recursion, the MetaVM branches of casts and strictfp opcodes in the stack
   cache.
2. Native offsets and the shortening of jumps.
3. MetaVM: creation of remote objects and identifiers that are used again, class
   distribution, access rules.
4. Theorems: state transitions of the stack cache for every stack.

## Not modelled

The SSE2 build, strictfp opcodes, tail recursion, the MetaVM branches of `checkcast`
and `instanceof`, `nonnull_quick`, class initialisation by `invokeignored_static` and, in the stack cache, by the other
bytecodes that cause it (`Signals` has them), the exceptions of an allocation that
fails, the fix-up of NaN and overflow in conversions (part of the
conversion's term), values of constants, the x86 encoding of instructions, option
parsing, symbol lookup, profiling and debugging output, the code database (not in
the default build), and the build scripts.  Around signals: resolution of the
class of a catch clause inside `searchCatchFrame()` (a set of superclasses here),
`examineSigcontextNestCount()`, the build that patches without SIGTRAP, and the MetaVM
branch of `getInterfaceMethod()`.  `makeBlockStructure` has a branch for
`jsr` after one that already covers it; the instruction after a `jsr` is therefore
no head, which is harmless because `updateStates` gives it state 0 and no pattern
begins with a `jsr`.
