# Verification of the Unicon run-time system

Unicon is a very high level language whose programs run on an interpreter written in C
(`src/unicon/src/runtime`, files `*.r` and `*.ri` that `rtt` turns into C). Since threads were added,
co-expressions may run concurrently on one garbage-collected heap. The protocols that make this
safe, stopping the world, message queues and per-thread heaps, are the least testable part of the
system and the part this development models first. Next come the three mechanisms that every program
depends on: goal-directed evaluation, followed from the parse tree through the translator and the
linker to the stack machine; the compacting garbage collector; and the hash structure of sets and
tables, with generations that are suspended while it changes. TLC checks the modules on small
instances; TLAPS proves the theorems of the `*Proofs` modules for every value of the constants.

Paths below are relative to `src/unicon/src/runtime` unless they say otherwise. `PROJECT.json`
holds the exact correspondence, definition by definition, and the runs, mutants and hazards.

## 1. The system

### Components, state and operations

| Component | State | Operations | Modelled |
|---|---|---|---|
| Thread control: `rcoexpr.r` `thread_control()`, `h/rmacros.h` 1402-1560, poll in `interp.r`, `spawn()` in `fmisc.r`, `c_exit()` in `init.r` | `NARthreads`, `thread_call`, `tc_queue`, `action_in_progress`, `master_thread`, semaphore `sem_tc`, mutexes, `cond_tc` | `SUSPEND_THREADS`, `RESUME_THREADS`, answer a call, kill all threads, leave and enter the count, controlled lock, spawn, end | `ThreadControl` |
| Message queues: `lmisc.r` `snd`, `sndbk`, `rcv`, `rcvbk` | list, its mutex, `cvfull`, `cvempty`, counters `full` and `empty`, limit `max` | the operators `@>`, `@>>`, `<@`, `<<@`, set the limit | `MessageQueue` |
| Heaps of threads, public chain: `ralc.r` `swap2publicheap`, `findgap`, `reserve`; `rcoexpr.r` `reuse_region`, `init_threadheap`, `coclean` | `public_blockregion`, `Tnext`, `Tprev`, `curtblock` per thread | take, give, exchange and grow a region, scan the public regions | `PublicHeap` |
| Heaps of threads, region chains: `rcoexpr.r` `init_threadheap`, `ralc.r` `reserve`, search in `rmemmgt.r` `markblock` | `next`, `prev`, `Gnext`, `Gprev` of every region, `curblock` | link a region in, move `curblock` | `RegionChain` |
| Garbage collector: `rmemmgt.r` `collect`, `markblock`, `markptr`, `postqual`, `reclaim`, `scollect`, `adjust`, `compact` | titles and back chains, `quallist`, `qualfail`, `blkfree`, `strfree`, regions | mark, collect strings, adjust, compact, unmark, free co-expressions | `Collector`; co-expressions in `CoexprReclaim` |
| Co-expressions: `rcoexpr.r` `co_chng`, `rmisc.r` `pushact`/`popact`, `lmisc.r` `activate` | activator stacks, `tstate` of each, `K_current`, semaphores | create, activate, return, fail, refresh | `CoexprReclaim`, without refresh and the semaphores |
| Mutex and condition variable tables: `fmisc.r` | `mutexes`, `condvars`, their sizes | `mutex()`, `condvar()`, growth | planned |
| Lists: `rstruct.r`, `fstruct.r` | chain of circular element blocks | put, push, get, pull, subscript | planned |
| Sets and tables: `rstruct.r` `memb`, `hgfirst`, `hgnext`, `hgrow`, `hshrink`, `cphash`; `fstruct.r`, `oset.r`, `oref.r` | segmented hash chains, `size`, `mask`; `struct hgstate` of a generation | insert, delete, lookup, grow, shrink, copy, difference, union, intersection, generate | `HashTable` |
| Interpreter: `interp.r`, `invoke.r`, `imisc.r` (scanning), `omisc.r` (`to`, `to by`) | stack of expression, procedure and generator frames, `ilevel`, `&subject` | bound, suspend, resume, limit, scan, call, return | `ExprFrames`; the poll in `ThreadControl` |
| Translator and linker: `icont/tcode.c`, `icont/lcode.c` | loop and case stacks; code buffer, `labels` | generate ucode for a tree; assemble icode, patch references | `TreeCode`, `LinkCode` |
| Conversions, arithmetic, strings, scanning, assignment | data | sequential functions | no |
| Files, sockets, messaging, database, graphics, audio, monitoring | devices | I/O | no |
| Start and end: `init.r`, `imain.r` | | | concurrent part |
| rest of `icont`, `iconc`, `rtt`, preprocessor, `uni/`, `ipl/`, vendored libraries | | batch tools and libraries | no |

### How the parts interact

* Every interpreter thread allocates from its own block region and string region. When a region is
  full, `reserve()` first exchanges it for a public region (`findgap`), then stops all other threads
  and collects, then scans the public regions, and at last asks the system for a new region.
* Stopping is cooperative. The collector calls `SUSPEND_THREADS()`, which sets `thread_call` and
  waits until `NARthreads` is zero. A thread polls `thread_call` before each opcode. A thread that
  is going to block (I/O, a busy mutex, a condition variable) takes itself out of the count before,
  and comes back through `INC_NARTHREADS_CONTROLLED`, which needs `MTX_THREADCONTROL`, the mutex the
  thread in control holds.
* The message operators lock the list with a controlled lock and wait outside the count, so they
  meet thread control at `DEC_NARTHREADS` and `INC_NARTHREADS_CONTROLLED`.
* New threads take a region out of the public chain or link a new one into the chains of the
  program; ending threads give theirs back. The collector finds the region of a block by walking
  the chains from `curblock`.
* `icont` translates a procedure to ucode and the linker assembles the ucode of all procedures to one
  icode image with relative addresses. The interpreter trusts it completely: which frame a `mark`
  opens and an `unmark` closes is decided in `tcode.c` alone.
* An operation that suspends is either icode (`Op_Esusp`, `Op_Lsusp`, `Op_Psusp`) or a C function that calls
  `interp()` again, so the C stack and the interpreter stack grow and unwind together.
* A generation of the elements of a set is such a C function. While it is suspended, the program may
  insert and delete elements of the same set.
* Any allocation may collect. The collector moves blocks and strings and rewrites every descriptor and
  pointer that the program can reach; the program must not notice.

### What is hard, and what makes each part correct

* Thread control: threads block, come back, are created, end, and ask for control at the same
  time. Correct means: a thread in control is alone; the counters that decide it are exact on
  every path; a request is granted; nobody sleeps through the end of a call; the program can exit.
* Message queues: a look at the size without the mutex, signals sent after the unlock and only if a
  counter read without the mutex is not zero, and three kinds of waits. Correct means: the queue is
  a bounded first-in first-out channel, and no thread waits for good beside what it waits for.
* Public chain: insertion, removal and exchange at any place in a doubly linked list, and a moment in
  `reserve()` in which the published region is still named by `curtblock`. Correct means: the chain is
  sound, and a region has one owner.
* Region chains: two chains updated in eight assignments that each read a shared variable. Correct
  means: every region in use can be found from any other, or the collector will not mark its blocks.
* Co-expressions: activations nest in any order, also of a co-expression by itself or of `&main`; who waits for
  whom is kept in activator stacks with counts; status flags move from one co-expression to the next;
  and the collector decides what is a root by such a flag. Correct means: a return finds the way
  back, nothing that runs or waits is freed, and a value of a thread arrives in its outbox.
* Goal-directed evaluation: results are produced on demand by frames that copy parts of the stack,
  are resumed in any nesting and dropped by bounding, limitation, `break`, `next` and `return`. Correct means:
  a program writes what its expressions mean, the two stacks always fit each other, and a loop leaves
  nothing behind.
* Linker: references to labels that are not yet placed are chained through the operand words. Correct means:
  every reference gets the address of its own label.
* Sets and tables: chains are split and merged while a generation is suspended in one of them. Correct means:
  what was there all the time is generated exactly once, and every element is found.
* Collector: while it marks, the heap is not the program's heap: titles hold chains, locations hold the
  rests of them. Strings, blocks of other regions and blocks that move are treated in a fixed order.
  Correct means: the program sees the same values, and what it cannot reach is freed.

The list `hazards` of `PROJECT.json` names 40 such places, with the property that watches each or
the reason why none does yet.

## 2. Modules

| Module | What it is |
|---|---|
| `ThreadControl` | the stop-the-world protocol, one action per atomic step of the C code |
| `ThreadControlProofs` | inductive invariant and safety theorems about it |
| `BoundedChannel` | abstract: what a message queue promises |
| `MessageQueue` | the four message operators on one list; refines `BoundedChannel` |
| `MessageQueueProofs` | counters, absence of a stand-off, and the refinement, proved |
| `RegionPool` | abstract: a pool of regions with at most one owner each |
| `PublicHeap` | the public chain and `reserve()`; refines `RegionPool` |
| `PublicHeapProofs` | the chain, the owners of regions, and the refinement, proved |
| `RegionChain` | the program's and the global chain of regions |
| `RegionChainProofs` | completeness of both chains, proved |
| `CoexprReclaim` | co-expressions, activator stacks, spawned threads, and which of them a collection frees |
| `CoexprReclaimProofs` | activator stacks, reclaiming and the fate of threads, proved |
| `TreeCode` | `traverse()`: ucode for a parse tree, as operators |
| `LinkCode` | the linker, one ucode line or one link of a chain per step |
| `LinkCodeProofs` | every reference is patched with the address of its own label, proved |
| `ExprFrames` | the stack machine of `interp()`; extends `LinkCode`, whose code it runs |
| `ResultStream` | abstract: what an expression means, as a stream of results and writes |
| `Evaluation` | the composition of the four: translate, link, run, compare |
| `SetIteration` | abstract: what a generation of elements promises |
| `HashTable` | the segmented hash structure and a suspended generation; refines `SetIteration` |
| `HashTableProofs` | sorted and complete chains, exact size and lookup through every operation, and that a suspended generation keeps its promise, proved |
| `Collector` | a program with variables and blocks, and `collect()` |
| `CollectorProofs` | the heap stays sound, garbage goes and the program sees no difference, proved |
| `MC*` | model values, sets and the programs of an instance for TLC; nothing else |

Definitions whose comment begins with "Mutant" are plausible errors. No specification uses them:
each is put in the place of the definition after it to see that a property notices.

### ThreadControl

`pc[t]` says where thread `t` is in the C code. `CountedLabels` are the places at which the thread is
in `NARthreads`; they are the places where it may touch the heap. At `ControlLabels` it is in control
and holds `MTX_NARTHREADS`.

* Accounting: `DecNARthreads`, `IoReturn`, `IncLockTC`, `IncNARthreads` are `DEC_NARTHREADS`, the return of
  the blocking call and the two locks of `INC_NARTHREADS_CONTROLLED`. `LockControlled`, `LockDec`,
  `LockBlock` are `MUTEX_LOCKID_CONTROLLED`: trylock, and on `EBUSY` leave the count, lock, come back.
* Answer: `AnswerCall` is the poll with `thread_call` set. `TestThreadCall`, `CondWait`, `CondReturn` take
  `CV_WAIT_ON_EXPR` apart: the test and the wait are two steps with `MTX_COND_TC` held, and `cond_tc` can be
  broadcast between them because the broadcast does not take that mutex.
* Stop: `StopRequest`, `StopSemWait`, `StopPassCond`, `StopLockTC`, `StopControl` follow `TC_STOPALLTHREADS` line
  by line. `StopRequest` of the master thread returns at once, as the code does. `ErrorExit` is a run-time
  error raised while in control. `CleanLive` is the one way in which a thread in control blocks: the collection it makes frees
  a co-expression whose thread is alive, and `coclean()` locks `MTX_NARTHREADS` again. Whether a collection meets one is for
  `CoexprReclaim` to say; here it is the constant `FreesLive`.
* Wakeup: `HandOver`, `HandOverPost`, `HandOverInc` when `tc_queue` is not zero; `WakeupCall`, `WakeupPost`,
  `WakeupMaster`, `WakeupBroadcast` otherwise. `master_thread` is reset after the mutexes are unlocked, as in
  the code, so it is a step.
* Lifecycle: `Spawn`, `SpawnPost`, `SpawnInc` (the child runs before it is counted), `InitHeap`, `InitLinked`,
  `GrowHeap`, `GrowLock`, `GrowLinked` for the plain heap lock of `reserve()`, `ThreadEnd` to `CleanDec` for `coclean()`,
  `KillRequest` to `KillDone` for `TC_KILLALLTHREADS`.

A critical section under `MTX_NARTHREADS` that only changes `NARthreads` and `tc_queue` is one step, enabled
while the mutex is free. This is sound: the section reads and writes nothing else. Left out: the timing
of collections, the decision in the poll whether to call `reserve()` (it is `StopRequest`), threads of
loaded programs, and the controlled locks of the public heap in `findgap()` and `reserve()`, which are held for a few
assignments and never across a wait for control (`CleanLock` shows what such a lock does).

### MessageQueue

A thread is a sender or a receiver (or both, if the sets overlap). What it does with the list mutex
locked is one step; the look at the size before the lock (`SndPeek`, `RcvPeek`) and the signal after the
unlock (`SendSignal`, `ReceiveSignal`) are steps. A wait is a label; a signal moves one waiter to the
label behind its wait, where it still has to get the mutex. `SpuriousWakeup` also stands for the
signals that `coclean()` of an ending thread sends to its boxes. `SetMax` is the "set" form of `x<@y`,
which takes no mutex. The socket form of the operators is not modelled.

### PublicHeap and RegionChain

`PublicHeap` keeps `public_blockregion`, `Tnext` and `Tprev` as the code does, so that `SwapPublic`,
`PutPublic` and `TakePublic` are the pointer assignments of `swap2publicheap()` and `reuse_region()`. How much
room a region has after allocation or collection is left open (a choice); sizes and the goal of a
scan are kept, since `reserve()` compares them. `Grow` is two steps: between them the private region is
public and the new one not yet private.

`RegionChain` keeps the other two chains. Linking a region in is four assignments per chain, each a
step, because each reads the shared `curblock` again. The public chain is a set here. Splitting the
two modules keeps each state space small; they share only who owns which region, which `PublicHeap`
shows to be well defined.

### CoexprReclaim

The module looks at native context switches, where an OS thread leaves one co-expression and takes up
another. `cur[t]` is `curtstate->c` of the thread state made for the thread `t`; it names what the thread runs. `act` is
`es_actstk` with a count written out as equal neighbours. `thread`, `async` and `alive` are the status bits
`Ts_Thread` and `Ts_Async` and the field `alive`. Whatever makes one co-expression reachable from another (variables on its
stack, the copies in its refresh block, values in its boxes) is one set, `refs`.

* `Create`, `Forget`, `Message` are what running code does to references: `Ocreate()`, an assignment, a value put into
  an inbox or taken from an outbox.
* `Activate` is `activate()` and the switch of `co_chng()`, one step, since no other thread may run either
  co-expression; `Push` and `Switch` are its parts. The route through the boxes is `Message`. `Return` is `Op_Coret`
  or `Op_Cofail`: `popact()` and the same switch.
* `Spawn` and `ThreadEnd` are `spawn()` and the branches of `co_chng()` that deliver the last value and call `coclean()`.
* `Collect` is a whole collection: `Roots` and `Points` are what `collect()`, `markthreads()` and `markblock()` follow,
  `Marked` their closure; then `cofree()` frees the rest in the order of `stklist`, up to a
  co-expression whose thread is alive: that one is off the list, `coclean()` blocks on the mutex the collector holds, and nothing
  runs any more. `Without` is what is left of `stklist`. One step, because all other threads are stopped, which
  is what `ThreadControl` shows.

`Activators` says which threads activate co-expressions. It is `&main` alone in the passing run, and the
violated run shows why. Two threads that activate one co-expression at the same time are left out
(hazard `rcoexpr.r:350`), as is `spawn()` of a co-expression in use (hazard `fmisc.r:2933`).

### TreeCode, LinkCode, ExprFrames, ResultStream and Evaluation

`TreeCode` has one operator per kind of node, `GenAlt` for `N_Alt` and so on; `Traverse` is the switch. The
loop stack and the case stack of `tcode.c` are an argument that the operators pass down; the counter
`markcount` of the innermost loop is its field `marks`. A label is named by the node that allocates it.

`LinkCode` reads a line per step. `codeb` is the code buffer in cells: an opcode and an operand word are a
cell each. `Lemitl` puts a reference to an unplaced label at the front of its chain, and `StartBackpatch`,
`Backpatch`, `EndBackpatch` walk it. `WellFormed` says what the linker relies on: the forms of lines, and that in each
procedure a label is placed once, after the declarations, if it is referred to. `Codegen` of `TreeCode` and the reader of `LinkCode` meet at the ucode file,
which is a sequence here.

`ExprFrames` has one action per instruction, or per group that differs only in the operand, and one per label
that `interp()` jumps to (`at` names the label). `stack` holds descriptors and markers, one cell each; `efp`, `gfp`,
`pfp`, `argp` are indices. `cstack` is what the C stack holds: one record per C generator that has called
`interp()`, so that `ilevel` is its length plus one. `Unwind` is one return of `interp()` with an unwinding signal,
with the cleaning up that the C function above it does (`ScanCleanup` for `?`); it is repeated until the level
of the frame is reached. Leaving a frame sets `gfp` first and unwinds then, in two steps, as in the code.
Variables are references to cells of the stack: a parameter, or the `&subject` that a scan saved. `Deref` follows
one, as the operators do; a result that is a variable is passed on as such, until `Retderef` makes a value of it
where a procedure is left or suspended. `Invoke` is `invoke()` for a procedure, with the adjustment of the argument
list (`NParam`: `main` has no parameter, any other procedure one), `Write` for the only function, and `Select` for
a number, which selects one of the arguments without dereferencing it. `Toby` and `TobyAgain` are the generator `i to j by k`,
whose counter has the width of a C integer (`WordBits`, large enough in the run that it never wraps; section 6 says
what happens when it does). Values are numbers and null is 0; programs in which an operation would notice are left out
(`Typed` in `MCEvaluation`). `&pos`, assignment, local and global variables are left out. `Op_Mark` and `Op_Goto` replace their relative operand by an address the first time
they run (`APatch`); the model uses the relative operand each time, which leads to the same address. The
instructions that patch themselves for a purpose, `Op_Create` and `Op_Init`, are not modelled.

`ResultStream` is the reference. It follows the language, not the machine: a stream is a sequence of
results and writes and an end that says fail, break, next or return; generators are concatenation and
substitution of streams. It is written from the meaning of each structure, so that an error in `tcode.c`, in
`lcode.c` and in `interp.r` shows alike in `WritesRight`. Loops without end are cut after `Rounds` rounds; for them
the comparison covers what was written up to there.

`Evaluation` starts with each program of the constant `Programs`, links it, runs it.

### SetIteration and HashTable

`ps` is the structure: `hdir` maps segments and slots to the first block of a chain, `clink` is the link field of every
block. `memb`, `addmem`, `hgrow`, `hshrink`, `cphash`, `hmake` are operators on such a record with the names of the
C functions. `state` is `struct hgstate`, `ep` the element the generation stands at; `Start` and `Resume` are
`hgfirst()` and `hgnext()` as the generator `!S` calls them. `Insert` and `Delete` are `insert()` and `delete()`, with the growth that
follows an insertion, and run between two calls of `hgnext()`. `Copy`, `Difference`, `Union` and `Intersection` replace the structure;
a generation of the old one would go on in it undisturbed, so they are enabled only without one. A
deleted block that the generation still holds keeps its link, as the C code relies on. The hash function is
a constant: what matters is which keys collide and which bits make them part.

`From` walks the links. The loops of the C code that move a chain's blocks to two chains (`hgrow`) or merge two
(`hshrink`) are one step here; what they leave is written link by link: after a split the next block of a block is
the first of the rest of its chain that moves where it moves (`FirstIn`), after a merge it is the `Sooner` of the two
blocks the merge has come to. `Directory` says which slots a mask has, `Collect` is the loop of the set operators
that looks up and adds the elements of one operand one by one.

`members`, `owed` and `done` are history variables. `SetIteration` says over them what the comment before `hgnext()`
promises, and the refinement maps `ep` to its key.

### Collector

`mem` is a map from addresses and roots to words; a block is a title, contents and fields. The actions of
the program allocate (`New`, `NewString`), take a substring, assign, read and write fields, and make another
region the current one. `Collect` is the whole of `collect()`, one step because nothing else runs: `Mark` threads
the locations into back chains in the order of `markblock()` and `markptr()`; `scollect` sorts the qualifiers with `qlcmp`
and moves clumps of text; `adjust` unchains; `compact` moves; `Unmark` turns off the marks of blocks in other
regions. `postqual` may find the list of qualifiers full; whether it can be made longer is a choice (`ok`) as
it depends on the system.

The loops of the C code are recursive functions from the number of rounds to the state of the loop (`marking`, `moved`, `link`,
`walk`), with as many rounds as they can need at most; a round after the end changes nothing.

Words that the program cannot reach are null in the model. Only the current region is compacted, as in the code;
which one that is changes with `UseRegion`. `last` says whether the last step was a collection, and whether it
could list all qualifiers.

## 3. Runs

| Run | Instance | What it shows |
|---|---|---|
| `ThreadControlSafety` | 3 threads, heaps grow, spurious wakeups, no `exit()` | `IInv`, `Exclusive`, `NARthreadsExact`, `QueueExact`, `MasterExact` |
| `ThreadControlLive` | 3 threads, main calls `exit()`, heaps do not grow, no live thread is collected | `ControlGranted`, `BlockedResume`, `ExitCompletes` under `Fairness` |
| `ThreadControlHeapDeadlock` | 3 threads, heaps grow | violated: `ControlGranted` |
| `MessageQueue` | 2 senders with a value each, 2 receivers, limit 3 lowered to 1 | `QueueInv`, `NoStandoff`, `ImplementsChannel`, `ReceiverServed`, `DrainedServes` |
| `PublicHeapChain` | 3 threads, 4 regions of 3 sizes | `ChainInv`, `OneOwner`, `ImplementsPool` |
| `RegionChainQuiet` | 3 threads, 5 regions, `curblock` stays while a region is linked in | `ChainInv` |
| `RegionChainReused` | 3 threads, 5 regions | violated: `ChainsComplete` |
| `CoexprReclaimMain` | `&main` and 2 co-expressions, stacks of 3, `&main` activates | `ReclaimInv`, `ActivatorReady`, `NoDangling`, `ThreadsKept` |
| `CoexprReclaimThreads` | the same with stacks of 2, all threads activate | violated: `ThreadsKept` |
| `Evaluation` | all programs of a grammar: 2 nested structures around a leaf, or a call of a procedure with 2; calls with any number of arguments of procedures that use their parameter | `WritesRight`, `GeneratorsMatch`, `FramesSound`, `NoLeak`, `LinkedRight`, `Finishes`; and by the assumption `UcodeWellFormed` that the translator's ucode is `WellFormed` |
| `HashTable` | 5 keys, 3 segments, growth at load 1 | `ChainsSound`, `ImplementsIteration` |
| `Collector` | 2 variables, 2 regions, 3 characters | `HeapSound`, `GarbageFreed`, `Unnoticed` |

### What the violated runs show

1. **A plain lock in `reserve()`** (`ralc.r:1302`). A counted thread waits for `MTX_BLKHEAP`, whose owner, a new
   thread, waits for `MTX_THREADCONTROL`, whose owner waits for the first thread to leave the count.
2. **`curblock` moved without `MTX_BLKHEAP`** (`rcoexpr.r:1355`). A thread that reuses a region assigns it
   while another links a region in: a region is lost from the chains.
3. **A thread that activates is no root** (`rmemmgt.r:759`). `markthreads()` marks a thread state if its current
   co-expression has `Ts_Thread`. A spawned thread that activated a co-expression runs one without. If the program
   keeps no reference to the thread, as in `thread f()`, the next collection frees the co-expression it runs, and
   `coclean()` of the spawned one, whose `alive` is still 1, locks `MTX_NARTHREADS`, which the collecting thread holds:
   everything stops for good (`CleanLive` of `ThreadControl`).

The passing runs say where these do not matter: control is exclusive in spite of 1 and 3, requests are
granted when heaps do not grow and no live thread is collected, the chains are complete however many threads start as long as
nobody moves `curblock` while a region is linked in, threads and what they run are kept while only the main thread activates. More disagreements are in section 6.

### Bounds, and why they are enough

* Three threads: one in control, one asking for control, one coming back or ending. The roles a
  step distinguishes are these.
* The proofs of section 4 remove the bounds for the safety properties of thread control, message queues, the heaps,
  co-expressions, the linker, sets and tables, and the collector.
* One mutex `USER` stands for all mutexes of the program: two of them could only deadlock by the
  program's own order of locks.
* `MessageQueue`: a limit of 3 is the least for which the low-water mark `max/50+1`, 1 here, leaves room above it, so that
  a receiver may take a value without a signal while a sender waits; lowering the limit to 1 makes the queue over-full. The
  limit is only lowered: `SetMax` signals nobody, so a sender may wait on beside the room that raising it makes. `Sends`
  gives each sender a value of its own, which tells order and duplication apart. `SenderServed`, that a
  sender is served whenever there is room, is no property of the run: TLC refutes it from a limit of 3, see section 6.
* `PublicHeap`: four regions, three owned and one public, give the head, the middle and the end of the
  chain; sizes 4, 2, 2, 1 make both tests of the scan succeed and fail.
* `RegionChain`: five regions, so that a chain has two regions on both sides of `curblock`.
* `RegionChainQuiet` is the instance of `RegionChainReused` with `QuietSpec`: three threads start at any time, but no step moves
  `curblock` while `MTX_BLKHEAP` is held (`CurblockStill`). `Reuse` is the only action this restrains.
* `CoexprReclaim`: three co-expressions make a cycle of activations (`&main`, a, b, `&main`), self-activation, and
  a collection by one thread while another runs and a third co-expression is garbage. Stacks of three hold
  an activator twice in a row and another one. Names of freed co-expressions are used again.
* `Evaluation`: every pair of control structures, each in every place of the other, with a leaf that fails, has
  two results, writes, breaks or continues; and every structure around a call of a procedure whose body is
  a `suspend`, `return` or scan around each structure. An error of the code generator is an error about one
  structure in another, which two levels show. A third family has calls with too many and too few arguments,
  nested calls and recursion, of procedures that suspend or return their parameter as it is, after counting up or
  down with it, scanning it, selecting by it or among it: a parameter is then passed on from every kind of frame. `MaxWrites` = 8 is more than a finite program of the grammar
  writes before it repeats itself; `Rounds` = 3 goes round a loop twice after the first time; `MaxStack` = 60 is
  more than any of the programs needs, less than a leak of a cell per round would reach.
* `HashTable`: `HSlots` = 2 and three segments give two splits (the code has 16 slots and 18 segments, `h/cpuconf.h:169`); five keys
  with fixed hash numbers, of which two are equal, two leave together at one split and one more at the
  other. `MaxHLoad` and `MinHLoad` are both 1, where `h/cpuconf.h:181` has 1 and 5 and advises at least twice `MinHLoad` for
  `MaxHLoad`: so three elements make the structure grow, five make it grow again, and a copy of a sparse one
  shrinks and may at once be crowded, which is the harder case. `Copies` = 2: a key deleted and inserted again while its old block is held. `MaxUnion` = 2 bounds the operand.
* `Collector`: a node and a leaf in either order in the first region, so that a block moves by less than its
  own size; cycles, shared blocks and references from the other region; three characters leave a gap between
  two strings. `QualSize` = 2 makes the list full with three strings. `IntMax` = 3, the largest `int`, holds
  the differences of the string region (section 6 for 1).

### Deadlock and fairness

`CHECK_DEADLOCK FALSE` is said in `ThreadControlSafety` and `ThreadControlHeapDeadlock`, because the deadlock of
finding 1 is part of the code, and in `Evaluation`, where a program ends at `Op_Quit`. All other runs check deadlock.

`Fairness` of `ThreadControl`: weak fairness of the steps a thread takes by itself; strong fairness of the
acquisition of `MTX_THREADCONTROL`, `MTX_COND_TC` and `MTX_BLKHEAP`, which are freed again and again
while others compete (without it any mutex may starve anyone, on any code); strong fairness of
the poll, since an interpreter that executes opcodes polls. Nothing is assumed of what the program asks
for: I/O need not return, requests need not come, a mutex of the program need not be unlocked. `ThreadControlLive` has
`GrowsHeap` and `FreesLive` false, because findings 1 and 3 stop everything whatever the scheduler does.
`FairSpec` of `MessageQueue` is weak fairness of the steps inside an operator. The mutex is held for one
step there, so weak fairness of the step that takes it is what the scheduler gives. `Spec` of `Evaluation` has
weak fairness of `Next`: one sequential machine that takes a step whenever it can. `HashTable` and `Collector` assume none.

## 4. Proofs

`ThreadControlProofs`, for any finite set of threads, with or without growth, collections of live
threads, exiters and spurious wakeups (assumption `ThreadsAssumption`):

* `Inductive`: `Spec => []IInv`. `Exclusive` is not inductive: that nobody is counted while a thread is in control
  depends on `NARthreads` being exact (`NARthreadsExact`), on who may change it (`MutexInv`: the thread in control
  holds `MTX_NARTHREADS` and `MTX_THREADCONTROL`, so `IncNARthreads` and `SpawnInc` are out), and on the count
  having been zero when control was taken (`CountInv`). `MasterExact` needs `MasterInv`, which says where a
  thread that handed control over may be while it keeps the name of master, and `CallInv`, which says that it
  cannot get out of its wait before the call ends.
* The counting lemmas `CountMove`, `CountTwo`, `CountSame`, `CountZero` say how the number of threads at some labels
  changes with one or two moves; `Counts` combines them for both counters; `Alone` is the step from the
  counters to exclusion. There is one lemma per group of actions, one step per action in it.
* `TypeCorrect`, `ControlIsExclusive`, `CountIsExact`, `QueueIsExact`, `MasterIsExact` follow.

`MessageQueueProofs`, for any finite sets of senders and receivers, values and limits (`QueueAssumption`):

* `QueueInvariant`: `QueueInv` is inductive as it stands; `InRole` is there because a signal is known to
  reach a receiver only if no mere sender waits on `cvempty`.
* `StandoffNever`: the thread that would complete the stand-off signals first, the counter it reads is not
  zero because it is exact (`CountPositive`), so one of the others leaves its wait (`SignalEmptyWakes`).
* `QueueIsChannel`: every step is a step of `BoundedChannel` or changes nothing of it, although the look at
  the size is not protected.

`PublicHeapProofs`, for any finite sets of threads and regions and any sizes (`HeapAssumption`):

* `ChainCorrect`: `ChainInv` says how the links look, not in which order the regions come, so it is not inductive.
  `Chained` names the order: the public regions are the elements of a sequence without repetition, `Tnext` and `Tprev` go
  from each to its neighbours. `PutPublicChain`, `TakePublicChain` and `SwapPublicChain` give the new sequence for each of the three
  operations of `ralc.r`; `WalkOfChain` and `SoundOfChain` lead back to what the run checks.
* `OneOwnerCorrect`: `OwnerInv` says what a thread claims (its region, or in the last resort of `reserve()` the new one while it still names the old) and
  that no two claims meet. `ClaimMove` is the one argument that all actions use.
* `PoolImplemented`: each action takes a region from the pool, gives, exchanges or allocates one, or changes nothing of it.

`RegionChainProofs`, for any set of threads and any finite set of regions (`ChainAssumption`), of the behaviours in which nobody
moves `curblock` while another thread links a region in (`QuietSpec`):

* `ChainsCorrect`: `ChainInv`. Between the assignments of an insertion the chain is not one. `HalfLinked` says for each label of `reserve()` and
  `init_threadheap()` which of the four links are set already, `OthersWhole` that the chains which no thread is linking into are
  sequences as above, `Owners` who owns which region. `InsertAfter` puts the pieces together at the last
  assignment. The run `RegionChainReused` shows that `Spec` alone loses a region; the theorem shows that the unlocked
  assignment of `init_threadheap()` is the only way, however many threads start at once.

`CoexprReclaimProofs`, for any finite set of co-expressions and any bound on the stacks (`CoexprAssumption`). All theorems but the
last have the hypothesis `Activators \subseteq {Main}`, which the run `CoexprReclaimThreads` shows to be needed:

* `ReclaimCorrect`: that the activator stacks fit together is not local to one of them. The inductive invariant has a
  path: the way of the main thread from `&main` to what it runs, in which each element is a slot of an activator stack, and
  every slot but those of live threads is on it once. Activation makes the way longer by one, a return shorter. `ActivationCount` counts the
  slots by a bijection with the way.
* `ActivatorFound`, `NothingDangles`: marking is a number of rounds as large as the set of co-expressions;
  `MarkClosed` shows by the pigeonhole principle that the last round adds nothing, so what is marked is closed, and the way of
  the main thread lies inside.
* `CollectionBlocksOrKeeps` is about one collection in any state of the right type, whatever threads activate: it loses no live thread
  silently. Either it blocks for good, and then a live thread runs a co-expression other than its own (finding 3), or it
  keeps every live thread with all that it leads to.

`LinkCodeProofs`, for any ucode that is `WellFormed`, of any length:

* `LinkerRight`: `LinkedRight` speaks of the moment after the last line. The invariant `LInv` says what holds after each line and in
  the middle of a walk: the entry of a label is its address, or the head of the chain of the references that are `Pending`; an
  operand word is the distance, or before its label comes (or the walk comes to it) the head of the chain at its own line.
  That `WellFormed` is true of what the translator writes is not proved; TLC checks it of all programs of `Evaluation`.

`HashTableProofs`, for any finite set of keys, any hash functions, any number of segments, any load factors and any bound on the
copies (`HashAssumption`, which has `HSlots` a power of two and more than one, as the code needs):

* `TablesSound`: that the chains are sorted is not enough for an induction. Blocks with one hash number stand in the order in which they were
  put in, which the structure does not record; whether a split or a merge keeps the links right depends on it. The
  invariant says that there are times of insertion (the ghost `t` of `Holds`) such that the blocks are ordered by hash number and time
  (`Before`), and that every slot and every link is the first in this order of a set that can be named without the chain:
  the blocks of the slot, those of them after the block (`IsFirst`, `Later`, `Linked`). Then growth, shrinking
  and copying are statements about sets (`GoodGrown`, `GoodCombined`, `GoodKept`) and `FromEnumerates` leads back from links to
  walks. `memb()` stops behind the blocks that go before the key (`Passed`), so an insertion with the latest time, which is what `addmem()` does,
  keeps the order (`GoodAddmem`); the set operators are a number of insertions (`CollectHolds`), and `SlotSegment` and `MaskOf` have the arithmetic of the segments.
* `ChainsAlwaysSound` is `ChainsSound` of the run. `MembAlwaysExact`: `memb()` finds a key if and only if it was inserted and not
  deleted since, with the position to insert it at otherwise.
* `IterationKept` is the refinement `Spec => ImplementsIteration`: a suspended generation generates every element that stays exactly
  once, whatever is inserted, deleted and split in between. Each split is remembered in `sgmask` and `sghash` as the mask and the
  hash number at that moment (`History`); the block `y` is ahead of the generation if its hash number was ahead at every split
  (`Passes`) and its slot, by the mask the generation knows, is a later one, or the same one with `y` after the current
  element in the order above (`Ahead`). The invariant `GInv` says that all that is owed is ahead and all that is done is not
  (`Suspended`). `hgnext()` then moves to the first block ahead, and only that one stops being ahead (`HgnextMoves`,
  by `LinkMoves` along a link, `PastMoves` past a split in the slot, `SearchMoves` on to later slots). A deleted block that the generation
  holds is outside the chains, and its link may lead to other deleted blocks before it comes back: it stays in the slot, in
  order, and skips nothing that is owed (`Stale`, `Leads`), which insertion, growth (`GrownSuspended`) and deletion
  (`UnlinkedSuspended`) keep. That what such a walk reaches is what `Kept` keeps is `FromCloses`.

`CollectorProofs`, for any block types, finite sets of variables and of regions that do not meet, any length of the
qualifier list and any sizes (`CollectorAssumption`), and the hypothesis `StrEnd <= IntMax`: `qlcmp()` casts the difference of two
addresses to `int`, and section 6 shows what happens when the string region is longer than an `int` can say:

* `HeapAlways`: the inductive invariant `HeapInv`. The blocks of every region follow one another without a gap (`Tiled`), what the variables
  lead to is a set of blocks from which nothing leads out (`Heap`), strings are inside the text (`Texts`), unused words are null, and
  after a collection that listed all qualifiers there is no garbage (`Clean`). `HeapAlwaysSound` and `GarbageAlwaysFreed` are the
  invariants of the run: `WalkEnd` shows that the walk by block sizes stops at exactly the titles.
* A collection is one step of the model and five loops of the code. During them the heap is not a heap, so each loop has an
  invariant of its own, which says what every word is in terms of the memory before the collection:
  * Marking. `pos` is the order of the visits. `Thread` says that the title of a block holds the location visited last, and that each
    location visited holds the one visited before it that refers to the same block, the first one the value of the title.
    `Marking` adds that what was visited and what is due (`Agenda`) is closed under references, without repetition. The model's loop is
    long enough because every round visits a location for the first time; at the end the visited locations are the
    slots of what can be reached, for any number and shape of blocks (`MarkRootsResult`, with `ReachHeap`: what can be reached is
    the least closed set).
  * Strings. After sorting, the locations ascend; that is where the hypothesis is used (`Sorting`). `Retold` says that each string listed so
    far has its old text in the new string region, `Clumps` that the clump that has not been moved yet continues it, and that every character of it belongs
    to a string. A string that ends inside the clump does not shorten it.
  * Adjusting. Before `x` the chains are undone and each of their locations has the new address, which is the base plus the sizes of the
    surviving blocks before it (`Slides`). `UnchainEnd` shows that the inner loop meets each location of a chain once and ends at the title.
  * Compacting. Blocks before the current one are where `Slides` says, the blocks from the current one on are untouched although they may overlap
    with where they go (`Compacted`).
  * Unmarking. The titles in other regions get back what they had.
* `Collected` puts these together: the memory after is the memory before with surviving blocks moved, references sent along (`Sent`) and strings
  retold (`Sees`). From there `CollectHeap` leads to `HeapInv`, and `CollectSees` to `CollectionUnnoticed`, the action property of the run.
* The steps of the program keep `HeapInv` because they write what can be reached already into what can be reached (`PutKeeps`).

In all of these induction is used in the form of a least counterexample (`LeastNat`), and `RecursionExists` shows
that a function defined by recursion on an interval exists; the modules that need them state both. So walks, addresses, loops
and rounds of marking that are defined by recursive functions are within reach of the proofs, though the induction theorems of
the library are not.

Not proved, only model-checked:

* Liveness (`ControlGranted`, `BlockedResume`, `ExitCompletes`, `ReceiverServed`, `DrainedServes`, `Finishes`), which is out of reach of
  the prover, as is `ENABLED`.
* `WritesRight`, `GeneratorsMatch`, `FramesSound` and `NoLeak` of `Evaluation`: they hold because of what the translator writes, which
  `TreeCode` defines by `RECURSIVE` operators on trees, as `ResultStream` does the meaning. The prover does not handle these.

## 5. Not modelled

* Of the collector: the sweep of the interpreter stacks, variables that point into the middle of a block, tended
  descriptors, static and other fixed roots; programs reach the heap through plain variables and fields here.
* Of the interpreter: assignment, local and global variables, `create`, `initial`, lists, records, event monitoring, stack
  overflow. Of `icont`: lexer, parser, declarations and name resolution, procedure blocks.
* Of sets and tables: values of tables, concurrent use, the computation of hash numbers.
* The semaphores behind co-expressions, `^C`, the mutex tables and lists: planned, see section 7.
* Conversions, arithmetic, strings, scanning: sequential functions of data. The bounded instances say
  less than the test-suite does.
* Files, sockets, graphics, audio, databases: I/O. Their one effect on the rest is `DecNARthreads` and `IoReturn`.
* Monitoring, and programs loaded by a program: `RegionChain` has the global chain for one program.
* The Unicon translator in `uni/`, the compiler `iconc`, `rtt`, the preprocessor: batch programs of a size (`iconc` alone
  has 30,000 lines) and kind, tables of types and code templates, whose states a small instance does not show.
* The string regions: the same code as the block regions, on variables of their own.

## 6. Differences met while modelling that no run states

* `lmisc.r:708`: the comment says the limit becomes `abs(x)`; on a list a negative `x` is stored as it is. The
  model takes any limit.
* `lmisc.r:999`: a timed receive waits once. A wakeup whose value another receiver takes ends it before its
  time, although `lmisc.r:844` speaks of waiting for the time given.
* `lmisc.r:833`: a receiver signals the senders only at or below `max/50+1`. With a limit of 3 or more, and the
  default is 1024 (`h/rmacros.h`), a sender waits on beside free room until the queue has drained, although `lmisc.r:587`
  says that it will "wait until it can send". `SenderServed` of `MessageQueue` states that; TLC refutes it in the instance of
  the run. What the signal at the mark does promise is `DrainedServes`.
* `ralc.r:1254`: the first scan over the public regions goes on with `rp->Tnext` after the exchange has reset it
  (`ralc.r:1419`), so it ends after the first region that is large enough, although `ralc.r:1160` speaks of
  collecting regions "newest to oldest, until goal met". `ScanRegion` models it.
* `rmemmgt.r:759`: a thread that has ended stays a root, so it is never freed.
* `fxposix.ri:1600`: two threads that wait for one thread may both join it.
* `fmisc.r:2933`: a co-expression activated with a native switch is not recognised as active by `spawn()`.
* `ralc.r:1352`: the second scan of `reserve()` keeps the goal of the first although its comment resets it.
* `init.r:1509`: `c_exit()` frees memory while threads outside the count may still come back.
* `rcoexpr.r:1122`: two threads that call `exit()` wait for each other.
* `rcoexpr.r:1024`: `TC_WAKEUPCALL` resets `thread_call` and broadcasts `cond_tc` without `MTX_COND_TC`. A thread that has
  read `thread_call` and not yet waited misses it and sleeps until a later call ends. `SleepersWoken` of
  `ThreadControl` states the contrary; TLC refutes it under `FairSpec` with two threads and `SpuriousWakeups` false.
* `rcoexpr.r:1125`: if a spawned thread calls `exit()`, the main thread answers by `pthread_exit()` without leaving the
  count, and the loop for `NARthreads <= 1` does not end: with `Exiters <- WorkerExits` `ExitCompletes` fails.
* `rcoexpr.r:254`: a returning thread puts its value into its outbox only if its activator has `Ts_Async`, which
  moves along with each activation (`rcoexpr.r:430`). A spawner that is inside a co-expression it activated, or
  that ever activated itself, lacks it. `ResultInOutbox` of `CoexprReclaim` says otherwise; TLC refutes it in the
  instance of `CoexprReclaimMain`.
* `rmemmgt.r:1599`: `qlcmp()` casts the difference of two addresses to `int`. In a string region of 2 GB or more, which
  `init.r:809` (2 % of memory) gives on a machine of 100 GB, qualifiers are sorted wrongly and strings lose their
  text: with `IntMax = 1` TLC refutes `HeapSound` and `Unnoticed`.
* `imisc.r:467`: the comment of `escan` says that a result that is a variable on the stack is dereferenced; the code
  that did so is commented out.
* `omisc.r:313`: `from += by` in `i to j by k` has no test for overflow. If `j` is within `k` of the largest integer, the
  counter wraps and is below `j` again, so the generator does not end: with `WordBits = 3` and the program
  `every write(2 to 3)` TLC refutes `WritesRight` and `Finishes`.
* `rstruct.r:503`: a saved mask of 0 means none, so a structure with one slot (`HSlots = 1`) would lose the record of its
  first split. `HashAssumption` excludes it; the distributed value is 16.
* `oset.r:388`: a union checks for growth once, after all insertions, so its result may stay overcrowded.
* `fstruct.r:475`: `c_inserttable()` with an odd number of arguments and a key that exists reads the value
  behind the last argument.

## 7. Plan

1. `Coswitch`: the semaphores between the threads behind co-expressions, refining a coroutine transfer
   (one co-expression of a thread runs at a time). Hazards `rcoexpr.r:350`, `lmisc.r:239`.
2. `MutexTable`: `get_mutex()` and `get_cv()` against threads that index the tables. Hazard `fmisc.r:2546`.
3. `ListBlocks` refining a sequence: the chain of circular list blocks behind `put`, `push`, `get`, `pop`, `pull`.
4. `ThreadQueue`: `ThreadControl` composed with `MessageQueue` (a waiter of a queue is outside the count, and holds
   the list mutex when it comes back).
5. `ExprFrames`: `create` and `initial`, which patch the icode; assignment and local variables, and a collection that sweeps the
   interpreter stack between two instructions (`Collector` composed with it).
6. Proofs: that the translator's ucode is `WellFormed`, with labels as an invariant of the tree walk.
