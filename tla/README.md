# radare2: verification project

TLA+ models of the parts of radare2 that keep state other parts rely on: the
I/O maps and banks and the write cache over them (`src/libr/io`), the storage of
numbered objects that I/O keeps its state in (`src/libr/util/idpool.c`), and the
task scheduler with the quit and teardown sequence of the program
(`src/libr/core/task.c`). The modules are model-checked with TLC on small
instances; the safety invariants of the maps and banks, of the cache, of the id
storage and of the scheduler, the refinements by the maps, the cache and the id
storage of what they promise, and that the walks over the tree of a bank compute the
closed forms the rest is built on, are proved with TLAPS for every instance.

Paths and line numbers are those of the source tree under `src/`; the table
`map` of `PROJECT.json` gives the lines behind every definition.

## 1. Inventory

### 1.1 Components modelled

**I/O banks** (`io_bank.c`, `io_submap.c`, `r_itv.h`). A bank (`RIOBank`) holds

| field | what it is |
|---|---|
| `submaps` | a red-black tree of disjoint address intervals, each with a reference to the map that serves it |
| `maprefs` | the list of the maps of the bank, lowest priority first; a reference is an id and a timestamp |
| `last_used` | the tree node the last access ended on |
| `drain_me` | whether the tree may hold fragments of one map that lie side by side |
| `todo` | a queue that two walks use for themselves |

Operations: add on top, add at the bottom, priorize, depriorize, update the
boundaries of a map, delete a map, drain, clear, read and write. The tree is a
cache of what a search down `maprefs` would give; each operation edits it in
place. The bank is right when the tree agrees with the list at every address,
when its nodes are disjoint, when `last_used` is a node of the tree, and when
the list refers to each living map at most once and to no dead one.
`r_io_bank_locate` looks for a free, aligned place of a given size in the tree; it
is right when it finds one wherever there is one.

**I/O maps** (`io_map.c`, the handlers of `omb` in `cmd_open.inc.c`, `r_io_nread_at`).
`RIO` keeps the maps by id, the timestamp of the next map, the banks by id and
the id of the current bank. Operations: add, delete, remap, resize, reset,
priorize, depriorize, and opening, using, closing and draining banks. A map that
would pass the address 2^64 is split into two maps. Every operation on a map has
to visit every bank that holds it, current or not; a map id is used again as
soon as the map is deleted. This is right when a map shows the bytes of its file
at the addresses it was moved to, in every bank, and when nothing shows a map
that is gone.

**I/O cache layers** (`io_cache.c`, and the handlers of `wc` in `cmd_write.inc.c`).
With `io.cache` a write goes to the top layer of a stack. A layer (`RIOCacheLayer`)
holds a vector of items in the order of the writes, each with its interval, the
bytes written, the bytes read before the write and the part of the interval that
still shows (`tree_itv`), and a red-black tree of the parts that show. Operations:
write, read, invalidate a range, commit a range or everything, undo the last
write, push and pop a layer, reset. This is right when a reader sees the newest byte
written at each address and else the file, when a commit changes nothing a reader
sees, and when an undo takes the last write back.

**Id storage** (`idpool.c`). `RIDPool` gives out ids from a queue of freed ones or
from a counter; `RIDStorage` keeps the objects in an array that grows and is
halved with the highest id in use, and starts over with a new pool when its last
object goes. `RIO` has one for maps, one for banks and one for files. It is right when
an id belongs to one object at most, when no id is lost, when every object is
inside the array, and when a walk over the storage meets each object.

**Task scheduler** (`task.c`, `r_core_task.h`, `cmd_task.inc.c`, the quit loop
of `radare2.c`, `r_core_fini`). One thread per background task, beside the main
thread. State: the list of tasks, each with its state, its semaphore, its break
flag and its result; the count of running tasks; the next id; a recursive lock;
and, in builds with the option `threadsafety`, the lock of the core. Operations:
`& cmd`, `&b id`, `&& id`, `&&`, yield, the prompt, the question at the end, the
cancelling of all tasks and the teardown. It is right when a wait returns, and
returns after the result is there; when a task broken before it began never
runs; when the program can always be left; and when the core is freed only
after the last command line has ended.

### 1.2 How they interact

Commands (main thread or a background task) call the map operations, which call
the bank operations of every open bank. `r_io_nread_at` and the reads and writes
call the current bank only. The cache lies over what the bank and the maps give: a
cached write reads the old bytes through the layers, and an undo or a commit writes
below them. Maps, banks and files get their ids from the id storage, which may give a
freed id out again at once; references to maps carry a timestamp for that reason. There is no lock in the I/O layer: it relies on the
commands of one core not running at the same time, so its models are
sequential, with an arbitrary interleaving of whole operations. The scheduler is
the concurrent part: threads share the task list and the counters under
`scheduler->lock`, wait on per-task semaphores, and are told to stop through the
break flag of their console.

### 1.3 Behaviours that are hard

* the tree of a bank after a long mix of operations, where each step depends on
  all earlier ones, with a map moved, resized, split or withdrawn under others;
* banks that are not current while their maps change; ids that are reused;
* intervals that end at the last address, or that would pass it;
* a cached write that falls on earlier ones, committed and invalidated in parts;
* an array of objects that grows, shrinks and starts over while ids are in the queue;
* a task broken before its thread has looked at its break flag, a wait ended by
  a signal, two locks taken in both orders, tasks still starting while the
  program ends.

`hazards` in `PROJECT.json` lists each of them at its line, with the property
that covers it or the reason why none does.

### 1.4 Components not modelled

| component | reason |
|---|---|
| overlays of maps, the read and write paths of a bank | planned, see section 7 |
| thread channel, condition variables, thread launcher | planned in part; the primitives are the platform's |
| red-black tree | taken as an ordered set; planned last |
| descriptors and I/O plugins | operating-system calls; a file is a constant with a size |
| console, configuration, flags, event hooks, command parser | sequential stores or text processing |
| debugger, breakpoints, remote protocols | mostly the behaviour of ptrace and of remote stubs |
| loaders, analysis, disassembly, emulation, search, hashing | about data, too large for a small model |
| file systems, projects, rvc, utilities, tools, vendored code | outside the core's own state |

## 2. The modules

| module | what it is |
|---|---|
| `IOBankOps` | the operations of one bank as operators on a bank record, in closed form |
| `IOMaps` | state machine over all maps and banks, built from `IOBankOps` |
| `IOBankWalks` | state machine of one bank: the walks of `io_bank.c` node by node, and the search for a free place |
| `AddressView` | abstract specification: what a reader of an address may rely on |
| `IOMapsView` | the refinement of `AddressView` by `IOMaps` |
| `IOBankProofs` | each operation of a bank keeps its tree well formed; then what the tree shows, and when it must be drained, operation by operation |
| `IOBankWalksProofs` | the walks of `IOBankWalks` leave the banks that `IOBankOps` gives |
| `IOMapsProofs` | theorems about `IOMaps`: for every user, and under careful use |
| `IOMapsViewProofs` | that `IOMaps` implements `AddressView` |
| `IOCache` | the items and trees of the cache layers, every operation on them |
| `LayeredBytes` | abstract specification: a stack of layers of bytes over a file |
| `IOCacheLayers` | the refinement of `LayeredBytes` by `IOCache` |
| `IOCacheProofs` | theorems about `IOCache`, its refinement and its undo among them |
| `IdStorage` | the pool of ids and the array of objects |
| `UniqueIds` | abstract specification: whoever asks gets an id nobody has |
| `IdStorageProofs` | theorems about `IdStorage`, its refinement of `UniqueIds` among them |
| `TaskScheduler` | the task scheduler, the prompt, quitting and the teardown |
| `TaskSchedulerProofs` | theorems about `TaskScheduler` |
| `NatFacts` | least and greatest elements, and recursive functions on the naturals |
| `MC*` | constants, symmetry sets and file sizes for TLC |

`IOMaps` and `IOBankWalks` EXTEND `IOBankOps`, and `IOMapsView` EXTENDS `IOMaps`.
`IOBankWalksProofs` EXTENDS `IOBankWalks` and `IOBankProofs`; `IOMapsProofs` EXTENDS `IOMaps`
and `IOBankProofs`, and `IOMapsViewProofs` EXTENDS it and `IOMapsView`.
`IOCacheLayers` EXTENDS `IOCache`, `IOCacheProofs` EXTENDS `IOCacheLayers`; `IdStorage`
and `TaskScheduler` stand alone, each extended by its proofs. The proofs of the banks, the
cache, the id storage and the scheduler EXTEND `NatFacts`.

### 2.1 `IOBankOps`

The red-black tree is the set of its nodes, since their order is the order of
their addresses. Each walk of the code is replaced by what it computes:

* `Carve(S, A)`: the nodes of S without the addresses in A, which is the loop at
  the heart of `r_io_bank_map_add_top` (`io_bank.c:232-286`), of
  `r_io_bank_map_priorize` and of `r_io_bank_update_map_boundaries`;
* `Pieces(A, ref)`: one node per maximal interval of A, which is what filling a
  hole comes to;
* `Withdraw`: `_delete_submaps_from_bank_tree`; each address of a node that goes
  is served by the highest living map below the one withdrawn, if any;
* `Drain`: each longest chain of nodes, in address order, that name one map
  becomes one node (`r_io_bank_drain` compares references, not adjacency).

A guard or an early return of the code is a branch of the operator, and
`last_used` and `drain_me` are set exactly where the code sets them: for example
`r_io_bank_map_add_top` leaves `last_used` alone when no node is met, and
`r_io_bank_del_map` resets it even if the map is not in the list.

`_mapref_priority_cmp` runs down the list until it meets one of two maps; only
the map at a known position and the map of a node are compared, which is why
`UpdateBoundaries` can say "above position k" (`IOBankWalks!MetFirst` is the
search itself).

### 2.2 `IOMaps`

| variable | code |
|---|---|
| `maps` | `io->maps`, a map per id, `NoMap` for a free slot |
| `mts` | `io->mts` |
| `banks`, `open` | `io->banks`: the bank of each id, the ids in use |
| `cur` | `io->bank` |

Addresses are `0 .. MaxAddr`, so `MaxAddr` is `UT64_MAX` and `MaxAddr + 1` is
2^64: all the arithmetic at the top of the address space takes place at its real
boundary, in a small space. `Wraps` is the test `UT64_MAX - size + 1 < addr`.
A file has a size, and a map never reaches past it when it is made
(`io_map_new`), but a resize does not look at the file, as in the code.

Each action is one exported function with every loop over banks it makes:
`MapRemap` moves the map, adds the second part if it wraps, and updates each open
bank. `io_map_resize` passes the wrong bank in one loop (section 5), and
`ResizeWrapping` says so: the current bank is updated once more and the others
are not.

Four specifications differ in what the user may do:

* `Spec`: everything the program accepts;
* `CarefulSpec`: without the two uses that lead to the findings of section 5,
  associating a map with a bank that already holds it (`AssociateOnce`) and
  growing a map past 2^64 while another bank holds it (`ResizeAlone`);
* `ResizeSpec`, `AssociateSpec`: `CarefulSpec` with one of the two.

Left out: permissions, names, overlays, ties to the size of the descriptor,
failing allocations, `delta` given by the user (0 in every `MapAdd`; the second
part of a split map has another), and the functions that only repeat a modelled
one (`r_io_map_del_for_fd`, `r_io_map_priorize_for_fd`).

### 2.3 `IOBankWalks`

The same operations as the code has them, one step per turn of a loop:

| variable | code |
|---|---|
| `tree`, `refs`, `used`, `drain`, `todo` | the fields of `RIOBank` |
| `maps` | `io->maps` |
| `pc` | where the call is: `idle`, in one of its loops, or `done` |
| `op`, `id`, `old`, `ask` | the function and its arguments (`fake_sm`, `ofrom` and `oto` are `old`) |
| `at` | `entry`, the node the walk stands on; NULL is `NoSubMap` |
| `sm` | the submap that is laid in, with the bounds it has left |
| `prio`, `ator` | `iter` and `ator`, as positions in the list |
| `found`, `answer` | history: the bank as the call found it, and what a search gave |

A call is an action (`CallAddTop`, `CallPriorize`, `CallAddBottom`, `CallDelMap`,
`CallDepriorize`, `CallUpdate`, `CallDrain`, `CallLocate`) that does what the function does up
to its first loop, and a turn of a loop is one (`CutNode`, `BottomNode`, `EnqueueNode`,
`FillNode`, `UpdateNode`, `DrainNode`, `ByteNode`, `AlignedNode`), as is what follows it
(`CutEnd`, `BottomEnd`, ...). The parts are those of the code: the entry node of
`_find_entry_submap_node`, `r_rbnode_next`, the setters that refuse an empty interval, the
five cases of the second loop of `_delete_submaps_from_bank_tree` (`FillWith`) and its todo
queue, the narrowing bounds of `r_io_bank_update_map_boundaries`. One call runs at a time, so
the steps of two calls do not mix; the steps are there to be reasoned about one by one.

When a call is done, the bank must be the one `IOBankOps` gives for `found`. This is what
makes the closed forms a model of the code and not only of its intent. Maps come and go
between calls with any interval (`MapNew`, `MapFree`), and an update may move its map
anywhere, which is all `IOMaps` does to a bank that does not hold a map twice.

`CallLocate` is `r_io_bank_locate` (`io_bank.c:754-808`): the walk from submap to submap with
the candidate rounded up to the alignment, its start over at 0 when the rounding wraps, and
its refusals. The lookup may stop at any node that meets the interval, as in a tree of
unknown shape. `LocateFinds` compares it with its definition, the lowest
aligned place that meets no submap. The property is stated where such a place
exists, and leaves out a place that ends at the last address, which the code refuses
for candidates above 0 (section 5).

### 2.4 `AddressView`

What is promised to a reader: each bank shows at most one map at an address, and
an operation on one map (or on a map and the new map it is split into) changes an address
only to or from that map, in any bank. It says nothing of how, nor of priorities. `IOMapsView`
maps the tree of each bank to that view.

### 2.5 `IOCache`, `LayeredBytes`, `IOCacheLayers`

| variable | code |
|---|---|
| `file` | the bytes below the cache, through the maps |
| `layers` | `io->cache.layers`, each a sequence of items |
| `writes`, `ops` | how many writes and other operations there were, for the bounds |
| `past` | history: what was shown before each write that an undo can take back |

An item is a record of `itv`, `tree` (`tree_itv`, `NoItv` for NULL), `live` (the tree of
the layer has a node for it) and the two buffers as functions on addresses. `live` is
apart from `tree` since a full commit empties the tree and leaves `tree_itv` as it was.
A byte is `<<write, index>>`, so that one copied from a wrong offset, or kept too long,
is another byte. Intervals have the code's size and end, both modulo 2^64, hence an end
of 0 at the top. A write past 2^64 is two writes, the rest at 0 first (`WriteParts`).

The walks over the layers and over the nodes of a tree that copy bytes are closed forms:
`ReadByte` takes the last layer with a node that `memcpy` copies an address from
(`Serving`), `ServedByte` the last such node in it, and `Flush` the last layer with a node there. A commit of a range goes
layer by layer, since each invalidates what the next one finds (`CommitRange`).

`WriteIn` is `r_io_cache_write_at` for one part: every item it meets is cut, hidden, or
split with its tail in a new item (`TailOf`, with the offset the code takes).
`Kept` and `Split` are the four cases of `r_io_cache_invalidate` for an item;
`SettleLayer` is a layer of a commit of a range, which invalidates the range in all
layers after writing the bytes of one.

`Spec` accepts everything. `CarefulSpec` leaves out the ways in which the code loses
bytes (section 5), each by a condition of its own, so that the run shows that nothing
else goes wrong:

| condition | leaves out |
|---|---|
| `ClearOfTop` | writes inside a cached write that ends at the last address |
| `HeadsKept` | writes inside a cached write that lost its head |
| `CutsClean` | invalidating a part of an item that was committed, its beginning, or up to the last address |
| `OneLayer` | committing a range that several layers have bytes in, or one the commit does not reach |
| `Writable` | commits to a file that was opened read-only |

`LayeredBytes` is what is left when items, trees and buffers are forgotten: a stack of
partial functions from addresses to bytes. The map of `IOCacheLayers` takes the nodes of
each tree as the bytes of its layer. `found` is what the writes of a layer found at their
addresses, from the buffers of its items (`Origins`): `TakeBack`, which is what an undo is
there, gives up bytes of one write of the top layer only, those it still holds, and puts
what that write found back into the file if it can be written. Forgetting a range, sending
one down and sending layers down are operations of their own. Since a behaviour only has to
be some step of `LayeredBytes`, what each operation of the cache does is said apart:
`InvalidationsExact` says that a careful invalidation is `Forget` of its range, no byte more
and none less, and the theorem `CommitsAreExact` (section 6) that a careful commit is
`SettleLayers` or `Settle`, and changes nothing a reader sees.

Left out: `io->cache.mode` (each write chooses to go through the cache or past it), the
`written` flag, which only the listing shows, `wcf` and the listing, redo (the code has
none), failing allocations, and the cache of a descriptor (`p_cache.c`).

### 2.6 `IdStorage`, `UniqueIds`

| variable | code |
|---|---|
| `next`, `freed` | `next_id` and `freed_ids` of the pool |
| `data` | the ids whose slot of the array is not NULL |
| `size`, `top` | `size` and `top_id` of the storage |
| `pending` | ids of `r_io_desc_new` not yet given to `r_io_desc_add` |
| `answer` | what the last request got |

Adding, making a descriptor and adding it later, and deleting are the actions. `IsMsb`
is `get_msb`, with the powers of two of the recursive function `Bit`. `Grown`
has the three quarters and the powers of two of `id_storage_reallocate`'s callers, `Descends`
is the walk down from the top, `StartOver` the new pool of an empty storage. A write past
the array is visible: it puts an id outside `0 .. size - 1` into `data`. `Spec` lets any
number be deleted, as `omb-` does; `CarefulSpec` deletes objects that exist, once, and
none while a descriptor is between its making and its adding.
`r_id_storage_take` is a lookup and `Delete`; the other functions only read. The ordered
storage (`ROIDStorage`) has no user in the tree and is left out.

### 2.7 `TaskScheduler`

| variable | code |
|---|---|
| `thread` | per thread: the program counter, the arguments and locals in use |
| `task` | per task: id, state, `running_sem`, `breaked` of its console, whether `res` is set |
| `tasks`, `tasks_running`, `task_id_next` | the fields of `RCoreTaskScheduler` |
| `lock`, `core_lock` | the owners of `scheduler->lock` and of `core->lock` |
| `doomed` | history: the tasks broken between their listing and their start |

A critical section under `scheduler->lock` is one step whose guard is that the lock
is free. Two sections are split. The end of `task_run` enters the lock (`TaskEndEnter`),
ends the task inside it (`TaskEnd`, where `task_end` enters `core->lock`), posts
(`TaskPost`), leaves the lock (`TaskEndLeave`), and sends its event on `core->ev` and
returns (`TaskReturn`): from the post on, whoever waits may pass while the thread is
still in `task_run`. And `r_core_task_cancel_all` leaves the lock at each item of the list
(`CancelItem`). `r_core_fini` frees parts of the core as soon as its waits have passed
(`Teardown`); `r_core_task_scheduler_fini` joins the threads (`Reap`), before
`core->ev` is freed. `task_id_next++` is two steps (`NewTask`, `StoreNextId`): no lock
protects it. The break flag is read and written without a lock, in steps of its own.

`tasks_queue` is only appended to after an item was popped from it
(`task.c:450-453`), so it stays empty and the dispatch code never runs; it is left
out. The main task has no semaphore, and is not counted in `tasks_running`.

| constant | meaning |
|---|---|
| `Critical` | built with `R_CRITICAL_ENABLED` |
| `Nested` | the command line of a task may itself use `& cmd` |
| `Interrupts` | the user may press ^C while the main thread waits |
| `WaitsFor` | which task may wait for which |
| `MainCmds`, `TaskCmds` | bounds on the commands given |

Left out: the functions that no command reaches (`r_core_task_del`,
`r_core_task_del_all_done`, transient and forked tasks, `r_core_task_run_sync`; the
help text documents `&t` and `&-`, and `_cmd_tasks_impl` has no case for them), event
hooks, `oc`, `q!!`, and everything in `r_core_fini` of a `threadsafety` build, which
frees `core->lock` first.

## 3. The runs

| run | constants | shows |
|---|---|---|
| `IOMaps_banks` | 2 maps, 2 banks, 3 addresses, sizes 1 and 2, accesses at 1, `CarefulSpec` | `LiveRefs`, `NoDuplicateRefs`, `DisjointSubMaps`, `LastUsedInTree`; `RemapMovesBytes`: byte k of a moved map is at the new address plus k, modulo 2^64 |
| `IOMapsView` | 3 maps, 1 bank, 3 addresses, 4 timestamps, `CarefulSpec` | `TypeOK`; `HighestPriority`: the tree shows the highest map of the list everywhere; `DrainMeCoversFragments`; `ImplementsView`: every behaviour is one of `AddressView` |
| `IOMaps_grow` | 2 maps, 2 banks, 4 addresses, `ResizeSpec` | violation of `HighestPriority` (section 5) |
| `IOMaps_twice` | 2 maps, 1 bank, 4 addresses, `AssociateSpec` | violation of `LiveRefs` (section 5) |
| `IOBankWalks` | 3 maps of sizes 1 and 3, 1 bank, 4 addresses, alignments 1 and 2 | `AddWalksAgree`, `WithdrawWalksAgree`, `UpdateWalkAgrees`, `DrainWalkAgrees`: the walks of the code leave the banks of the closed forms; `WalksInTree`; `LocateFinds` |
| `IOCache` | 4 addresses, sizes 1 and 3, 3 writes, 2 other operations, 2 layers, `CarefulSpec` | `TypeOK`; `TreeSound`: nodes are disjoint and lie in their buffers; `UndoRestores`; `ImplementsLayers`; `InvalidationsExact`: an invalidation takes the bytes of its range and no other |
| `IOCache_nested` | 5 addresses, sizes 1 and 4, 3 writes, `WriteSpec` | violation of `WriteShows` (section 5) |
| `IdStorage` | 15 ids, 3 in the queue, 2 descriptors pending, `CarefulSpec` | `TypeOK`, `IdsUnique`, `InArray`, `ForeachVisitsAll`; `ImplementsIds`: an id is refused only when all are taken |
| `TaskScheduler` | 2 tasks, 3 and 1 commands, every option on | `TypeOK`, `StillbornNeverRuns`, `CountsTheInside` |
| `TaskScheduler_live` | the same, default build, no ^C, no nested tasks | `TeardownAlone`, `JoinSeesResult`, `JoinReturns`, `QuitProceeds` |
| `TaskScheduler_break` | with ^C | violation of `JoinSeesResult` (section 5) |
| `TaskScheduler_locks` | with `Critical` | violation of `JoinReturns` (section 5) |

Why the bounds are enough:

* Three addresses give a node room to be cut in the middle, four give the walks
  a node to cut, one to delete or skip and one to stop at, and a hole that two maps fill. Sizes always include one that
  passes the end of the address space from the last addresses.
* Three maps are what one operation can involve: the one operated on, the one it
  covers and the one that shows in its place. Two suffice where the question is about
  references and banks.
* With as many timestamps as maps, or one more, an id is used again. `MaxTs` bounds
  how many maps are ever made, `MaxRefs` the list where a command adds to it, `Sizes` and
  `Probes` the inputs; the order and the number of the operations are not bounded.
* Three cached writes are one that is split, one that splits it and one that falls on the
  pieces; two other operations are, for example, a commit and an invalidation of what was
  committed. Undos are not bounded. `Ranges` has single addresses, a range inside, one up
  to the last address and all addresses.
* `LastId` is 15 for the storage of the maps, whose `last_id` is `UT32_MAX`: both are a
  power of two less one, and fifteen ids take the array through every length from
  2 to the last, and down again. Section 6 proves the properties for each last id that is
  one or two below a power of two, or a power of two; with 12 or 13
  `InArray` fails (section 5). `MaxFreed` bounds how many ids wait in the queue.
* Two tasks and the main thread are enough for a task that ends, one that starts and
  one that waits; the main thread has three commands, so that it can start both and
  wait, or break one and wait.

Map ids are symmetric: they are only compared for equality, and the code picks a
free one by the rules of `IdStorage`, of which `IOMaps` uses what `UniqueIds` says: one
that is free. Bank ids and tasks are
ordered and have no symmetry set. No run of a liveness property uses symmetry.

`CHECK_DEADLOCK FALSE` is given because the models stop where the program does:
the I/O models when the timestamps of `MaxTs` are used up and nothing but
refused operations is left, the cache and the id storage when their bounds are
reached, the scheduler when the program has ended, or when
its commands are used up and it waits for the user, or (in `TaskScheduler_locks`)
in the deadlock that is the subject of the run.

Each property has a mutant in `PROJECT.json`, a change of one definition to what a
plausible mistake in the code would make of it, which TLC shows to break the property:
for example the cached node kept, a map taken out of the current bank only, the break
flag reset when the thread starts, the semaphore's token left in it, the bytes to undo
with read from below the cache, a highest id queued as well as given back to the counter.

## 4. Fairness

Only `TaskScheduler` has liveness properties. `Fairness` is weak, per thread: a thread
that can take a step takes one, which is what the platform's scheduler gives, since
every lock is modelled by a guard that stays enabled while the lock is free and is held
for one step only, or through the steps of a task's end, which wait for nothing but
`core->lock`. For tasks it also says that a
command line ends: `FinishCmd` stays enabled at "cmd", and `TaskCmds` bounds the commands
in it. This is an assumption about the user's commands, not about the scheduler: a task
given an endless command line is never done unless it looks at its break flag. Nothing is
assumed of the user: the prompt, the answers and the commands of the main thread have no
fairness, so `QuitProceeds` begins where the cancelling does. `JoinReturns` is false when
two tasks wait for each other, which the user can ask for; `WaitsFor` lets the second wait
for the first only.

## 5. Findings

1. `io_map_resize` (`io_map.c:450`) passes `io->bank` instead of `bankid` in the loop
   over the other banks, when the map grows past 2^64: those banks keep the old tree
   (`IOMaps_grow`). The branch that does not wrap passes `bankid`.
2. `omba`, `ombg` and `omb+` add a map the bank already has (`cmd_open.inc.c:1111`);
   deleting the map then leaves a reference to nothing (`IOMaps_twice`).
3. ^C while `&&` waits ends `sem_wait`, the result of which `r_th_sem_wait`
   (`thread_sem.c:90`) ignores: the wait passes, without the token, a task that still runs
   (`TaskScheduler_break`). The post that follows it (`task.c:303`) adds a token that was
   never taken.
4. In a `threadsafety` build `r_core_task_schedule` takes `core->lock` and then
   `scheduler->lock`, the end of a task takes them in the other order (`task.c:541`):
   a thread that yields while a task ends can deadlock with it (`TaskScheduler_locks`).
5. A cached write inside an older one that had lost its head copies the bytes behind it
   from the wrong offset of the old buffer (`io_cache.c:173`, `IOCache_nested`).

Met on the way, without a run: `omb-*` is documented as "delete all banks"
(`cmd_open.inc.c:84`) and drains the current bank and selects the first one
(`cmd_open.inc.c:1133`); two threads that start tasks at once can get the same id
(`task.c:403`); a task that starts another while the list is being waited for leaves
one that nobody waits for (`task.c:326`).

In the cache, left out of the run by the conditions of section 2.5: a write inside one
that ends at the last address loses the bytes behind it (`io_cache.c:167`); a full commit
leaves `tree_itv` set, and invalidating a part of such an item puts the rest back in the
tree, over later writes (`:346`); invalidating from the first address of an item reallocates
its buffer to no bytes, and the item keeps the pointer that was freed (`:327`); a commit of a
range invalidates it in all layers, written or not (`:448`); a commit to a file opened
read-only drops what was cached (`:429-435`). Without a counterpart in the model: the vector
is pushed to while it is walked (`:362`); `r_io_cache_empty` answers the opposite of its name
(`:97-101`); `wc+ from to` reads `to` from its first argument (`cmd_write.inc.c:1588`); `wci`
and `wc+` reach the bottom layer only, while writes go to the last one.

In the id storage: deleting an id without an object queues it all the same
(`idpool.c:63`; `omb-N` given twice does so, `io_bank.c:1187`), and two objects get it later; the
growth of the array is right for a `last_id` that is a power of two or one or two less, which
all in the tree are: `UT32_MAX`, `ST32_MAX`, 0xfffe, 0x80000000 (with 12 or 13 ids, the array
of six slots is written at its end). A storage whose `last_id` is a power of two relies on
some object of the upper half of its ids being stored before the highest: were all of those
made and not stored, the highest would be written past the array, since `n != last_id` is
false for it (`idpool.c:135`).

`r_io_bank_locate`: the aligned search does not end when each aligned place, 0 included,
meets a submap; a place that ends at the last address is refused unless it is at 0; with no
submap at or above the first candidate, whether the place fits is not looked at.

## 6. What is proved

`IOMapsProofs` proves, for every set of ids and files, every address space and every
bound on the inputs, about `Spec` (the careless user included):

| theorem | statement |
|---|---|
| `Invariance` | `Spec => []IInv` |
| `TypeCorrect` | `Spec => []TypeOK`: no operation makes a map or a node leave the address space |
| `SubMapsDisjoint` | `Spec => []DisjointSubMaps` |
| `LastUsedValid` | `Spec => []LastUsedInTree` |
| `RemapMoves` | `Spec => RemapMovesBytes`: each byte of a map that is moved is at its distance from the new start, around the top |
| `CarefulIsSpec` | `CarefulSpec => Spec`, so the above hold of the careful runs too |

The inductive invariant is

    IInv == TypeOK /\ SoundMaps(maps) /\ \A b \in BankIds : SoundBank(banks[b])

`SoundMaps` says that a map that exists has at least one address, and `SoundBank` that
the nodes are non-empty and pairwise disjoint and that `lastUsed` is one of them.
`DisjointSubMaps` alone is not inductive: a map with no address would make an empty
node, and a bank that is closed now may be opened later, so all banks are included.

The argument: `IOBankProofs` shows that `Carve` and `Pieces` give disjoint non-empty
nodes inside the sets they are given (from two facts on maximal intervals, `RunFacts` and
`RunsDisjoint`), and so that each bank operation takes a sound bank to a sound bank
(`AddTopSound`, ..., `DrainSound`, `TouchSound`). `IOMapsProofs` has one lemma per action:
the maps stay good (a split map gives two non-empty maps that fit) and each bank gets a
sound one. `RemapMoves` follows from the same invariant: a byte is in the part that was
moved (`PlacedShows`) or in the rest of a split map, which is a new one (`RestShows`).

`IOMapsProofs` and `IOMapsViewProofs` prove, for the same constants, about
`CarefulSpec`:

| theorem | statement |
|---|---|
| `CarefulInvariance` | `CarefulSpec => []HInv` |
| `HighestMapShown` | `CarefulSpec => []HighestPriority` |
| `ReferencesLive` | `CarefulSpec => []LiveRefs` |
| `ReferencesOnce` | `CarefulSpec => []NoDuplicateRefs` |
| `FragmentsAnnounced` | `CarefulSpec => []DrainMeCoversFragments` |
| `ViewInvariance` | `CarefulSpec => []VInv` |
| `ViewImplemented` | `CarefulSpec => ImplementsView` |

They cannot be about `Spec`: `IOMaps_twice` and `IOMaps_grow` are runs in which a user
without that care breaks them (findings 1 and 2). The invariant is

    HInv == IInv /\ \A b \in open : Exact(maps, banks[b]) /\ Announced(banks[b])

`Exact` says three things of a bank that only hold together: each map is listed once
(`Once`), no reference is dead (`AllLive`), and each node names the highest map of the list
at each of its addresses, with a node wherever the list has a map (`RightBut`). A list with
a map twice would leave a reference behind when the map is deleted; a dead reference could
come to life again with the id; and an operation on a tree that does not show its list makes
another such tree. `Announced` is `DrainMeCoversFragments` of one bank; it needs `Exact`,
which tells where the nodes of a map can be (`NodeListed`).

The argument: the second part of `IOBankProofs` takes each operation of `IOBankOps` to a change of the
list (a reference added at an end, or taken out) and of the tree, and shows that the new
tree shows the new list. `TopBut(maps, refs, k, i, a)` is the fact all of it is about: of the
list without its k-th reference, the i-th is the highest at address a. Laying a map on top
(`LayTop`) or below (`LayBottom`), withdrawing one (`WithdrawExact`, what was below it comes
through, `BelowTop`), putting a moved map between the others (`FillBetween`) and merging
chains (`ChainShows`) are the steps. The end of that module does the same for
`Announced`. `IOMapsProofs` has a lemma per action; the hard ones are the splits, where a map is
cut and its rest laid on top of each bank that has it (`SplitFaithful`).

    VInv == HInv /\ Stamped /\ Closed

adds that timestamps in the table are in the past and that closed banks are empty. The
refinement then is about lists only: an operation on a map leaves the other maps of each
bank in the order they had (`SameBut`, one lemma per operation), and of two lists with the
same maps in the same order, but for those of R, the trees show the same map wherever
neither shows one of R (`ViewKept`). `Stamped` is what makes the rest of a split map, or the
second half of one that wraps, a map nobody has seen (`FreeUnseen`).

`IOBankWalksProofs` proves, for every address space, every set of maps, sizes and
alignments, and so for trees, lists and queues of every length:

| theorem | statement |
|---|---|
| `WalksInvariant` | `Spec => []IInv` |
| `AddWalksAgreeAlways` | `Spec => []AddWalksAgree` |
| `WithdrawWalksAgreeAlways` | `Spec => []WithdrawWalksAgree` |
| `UpdateWalkAgreesAlways` | `Spec => []UpdateWalkAgrees` |
| `DrainWalkAgreesAlways` | `Spec => []DrainWalkAgrees` |
| `WalksInTreeAlways` | `Spec => []WalksInTree` |
| `LocateFindsAlways` | `Spec => []LocateFinds` |

The agreement at the end of a call says nothing in the middle of one. The invariant says there
what is still to be done: `Expected` is the bank that the operation gives for what the call
found, and it is also what the tree of now becomes when the rest is done at once.

| loop | part of the invariant | what the rest is |
|---|---|---|
| cut | `CutInv` | what is left of `sm` laid over all nodes: `Lay(tree, {}, sm)` |
| gaps below | `BottomInv` | what is left of `sm` under all nodes: `Lay(tree, tree, sm)` |
| enqueue, dequeue, fill | `EnqueueInv`, `DequeueInv`, `FillInv` | the nodes still to be taken go, and the holes are filled (`Owes`): those of the queue from below `prio`, that of `sm` from `ator` down |
| update | `UpdateInv` | what is left of `sm` under the nodes of higher maps and over the others |
| merge | `DrainInv` | every chain of nodes still in the tree becomes one (`Merged`) |
| search | `LocateInv` | a free place is behind the node the walk is at |

Each part also has what its loop relies on: the node is in the tree, the nodes the walk has
passed do not meet what is left of `sm`, and, for the fill, no map between `ator` and `prio`
covers a part of `sm`. The last is what makes case 5 right: the upper half of a split submap
goes to the end of the queue and is looked up from `prio` again, which finds the same maps.

The argument has three layers. Facts about `Carve` and `Pieces` of one interval more or less
say how `Lay` and the fills change when one node is cut, deleted, skipped or filled. A lemma
for each action shows that it takes its part of the rest and leaves the rest of its part
valid. And a loop that has ended has nothing left: the node it stopped at is past `sm`, the
queue is empty, no two nodes chain. For the drain, a merged pair is shown to leave the ends of
all chains as they were, so no induction on the length of a chain is needed.

`IOCacheProofs` proves, for every address space, all sizes and ranges and every bound,
about `CarefulSpec`:

| theorem | statement |
|---|---|
| `TypeCorrect` | `CarefulSpec => []TypeOK` |
| `TreesSound` | `CarefulSpec => []TreeSound` |
| `CacheImplementsLayers` | `CarefulSpec => ImplementsLayers` |
| `InvalidationsAreExact` | `CarefulSpec => InvalidationsExact` |
| `CommitsAreExact` | with a file that can be written, a full commit is `SettleLayers` of the layers it reaches, a careful commit of a range is `Settle` of that range or finds nothing to do, and neither changes what is read |
| `UndoTakesBack` | `CarefulSpec => UndoRestores` |
| `CarefulWritesShow` | a cached write that is `ClearOfTop` and `HeadsKept` is what is read back, and nothing else that is shown changes |

They cannot be about `Spec`: `IOCache_nested` breaks `WriteShows` (finding 5), of which
`CarefulWritesShow` is the part that holds, and section 5 lists what the other conditions
of `CarefulSpec` leave out. The invariant of the first two is

    Base == file \in [Addr -> RealByte] /\ Stack(layers) /\ bounds

where `Stack` says of each layer that its items are `Good` (the node lies in the interval
of the item, both buffers have a byte for each address of it and none that was freed) and
that its nodes are `Apart`. An item without a node has to be good too, since an
invalidation may give it one again, and an item may be empty (a cut at its end), but not
at address 0, where an empty interval would end at 0 and count as one up to the last address.

The refinement needs one more, `Traced`: each item holds bytes of one write, which is one of
those made so far. With it an undo takes back bytes of the write its last item is of, and what the
layers know of their writes only ever shrinks but for a write (`Descends`, `KnowsLess`,
`Follows`), however items are cut and split.

The argument: `Span` turns the arithmetic modulo 2^64 of `r_itv.h` into bounds (`Compare`,
`Intersection`), and `CutIs`, `TailIs` and `ClipIs` say what is left of one item. A layer
after an invalidation is a sequence of what is left of each item, then of the split off ends,
in reverse (`Flattened`, `InvalidateIs`); `WriteIs` is the same for a write, which splits one
item at most (`Alone`). What a layer shows is `Overlay`, and a read through the layers is the
highest `Overlay` that has the address (`ShownIs`); this needs `Apart`, without which the
last node of a tree would not be the only one. Then each operation is a step of
`LayeredBytes` (`PutStep`, `StoreStep`, `ForgetStep`, `SettleLayersStep`, `SettleStep`,
`TakeBackStep`, `PushStep`, `PopStep`, `ResetStep`). The commit of a range is a recursive
function on the layers; `SettlingIs`, by induction on `LeastExists` of `NatFacts`, says that
it has one solution at most, so that the two that are needed, no layer with bytes there (`SettlesNone`) and one
(`SettlesOne`), are found by giving them. That a commit shows what was shown before follows from
the form it has in `LayeredBytes` (`SettleShows`, `SettleLayersShows`).

The undo needs to know of all items that an undo may still take away:

    PastKept == Writable /\ past # <<>> =>
                  Len(layers) = 1 /\ Len(past) <= Len(layers[1])
                  /\ Undoes(layers[1], View, past, Len(layers[1]) - Len(past))

The views of `past` belong to the last items of the only layer, one each; each view is what
is shown now with, at each address, the bytes put back that the first of these items to cover
it has kept (`Restores`); and no item shows where a later one of them keeps bytes. Without the
last part an undo would put bytes below a node that hides them. A write adds an item that
keeps what is shown (`UndoesMore`), an undo takes one away (`UndoesLess`), a full commit
changes neither what is shown nor what is kept (`UndoesSame`).

`IdStorageProofs` proves, for every first and last id, about `CarefulSpec`:

| theorem | statement |
|---|---|
| `Invariance` | `CarefulSpec => []IInv` |
| `TypeCorrect` | `CarefulSpec => []TypeOK` |
| `Unique` | `CarefulSpec => []IdsUnique` |
| `Refinement` | `CarefulSpec => ImplementsIds`: an id is given only when it is free, and refused only when all are taken |
| `InsideArray` | `FittingLastId => (CarefulSpec => []InArray)` |
| `ForeachReaches` | `FittingLastId => (CarefulSpec => []ForeachVisitsAll)` |

Here `IInv` is the types, that no object is above `top`, that the ids in the queue, of
objects and of pending descriptors are distinct, and that together they are
`StartId .. next - 1`. The last part is what uniqueness alone lacks: without it an id
could be lost and a refusal come too early, and a new id of the counter could be one in use.

The last two need a last id for which the growth works:

    FittingLastId == LastId > 2 /\ (Below(LastId) \/ Roomy(LastId))

`Below` is one or two less than a power of two; `Roomy` is a power of two with more ids in
its upper half, and from `StartId` on, than descriptors are ever between their making and
their adding (`MaxPending`). The callers have `UT32_MAX`, `ST32_MAX`, `MAX_VOYEURS` and
0xfffe, and 0x80000000 for the files with a first id of 3. `AInv` adds which lengths the
array can have (`Length`: 0, the last id, a power of two, or one less), and, for a power of
two, that the highest id is only given out when no id waits in the queue (`HighestLast`):
then all other ids are in use, one of the upper half is stored, and the array already has its
full length (`HighestFits`). That a length holds the id follows since there is no power of
two between one and its double (`BitsSpread`). Left out is `n * 2` in 32 bits, which is 0 for
ids from 2^31 - 1 on: an array of that length does not fit in memory.

`TaskSchedulerProofs` proves, for every number of tasks and every bound on the commands:

| theorem | statement |
|---|---|
| `Invariance` | `Spec => []IInv` |
| `TypeCorrect` | `Spec => []TypeOK` |
| `Stillborn` | `Spec => []StillbornNeverRuns` |
| `Counts` | `Spec => []CountsTheInside` |
| `WaitInvariance` | `~Interrupts => (Spec => [](IInv /\ WInv))` |
| `JoinsSee` | `~Interrupts => (Spec => JoinSeesResult)` |
| `TeardownIsAlone` | `~Interrupts /\ ~Nested => (Spec => []TeardownAlone)` |

`IInv` says where in its thread a task of each state is (`Places`), that a task which was
not yet born is unlisted and untouched (`Births`), and that a doomed one keeps its break
flag until its thread looks at it (`Doom`). `WInv` says that the semaphore of a task has a
token only when the task is done or one waiter is about to post it back (`Tokens`), and that
what a waiter has in its queue was listed (`Queues`); an interrupted wait
breaks it, which is finding 3, so it needs `~Interrupts`. A wait passes, and `r_core_fini`
frees, while a task may still be between its post and its return (`PastPost`); what both
theorems say is that no task is before its post, and that none is left at all when the
threads have been joined. `Ending` says which tasks
may be left inside at each step of the quit sequence; a task that starts another breaks it
(`task.c:326`), so it needs `~Nested` too. TLC finds `TeardownAlone` violated when either assumption is
dropped.

The argument: most actions move the program counter of one thread and touch one task at
most. `WalkKeeps`, `WalkWaits` and `MainWalkEnds` are that fact for each invariant; the
actions that start a task, end one, set a break flag or pass a semaphore have lemmas of
their own.

Assumed are the named ASSUMEs of the modules, which TLC evaluates in every run: the ids and
bounds are of their kind, the values for "none" and "failed" are not maps, nodes,
references, addresses or ids, a size that is asked for is at least 1 and at most `MaxAddr`,
and an alignment is at least 1 (the code takes 0 as 1).

`NatFacts` has the least and the greatest element of a set of naturals, and that a recursive
function on them exists and is the only one with its equations; it stands for the
library's induction theorems, which take an operator.

Only model-checked: the liveness properties of `TaskScheduler`, since the prover does not
handle ENABLED and fairness. No property says that the walks of `IOBankWalks` end (the search
at an alignment above 1 need not); that none of them is stuck is what its deadlock check shows.
`CommitsAreExact` is proved and has no run: TLC checks it too slowly beside the refinement.
What the five runs that expect a violation check is false under the specification they name,
and so cannot be proved of it.

## 7. Plan

Done: maps and banks, the cache, the id storage and the scheduler, with the proofs of
section 6. Next, in this order:

1. The overlays of maps and the read and write paths of a bank
   (`io_map.c:509-771`, `io_bank.c:810-1144`), composed with `IOMaps`; the two hazards
   listed there (`io_bank.c:1117`, `:1137`) have no property yet.
2. `ThreadChannel` (`thread_chan.c`): messages, promises and their ids.
3. The red-black tree (`new_rbtree.c`): insertion and deletion against a set.
