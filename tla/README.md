# Verification of parallel_enum

`parallel_enum` lists all solutions of an enumeration problem (maximal cliques,
maximal k-plexes of diameter 2, maximal solutions of commutable systems). A
*system* presents the solutions as the nodes of a directed forest; an
*enumerator* visits that forest, with one thread, with the threads of one
process, or with the processes of an MPI cluster. The project has two halves. The
first is about how threads and processes hand each other the work, which a test
hardly reaches: the work-stealing enumerator, the barrier and the lock-free queue
it uses, and the master and workers of the distributed enumerator. The second is
about what the first takes for granted, that a system is a forest whose nodes are
the solutions: the sequential program, from the file with the graph to the items,
with its three systems, the order of the vertices and the hash set of a graph.

## The system

| Component | State | Operations | Interacts with |
|---|---|---|---|
| `Enumerable` (`enumerable/enumerable.hpp`) | none of its own | `MaxRoots`, `GetRoot`, `ListChildren`, `IsSolution`, `NodeToItem`, `CanUseRecursion` | called by the threads of an enumerator, calls them back with nodes |
| `Enumerator` (`enumerator/enumerator.hpp`) | `solutions_found_`, `tree_size_` | `Run`, `ReportSolution`, `PrintStats` | base class of all enumerators |
| `ParallelPthreadsSteal` (`enumerator/parallel_pthreads_steal.hpp`) | queues `possibleRoots` and `gnodes`, a vector `lnodes` per thread, counter `waiting`, flags `terminate` and `checkingSteal`, the call stacks | the loop of a thread, `solution_cb`, `ServeSteal`, the request for more work | its threads share everything but `lnodes`; three callbacks to `Worker` |
| `bar_t` (same file) | `spaces`, `generation` | `wait` | all threads of a process |
| `Master` (`enumerator/distributed_mpi.hpp`) | next range, states of the workers, times of their requests, last victim, count of solutions | `WaitRangeRequest`, `GetStealVictim`, `terminated` | messages to and from each worker |
| `Worker` (same file) | a `ParallelPthreadsSteal` | `MoreWork`, `CheckStealRequest`, `SendSteal` | messages to and from the master, called by the threads |
| `Sequential` (`enumerator/sequential.hpp`) | a stack of nodes, or the call stack | `RunInternal` | the system |
| `CliqueEnumeration`, `Diam2KplexEnumeration`, `CommutableSystem` and `CHSystem` (`enumerable/`) | the graph; the nodes with their candidates, excluded vertices and counters; thread-local scratch | `GetRoot`, `ListChildren`, `IsSolution`, `NodeToItem` | graphs and the containers below |
| Graphs and permutations (`util/graph.hpp`, `permute/permute.hpp`) | sorted neighbours, buckets of vertices by degree | `ReadNde`, `ReadOlympiadsFormat`, `Permute`, `DegeneracyOrder` | the systems are built on them |
| `cuckoo_hash_set` (`util/cuckoo.hpp`) | table, mask, size | `insert`, `rehash`, `erase`, `count`, `clear`, `reserve` | the neighbours of a vertex of `fast_graph_t` |
| Serialisation (`util/serialize.hpp`, members of the nodes) | arrays of numbers | `Serialize`, `Deserialize` | nodes that travel between workers |
| `moodycamel::ConcurrentQueue` (`util/concurrentqueue.hpp`, vendored) | a stream of blocks per thread, counters of claims, a pool and a list of free blocks | `enqueue`, `try_dequeue`, `size_approx` | the threads share `possibleRoots` and `gnodes` through it |
| `ui/text_ui.cpp`, `ui/stats.cpp` | flags | reading, choice of system and enumerator, printing | everything |
| `ParallelPthreads`, `ParallelTBB`, `binary_search.hpp`, bit sets, arrays, fast input | | | not modelled, see below |

What is hard here:

* threads decide from values read a moment ago (`size_approx`, `waiting`) whether
  to keep a node, to share it, to stop;
* every thread offers its work to the cluster at every node, and only one may
  answer a request;
* a thread counts itself idle at two places and busy again at two others;
* nodes of the k-plex enumeration that are handed to other threads still point to
  vectors that the thread they come from will reuse for its next root;
* a request of a worker and a steal request of the master cross;
* the master decides to terminate the cluster from what the workers told it;
* `try_dequeue` of the queue may fail although the queue is not empty;
* a solution can be reached from several nodes, and all but one must reject it, by
  what earlier siblings left in scratch or by recomputing the parent;
* the nodes of the k-plex search carry counters that are updated, not computed;
* an insertion in a full hash table evicts in a circle and rehashes under itself.

What makes each component correct: every node is reported exactly once and the
run ends only then (all enumerators); nothing is enumerated twice and nothing is
left in a queue (`ParallelPthreadsSteal`); nobody leaves a barrier early, nobody
is kept in it (`bar_t`); every worker that waits has one request under way, no
count is lost, and nobody is terminated while there is work (`Master`, `Worker`);
the nodes form a forest and the reported ones are the solutions (systems); the set
is a set at every step (`cuckoo_hash_set`); what was enqueued is dequeued once, from
a slot nobody else uses (the queue).

## Modules

| Module | What it is |
|---|---|
| `Forest` | A system as an enumerator sees it: root ids, nodes, `Kids`, `Solution`. A *frame* is one call of `GetRoot` or `ListChildren`. `ForestAssumption` is the contract of the interface. |
| `Enumeration` | The abstract specification of every enumerator: nodes below the roots are reported, in any order, and the run finishes when all were. |
| `WorkSteal` | `ParallelPthreadsSteal::RunInternal` with its threads, in one process or as a worker of the cluster. |
| `Rendezvous` | What `barrier.wait()` promises. |
| `SpinBarrier` | `bar_t` with its two counters. |
| `DistributedMPI` | `Master` and `Worker` with the messages between them. |
| `ConcurrentQueue` | The queue: enqueue, try_dequeue, size_approx, access by access. |
| `WorkStealQueue` | `WorkSteal` with that queue, access by access, behind the set `gnodes`. |
| `FastGraph` | A graph as it is read, built and permuted. |
| `DegeneracyOrder` | The loops of `DegeneracyOrder`, with the buckets, degrees and positions as state. |
| `Clique`, `Diam2Kplex`, `Commutable` | `GetRoot`, `ListChildren` and the rest of the three systems, as operators. |
| `Serialization` | Nodes as arrays of numbers, and back. |
| `Stats` | The size of a root's block, which `stats` computes with a copy of the code of the k-plex search. |
| `Sequential` | `Sequential::RunInternal`, with a stack or with recursion, over any system. |
| `EnumerateSystems` | The program: a file is read, the vertices are ordered, a system is made and run. |
| `VertexSet`, `CuckooSet` | What a set promises, and `cuckoo_hash_set`. |
| `WorkStealMC`, `WorkStealQueueMC`, `DistributedMPIMC`, `EnumerateSystemsMC` | The forests, graphs and flags of the runs. |
| `SpinBarrier_proofs`, `WorkSteal_proofs`, `WorkStealQueue_proofs`, `CuckooSet_proofs`, `DistributedMPI_proofs`, `Sequential_proofs`, `Systems_proofs`, `EnumerateSystems_proofs` | Theorems and their proofs. |

`WorkSteal` and `DistributedMPI` EXTEND `Forest` and implement `Enumeration`
(`E == INSTANCE Enumeration WITH ...`); `SpinBarrier` implements `Rendezvous` and
`CuckooSet` implements `VertexSet`. `WorkStealQueue` EXTENDS `WorkSteal` and takes
`ConcurrentQueue` by INSTANCE; `EnumerateSystems` EXTENDS the systems and takes
`Sequential` by INSTANCE, with the systems' functions for its constant operators.

### WorkSteal

An action is one access to shared state together with what the thread does on
its own after it; `pc[t]` names the next one. The loop of `worker_thread` is
`Outer`, `PickLocal`, `DequeueRoot`, `NoOwnData`; the waiting loop (lines
248-261) is `StartWaiting` to `LeaveIdle`; the request for more work (267-312)
is `EnterMoreWork` to `Barrier2`. `solution_cb` is `CallBack`, the actions of
`ServeSteal`, then `ReadSize`, `DecideShare` / `KeepLocal` / `Recurse`, `Share`,
and `ReportSolution`. The call stack of a thread, which recursion makes as deep as
the forest, is a set of frames, `path[t]`: frames of a forest that are on one
stack lie on one path, so the order is implied. `todo[t]` holds what those
frames have still to call back with.

What is abstracted, and why it may be:

* The order of `possibleRoots`, `gnodes` and `lnodes` is left open. No property
  depends on it, and moodycamel's queue promises none between producers.
* `gnodes` is a set, and its operations are what the vendored queue's comments
  promise and no more: `try_dequeue` takes any node, and may fail at any time,
  whether a node is there or not (`DequeueFails`); `size_approx()` returns any number up
  to that of the nodes (`ReadSize`). The history variable `missed` remembers whether
  a thread's last `try_dequeue` failed with a node there, in a process without callbacks;
  no action reads it. `QueueImplements` proves that the queue's own accesses do no more.
* For `possibleRoots` a failing `try_dequeue` means that all roots are taken: nothing is
  added while threads take from it, so a claim is void only when the elements before
  the tail are all claimed. Between the two barriers no thread is in a queue, and
  the sizes that `CheckEmpty` reads are exact.
* `gnodes.size_approx()` and `waiting` are read in two steps and the node is
  enqueued in a third; `possibleRoots.size_approx() && OpenRoot()` is one step:
  the size only saves a call of `try_dequeue`.
* All callbacks return true, as `solution_cb` does.
* A node is a name. The one fact about its representation that is kept is
  `block`: the thread whose `thread_local` vectors it points to (`GetRoot` of
  `Diam2KplexEnumeration`, and `ListChildren`, which lets children share them). A
  node that arrives by a message has vectors of its own.
* `barrier.wait()` is the abstract barrier, in which all threads leave in one
  step. In the code they leave one by one; what a thread does after it left
  commutes with the others leaving, as those touch only the barrier.
  `SpinBarrier` shows that `bar_t` is such a barrier.
* The rest of the cluster is the environment: it holds `extWork`, enumerates it
  (`EnvWork`), and asks for work (`EnvSteal`). It answers with work it has, and
  with termination only when no work is left: this is what `TerminationSafe`
  of `DistributedMPI` shows of the real master.

### DistributedMPI

The master is in `MPI_Recv` of a request (`recv`), in the loop of
`WaitRangeRequest` (`steal`), or waits for its victim (`reply`). Its actions are
the branches of `WaitRangeRequest`. `Run` begins each call of it with a new
range; the model computes that range when the request arrives (`RangeBegin`).
Times of last requests are only compared, so `lastRequest` keeps their ranks: zero
for a worker that never asked, 1 for the one that asked longest ago. Channels are FIFO for each pair of processes, as MPI
promises, and sends are buffered. A worker is a pool of roots and nodes;
`WorkSteal` justifies what the pool does: it gives away some roots if it has any
and one node otherwise, it answers a steal request after some frame was begun,
and it asks for more work when nothing is left.

The build of `build.sh` is a Release build: `assert` does nothing. Where the code
then reads a variable that was never written (`mwd.range` in `Worker::Run`) the
worker becomes `undefined` and does nothing more.

### ConcurrentQueue and WorkStealQueue

Each thread that enqueues owns a stream of blocks; a thread that dequeues looks for
the largest of the first three streams that are not empty (`StartScan` to
`ScanEnd`), claims an element there and, if that fails, tries the others
(`TryNext`). The claim is the heart of it (`concurrentqueue.hpp:2476-2545`):
`LoadTail` and `LoadOvercommit` read two counters, `Check` compares, `Claim` adds
to `dequeueOptimisticCount`, `Recheck` compares again with what it got, and then
the thread either takes an index (`TakeIndex`), moves the element out (`Take`),
counts the slot as empty (`SetEmpty`) and gives the block back if it was the last
(`GiveBack`), or counts its claim as void (`Undo`). Every access to shared memory
is an action. `WorkStealQueue` runs the threads of `WorkSteal` over it: `size` of
`solution_cb`, `share` and `spin` become several steps each, the rest is as it was,
and `gnodes` stays as the set of what was enqueued and not yet returned.

Left out: accesses take effect in the order of the code (the memory orders of the
code are not modelled); indices do not wrap around; the list of free blocks and
the index of a stream's blocks are one step each, so a new block may always be
allocated, as a thread that is just giving one back may not be done; the table of
producers does not grow and no producer is recycled. `MaxBlocks` bounds the blocks
made; three are as many as the four nodes of the run can ever need.

### The systems

A graph is a function from vertices to ascending sequences of neighbours. `File`
writes the input file as its format prescribes it, and `ReadNde`,
`ReadOlympiadsFormat` and `ReadEdgeList` read it as the code does: both directions
of an edge, loops and repetitions removed. The loops of `DegeneracyOrder` are actions
of that module, one turn of a loop each: `PushVertex`, the search for a bucket that is
not empty, the vertex taken from it, and for each of its neighbours `SkipUsed` or
`LowerDegree`. `EnumerateSystems` takes them as `OrderVertex` before it makes the
system, so that the invariant of the buckets is checked between turns. The systems are pure functions: `CliqueRoot`, `CliqueChildren` and
their like yield the sequence of nodes the code calls back with. Scratch that each
call clears is the value of a LET. `Sequential` walks them: an action is one
call of `GetRoot` or `ListChildren`, or one node reported.

`Diam2Kplex` keeps the members of a node (`sub`, `kplex`, `cands`, `excluded`,
`counters` of one byte, `non_neighs`); `status` repeats what the sequences tell.
`Commutable` is the class with its one subclass in the repository, `CHSystem`; the
hereditary property that users of the class supply is external: the runs take
bipartite subgraphs and 2-plexes. The reference definitions (`Solutions` in
`EnumerateSystems`: maximal cliques, maximal k-plexes of diameter 2 with at least q
vertices, maximal connected good sets) quantify over all sets of vertices of the
input file and share nothing with the code.

### CuckooSet

The private `insert` and `rehash` call each other; what the calls on the stack have
still to insert is one sequence, `todo`, whose head is the element in hand. A step is
a placement, an eviction, the allocation of a larger table, or a free slot skipped.
Elements that share their low bits lie in the same two buckets until the mask tells
them apart.

## Runs

| Run | What it checks | Instance |
|---|---|---|
| `local` | `ReportedOnce`, `NothingLeftBehind`, `Enumerates` | 3 threads, no recursion, 2 roots, 4 nodes, threads symmetric |
| `worker` | `TypeOK`, `OneInMpi`, `ProbeStillTrue`, `WaitingExact`, `NoBufferReuse`, `NothingTwice`, `CountConserved`, `Enumerates`, `Termination`, `StealAnswered` | 2 threads with callbacks and recursion, two roots here and one elsewhere, 3 nodes, fair |
| `barrier` | `TypeOK`, `ImplementsBarrier`, `Released` | 4 threads, counters of 3 bits |
| `distributed` | `TypeOK`, `RequestsBalanced`, `MessagesExpected`, `TerminationSafe`, `CountConserved`, `WorkUnique`, `Enumerates`, `Ends` | 3 workers, 7 roots in ranges of 2, 3 nodes, fair |
| `queued` | `QueueTypeOK`, `ClaimsCovered`, `SlotsClaimedOnce`, `BlocksApart`, `NodesInQueue`, `Termination` | 2 threads, 4 nodes, blocks of two, fair; about 380,000 states |
| `systems` | `EachSolutionOnce`, `NodesFormForest`, `BucketsAgree`, `KplexNodeSound`, `NodesTravel` | all graphs of 3 and 4 vertices and many of 5 and 6, for the three systems; about 225,000 states |
| `cuckoo` | `CountExact`, `StoredOnce`, `NoNestedRehash`, `ImplementsSet`, `InsertReturns` | elements 1, 6, 9, 14, 17, buckets of two; about 23,000 states |
| `few_roots`, `late_worker`, `self_steal`, `small_q`, `left_behind` | one disagreement each, see *Findings* | 2 workers and 1 or 4 roots; a path of 4 vertices; the instance of `queued` |

Why the instances are large enough. Three threads are the fewest with which one
thread shares, one takes and a third runs into both; two suffice for the worker,
where one serves a steal and another waits or works. The forests have a root with
a path of three frames (a node is shared by a thread that has itself a shared
node) and a node with two children (one kept, one shared). In `worker` two roots
start here, so that one is left to give away while a thread works on the other,
and one starts in the rest of the cluster, so that the worker is answered with
roots, with subtrees and, at the end, with termination. Seven roots in ranges of two make
three full ranges and a short one. In `barrier` a generation of 8 wraps around.
Nothing else is bounded there: counters stay finite because the forest is.

In `queued` four nodes in blocks of two fill a block, empty it and use it again
while the other thread may still be in it, and two threads suffice for a late claim
that must be undone. In `systems` all labelled graphs of four vertices make
each search branch, exclude and prune in every order of the vertices; the graphs
of six vertices are there because on fewer a clique is never reached from two
parents that only `bad_bitset_` tells apart, those of five for q = 4 and for k = 3.
Untidy input (an edge in both directions, one twice, a loop) and the other format,
one-based, are two more graphs. In `cuckoo` five elements share one pair
of buckets of two at every mask up to 7 and overfill it, so that insertions evict,
go round in a circle and rehash up to four times; `MaxSize` bounds `sz`, which `clear`
does not reset, by six, so that a full table is cleared and filled again.

Every property is broken by at least one mutant of an action, written next to the
action it changes (`...Mutant of` in its comment) and used by no specification.

## Fairness

Weak fairness of every thread, process and of the barrier: the operating system
runs them. In `worker`, strong fairness of `Answer` or `DequeueNode`, by whichever thread: of
those a thread waits for that are possible again and again one happens in the end, and as
there is work for finitely many only, none is put off forever. `Answer`: steal requests
of the master may cross a request for work again and again in that model, where the
environment asks whenever it likes; the real master sends at most one steal
request per worker before it handles the worker's own request, and answers it.
`DequeueNode`: in `WorkSteal` a `try_dequeue` may fail
with a node there, and one that failed forever would keep the threads of a worker
from asking for more (between the barriers a node is seen, so they go back to look for
it). In the code it fails early only while another thread has a claim open that it will
undo, and that thread, fairly run, undoes it; `queued` shows `Termination` over the real
queue with the fairness of the threads alone. A
thread that spins for the flag or for a node does not need fairness of its own:
nothing waits by blocking. In `distributed` no fairness is needed besides that of
the processes, in `queued` none besides that of each thread. `CuckooSet` assumes that
an insertion runs on once it was called. `EnumerateSystems` states no liveness: its
invariants speak of the end of each run, and that no node is visited twice bounds it.

## Theorems

`SpinBarrier_proofs`. `BarrierType` and `BarrierRefines`: for any number of threads
and counters of any width that can count them, `Spec => ImplementsBarrier`.
`TypeOK` is not inductive (`spaces` could fall below zero). `BarrierInv` adds: a
thread about to arrive has read the current generation; while nobody opens the
barrier, `spaces` counts the threads that have not arrived; while somebody does,
all other threads spin on the current generation, so it can reset both counters
in two steps under nobody's eyes. Each step then maps to a step of `Rendezvous` or to
a stutter: `Arrive` to `Arrive`, `Bump` to `Release`.

`WorkSteal_proofs`, for any forest, threads, with and without callbacks and
recursion. The inductive invariant `IInv` has four parts. `TypeInv` joins to
`TypeOK` what a thread at each place has in hand: a node that a frame of its stack
called back with, or none and an empty stack (`Control`); without it a thread
might share, keep or report `dummyNode`. That a frame which returns to
`solution_cb` is a node needs that stacks are chains (`ChainTop`), which uses that
the forest has no cycle. For the other three, each action is shown to have only
small effects (`Effects`): it moves no other thread; it changes `waiting` exactly
when its thread enters or leaves `Counted`; it takes `checkingSteal` only when it
is clear and clears only its own; it receives a steal request only while it
holds the flag. From these follow `Types`, `OneThreadInMpi`, `RequestIsThere` and
`WaitingCounts`.

The second part of that module: `NothingIsDoneTwice`, `Spec => []NothingTwice`. The
strengthening `PlaceInv` follows each frame from its parent's call to its own: it
is in the queues, in the rest of the cluster, with one thread, or begun, and in
one of these only (`Apart`); in a thread it is in one variable only (`Tidy`);
and while a frame has not begun, what it will call back with is nowhere (`Unborn`).
Every action either moves frames between places (`Moves`) or begins one
(`Begins`), and both keep `Apart` and `Unborn`.

The third part: `ReportsHappenOnce` and `CountIsConserved`. Who reports a
node is not who begins it: a shared or stolen node is begun elsewhere and reported by
the thread that was called back with it. `ToReport(t)` is what thread t will
report: what its frames have still to call back with, its frames that another of them
called back with, and the node in its hand. `ReportInv` says that these are apart from
each other and from what was reported, and apart from what frames that have not
begun would call back with (`Once`). Every step carries these sets on, begins one
frame, which `PlaceInv` shows is begun only once, or reports one node (`Progress`). For
the count, between the two barriers all threads are together (`Together`), so that
none reports while one asks for work, and `OneInMpi` leaves one that asks; every step
does one of four things to the sum (`Ledger`).

The fourth part: `BuffersAreNotReused`, `Spec => []NoBufferReuse`. `GetRoot`
overwrites vectors that nodes still in use may point to, and no line of the code tests
that none does. The invariant behind it is `AtHome`: while roots are left, no thread
has been idle in this round (`FoundNone`), so `waiting` is zero, nobody shares, and
every node points to the vectors of the thread it is in. A thread that then opens a
root has no node, and neither has the queue. New roots come only as an answer, when the
queues are empty (`AskEmpty`) and all threads are between the barriers without a node
(`EmptyHanded`). `Buffers` says what a step does to nodes and vectors; `FreshNodes`, that
the vectors it writes belong to nodes nobody has yet, rests on `PlaceInv` and
`ReportInv`. The argument needs that a thread finds no root only when none is left. The
shared queue keeps that for roots, in spite of what `left_behind` shows for nodes:
nothing is added to `possibleRoots` while threads take from it.

The last part: `NothingIsLeft`, `Spec => []NothingLeftBehind`, and
`ThreadsEnumerate`, `Spec => Enumerates`, both over a queue that may fail early. What
holds then differs. A worker stops only when every node below the roots was
reported, however often `try_dequeue` failed. A process without callbacks may leave
a node in `gnodes` (`left_behind`); what is proved of it is that this is all that can go
wrong: a node is left only if the last `try_dequeue` of some thread missed one, and only
what is below such nodes is missing; if none is left nothing is. `Finished` of `Enumerates` says
so. The invariant has three parts. `StopInv` is
what threads that stop on what they read rely on: without a cluster, while there are nodes in
the queue some thread is `Active`, that is, will call `try_dequeue` again before it
stops, or has `missed` one, as a thread ceases to be active only when `try_dequeue` fails and
only active threads fill the queue; and `terminate` is set only by a thread that found no root.
In a worker, `terminate` is set by the thread that asked, with the queues and the cluster
empty and all threads between the barriers, from where they only return. `Complete`: the
roots, and what a frame that began called back with, began or are pending, and the
latter was reported or is due. `Sound`: all of that is below the roots. Each step is
shown to keep what is pending and due (`Lasts`, `Owes`); with what `NothingIsDoneTwice` and
`ReportsHappenOnce` need, every step `Grows` the enumeration and nothing else. When all
threads are done nothing is due and only what is in `gnodes` is pending (`DonePlaces`): every
root, and every node reported that is not left there, began, so what it called back with was
reported; with `gnodes` empty the nodes reported are closed under `Kids`.

`WorkStealQueue_proofs`: `ClaimsAreCovered`, `QSpec => []ClaimsCovered`, for any forest,
threads and size of blocks. Two facts are needed besides the types of the locals
(`LocalsInv`). `Balance`: in each stream `dequeueOptimisticCount - dequeueOvercommit` is
`headIndex` plus the threads with an open claim. That no index beyond the tail is
taken is not inductive by itself, as a claim is checked against an overcommit that may
be old. `Enough` generalises it to every bound: for any T not below the tail, `headIndex`
and the claims that would be made good against T (`Sure(p, T)`) do not exceed T.

In the same module, on top of it and of the threads' own invariants, for blocks of any
size: `QueueTypesKept`, `SlotsAreClaimedOnce`, `BlocksStayApart`, `NodesStayInQueue`. A
thread that took an index works on its slot long after `headIndex` has moved on; nothing
in the code tests that the block is still the same one. `BlockInv` is why it is.
`OneTaker`: no two threads have the same index. `Emptying`: the counter of a block is the number of
its elements that were taken and counted by `set_empty`, so it cannot reach the size of
the block while a thread is still in a slot, and one thread only sees it full (`OneGiver`)
and gives the block back. `Filled`: a slot holds an element exactly from `Publish` to `Take`.
`InOnePlace`: a block is in one stream, once, or free, which `NewBlock` keeps as it takes
blocks that are free or were never made. `ClaimsCovered` is needed throughout: an index that was
taken is below the tail, hence in a block of the stream (`TakerPlace`). `Contents` says that
a node is in one slot or on its way out with one thread; that `Publish` keeps it is where the
threads come in: a node that is being shared is not in the queue yet (`Apart`). So the
induction is over `SystemInv`, threads and queue together. `QueueImplements`, `QSpec => Spec`,
maps each access of the queue to a step of `WorkSteal` or to none, so what was proved of the
threads holds over this queue, whose size may be wrong and whose `try_dequeue` may fail too
early: `QueuedNothingTwice` and `QueuedReportsOnce` (what `left_behind` loses is lost, not done
twice), `QueuedNothingIsLeft` and `QueuedEnumerates`.

`CuckooSet_proofs`, for any elements and size of bucket: `CuckooStoredOnce`,
`CuckooCountExact`, `CuckooIsASet` (the refinement of `VertexSet`). Their invariant
says that the table has the size its mask tells, that each element of the table lies
in a bucket one of its hashes names under that mask, and that no element is in two
slots or twice in `todo`; the lemmas are arithmetic of buckets, which do not overlap.
`CuckooRehashOnce` (`NoNestedRehash`) needs a count besides, `RehashFits`: while rehash
runs, at most `2 * BucketSize` elements are `Due` in any pair of buckets, those stored
and those still to be inserted again together. It holds when rehash begins, since
a hash under the doubled mask is the old hash or lies a whole old table further
(`Doubled`), so that what is due in a pair comes from one pair of the old table. The
element in hand is itself due, hence the others leave one of the slots free
(`RoomLeft`, by the pigeonhole principle).

`DistributedMPI_proofs`, for any forest and any number of
workers and roots. Three inductive invariants, all of which TLC checked first. `Inv` is
about messages.
For each worker `Exchange` lists the shapes that its two channels can have: a request
only while it waits, a steal's answer only as the first message while the master
waits for it, a batch of work only while the worker waits and nothing is on its way to
the master, and steal requests anywhere; `Balanced` counts them. The count alone is not
inductive: whether an answer may be received depends on what stands before it. Once
the master told a worker to terminate, `Over` takes its place: nobody has work, and what
is left in the channels carries none. `MasterInv` adds that the master has no range left
once some worker waits. From these follow `TypesAreKept`, `ReceiversExpect` and
`TerminationLeavesNoWork`. With at least one root and fewer roots than workers, all
ranges are empty and the master terminates workers and goes on (`few_roots`):
then `Barren` holds instead of the exchange, no worker ever gets work. `OneRequestEach`
and `EnoughRootsEndMaster` are false in that case and have `EnoughRoots` as a
hypothesis; the other theorems need none.

`WorkInv` is about frames. A place is a worker, one of its channels, or the roots not
handed out. `HeldOnce`: a frame is in one place at most; `Fresh`: nothing below a frame
held was reported; `Complete`: a root or a reported node is in some place or called back
all its children, unless some worker is undefined (`late_worker`). Each step moves
frames from one place to another (`Moved`), leaves them (`StillHeld`), drops those of a
late first answer (`Lost`), or begins one (`Expanded`): `StepMoves`. `FramesAreHeldOnce`
is the first part. For `ClusterEnumerates`, `Expanded` maps to `Report` of `Enumeration` (or
to no step for a frame without children), and when every process has returned no place
holds a frame, so what was reported is closed under `Kids` and is all.

`CountInv` is about solutions, for `SolutionsAreCounted`. A step
of the master or of a worker either moves solutions between the worker, its channel and
the master (`Kept`), or is an `Enumerate`, whose solutions are new by `Fresh`. That a worker
resets `found` when it is answered loses nothing, since it has sent it before or, at its
first request, has none (`NothingFound`). That the master has all of them when it ends
needs the order of a channel: a request that is sent again carries none and stands
behind the one that does (`CountFirst`), so once the master takes a worker for waiting
nothing is left to count. `SumOver` is the cardinality of a set of pairs and not
a recursion, so that the lemmas on sums (`SumUpdate`, `SumLast`, `SumFirst`) follow
from those on finite sets without induction.

`Sequential_proofs`, for any system whose functions list a forest, each child of a frame
once and in any order (`Forested`, the contract of the interface): `SequentialReportsOnce`
and `SequentialEnumerates`, the refinement of `Enumeration`, with the stack and with
recursion. The two ways differ in when a node is reported: one on the stack of nodes was
reported when it was pushed, one that a call has still to call back with was not
(`Once`). `KnownFromExpanded` speaks of both: the nodes reported or pending are exactly
the children of the frames that are `Expanded`. As the children of two frames are
disjoint, a frame that is expanded next calls back with new nodes only; when nothing
is left, the nodes reported are closed under `Kids`. That the systems of the repository
are forests is what `NodesFormForest` checks on graphs; for cliques and k-plexes the
next two modules prove it, and also what is in `found`.

`Systems_proofs`, first about cliques, for any simple graph: `CliqueForest` and `EachCliqueOnce`, about the
operators `CliqueRoot` and `CliqueChildren` alone. A node is a clique and `cand`, the
vertex it was reached by. `Greedy(g, K, D)` says without the loop that `D` is what
`CompleteSmallest` makes of `K`, adding again and again the least vertex that can be:
any other vertex adjacent to all of `K` is kept out by a smaller one of `D`. The `cand`
of a maximal clique is the least of its vertices such that those up to it already
complete to the clique (`IsCand`). So every maximal clique has one `cand`, which is why
each is in exactly one node; and what the clique has in common with its parent's is
fixed by it, which is why a node is listed by one call only. What the three tests of
`RejectedBy` leave is shown to be these children (`RootListed`, `ChildrenListed`). A
child's `cand` is greater than its parent's, so nothing is below itself and every node
is below a root. Loops of the code are recursive functions;
what they compute is proved by taking the least index at which it would be false
(`LeastNat`), as the library's induction theorems are out of reach.

Then about the search for k-plexes, for any simple graph, any k and q, with and without
pivots: `KplexRootFacts` and `KplexChildrenFacts`. `KplexNodes(s)` are the values that are
nodes as they should be: types, a subgraph as large as `RootSize` says, and, as long as
one-byte counters can count the subgraph, `KplexSound`: each counter counts the vertices
of the kplex that are not adjacent (`Counted`), the kplex is one (`IsPlex`), and candidates
and excluded vertices are disjoint and together what can be added (`CanJoin`). What a root
lists is such a node and begins with that root; what a node in `KplexNodes` lists are such
nodes on the same subgraph, whose kplexes extend its own (`Longer`) and differ in the first
vertex after it. That counters stay right is shown for one addition (`CountMakes`) and for
the sequence of them (`Grown`); that the test `CanAddVertex`, which reads counters, answers what
`IsPlex` says is the step from counters to sets; that a candidate that was dropped
can never be added again is that k-plexes are closed under subsets. Two nodes below one
another have the same subgraph and one's kplex is a prefix of the other's (`Descends`).
`Disjoint(C, V, r)` is the invariant of the recursion, of what the calls have still to call
back with (`C`) and what was visited (`V`): no two of the former are below one another and
none of them is above one visited. `TakeDisjoint`, `VisitDisjoint` and `FrontDisjoint` are
its steps. This holds whatever `GetCands` chooses and in whichever order, so the pivot, the
universal vertices and the sort matter only for what is left out, not for repetitions.

That nothing is left out is proved of what a node may still become: `Covers(x, T)` says that
the set of vertices `T` is the kplex of the node `x` and some of its candidates. `Sought` are
the k-plexes of diameter 2 with at least q vertices to which nothing can be added in the
subgraph. With a pivot, a node goes only to the candidates that are not adjacent to the
pivot or to one of its non-neighbours in the kplex (`NotCuts`); every sought set covered by
the node has one of them, since otherwise the pivot could be added to it (`PivotMeets`).
The first one in the order of `GetCands` names the child that covers the set, since the
children after it exclude it, those before it have a vertex the set has not: it is
covered by exactly one child, or is the node's own kplex. `KidsAddFacts` shows this also
for universal vertices, which are in every sought set, and for the nodes at which
`ListChildren` returns at once. What a root drops from its subgraph has too few neighbours
there to be in a k-plex of q vertices (`FilterKeeps`, `SecondKeeps`), so the root of the
least vertex of a k-plex covers it (`RootCovers`).

`IsReallyMaximal` decides what is given to the callback. What it accepts has diameter 2,
also where `HasDiameterTwo` does not look at edges (`SolutionWide`), and no larger k-plex of
diameter 2 contains it, although it tries only vertices before the root, and of those
only the neighbours of the first k vertices (`NothingJoins`, `NothingBefore`): `SolutionWanted`,
for every k and q. Conversely it accepts each k-plex that is `Wanted`, maximal among
those of diameter 2 (`WantedSought`, `WantedAccepted`, and `CoverKidsFacts` for a node and
its children), if `Enough(s)`: k is at most 2 or 2k <= q + 2. Otherwise a vertex may be added
to such a set that makes a k-plex but not one of diameter 2, and the test rejects the set:
this is the finding of `small_q`.

`EnumerateSystems_proofs`: the program from the file to the callback.
`BucketsAlwaysAgree`, `Spec => []BucketsAgree`, and `OrderIsPermutation`: any file, any choice
of the system. `FileFacts` shows that what is read from a file in either format is a
simple graph in which `are_neighs` is `Joined`, whatever the repetitions, loops and order
of the pairs in it. `OrderInv` is the invariant of `DegeneracyOrder` at every turn of
every loop: a vertex left is at its position in the bucket of its degree, no bucket
holds anything else, the degree is the number of neighbours not taken, except that
while neighbours of the vertex just taken are still to be visited it is one more for
those (`NotLowered`), and no bucket below j holds a vertex, or below j - 1 while
neighbours are lowered. That the search for a
bucket stays within `d`, and that each vertex taken had the least degree of those left
(`LeastFirst`), follow from it.

For `NoCliqueNodeTwice` (`NodesFormForest`) and `EachMaximalCliqueOnce` (`EachSolutionOnce`),
both for cliques, the permuted graph is again simple (`PermuteFacts`). `Visiting` is the
invariant of the search with its stack: the nodes visited are, each once, what the roots
begun and the nodes visited but no more on the stack have listed; those reported are the
ones visited (`Reported`). As no node is its own descendant, at the end every node was
visited (`AllReached`), so by `EachCliqueOnce` the items are the maximal cliques of the
permuted graph; `NamedFacts` and `SolutionsAreCliques` take these to the sets of vertices
of the file that `Solutions` names, and a bijection gives that the numbers of both are
equal. Nothing in the theorem refers to the order, so it holds for whichever vertex of a
bucket is taken.

`NoKplexNodeTwice` (`NodesFormForest` for k-plexes) and `KplexNodesSound`
(`KplexNodeSound`) take what `Systems_proofs` says of one call through the recursion:
`KplexSearched` adds to the invariant that all nodes are in `KplexNodes` and that
`Disjoint` holds. `SubNames` and `PlexNamed` take adjacency and k-plexes of a subgraph's
indices to the vertices of the file. The second has the hypothesis that the graph has fewer
than 256 vertices: with more a one-byte counter can wrap around to a value that is not the
number of non-neighbours. The first has none: the wrong counters of a larger graph may
lose or add k-plexes but cannot make the search visit a node twice.

`KplexItemsAreSolutions` and `EachMaximalKplexOnce` (`EachSolutionOnce`) say what `found` holds
when k-plexes are searched for, again for fewer than 256 vertices. `Shares(s, P, V, r)` is the
invariant of the recursion about the nodes `P` still to be visited, those visited (`V`) and
the roots before `r`: no set is covered by two nodes of `P`, none of them covers the k-plex
of one visited, and each wanted k-plex with a vertex before `r` is covered by one in `P` or is that of an
accepted one in `V`. `Gathered` says that `found` has the k-plexes of the accepted nodes of
`V`, each once. `KplexFound` is both, for the pending nodes of the recursion. At the end
`P` is empty and `r` is behind the last root. `NamedPlexes` and `WantedNamed` take `Wanted`, of the
permuted graph, to `Solutions`, of the file. The first theorem, that every item is a
maximal k-plex of diameter 2 and none is there twice, holds for every k and q and at
every moment, not only at the end; the second, that none is missing, has
the condition `Enough` on k and q, written out.

`NodesArrive` (`NodesTravel`, for cliques and k-plexes) rests on the last part of
`Systems_proofs`. `Reads(Des, part, x)`: whatever follows `part` in an array, `Des` reads `x` and
leaves the rest. It is shown for numbers and bytes, goes from the elements to a vector
(`VectorReads`, with what remains of the array after each turn) and from the parts to
pointers, pairs and the eight members of a k-plex node (`KplexArrayReads`); an array that
has nothing after it is then used up (`AllRead`). The counters need that they are below 256,
which `KplexTypes` says of every node.

The proofs rest on the assumptions on the constants and on `Forested` only (`ForestAssumption`,
`DistributedAssumption`, `WorkStealAssumption`, `LocalAssumption`, `SpinBarrierAssumption`,
`TasksAssumption`, that the input file is what its format says and that k is not
zero, and those of `CuckooSet`), which TLC evaluates in the runs.

Model-checked only: `EachSolutionOnce`, `NodesFormForest` and `NodesTravel` for `Commutable`,
whose `Complete` is a recursion that ends only because sets grow; and liveness (`Termination`, `StealAnswered`, `Released`, `Ends`, `InsertReturns`).

## Findings

* `few_roots`: with fewer roots than workers nothing is enumerated and the master
  never returns: the loop of `Master::Run` ignores that `WaitRangeRequest` has
  terminated everyone (`distributed_mpi.hpp:259`, comments at 129, 231 and 284).
* `late_worker`: a worker whose first request comes after the ranges are gone is
  answered with stolen work or termination, against the comment at
  `distributed_mpi.hpp:384` and the assertion at 386; the work is lost.
  `distributed` checks `Ends` and `Enumerates` with this outcome: such a run does not
  finish.
* `small_q`: with `-k 3 -q 2`, the flags of the example in the repository's README
  (line 93), the maximal 3-plexes of diameter 2 of a path of four vertices are not all
  listed: `IsReallyMaximal` (`diam2kplex.hpp:347`) rejects a set when any vertex
  can be added to it as a k-plex, also when the larger set has no diameter of 2.
  `systems` takes q = 4 for k = 3, where the two agree.
* `left_behind`: a thread takes a failing `try_dequeue` for "no more data"
  (`parallel_pthreads_steal.hpp:253` and 263), but a claim of another thread that is
  about to be undone makes it fail although an element is there
  (`concurrentqueue.hpp:1042` says so). Both threads then stop with a node in the queue
  (`NoMoreData` is false), and what is below it is not enumerated.
* `self_steal`: the assertion `victimId != stealerId` (`distributed_mpi.hpp:165`)
  fails; without assertions the steal request is dropped and nothing is lost, as
  `distributed` shows.

## Not modelled

* `ParallelPthreads` and `ParallelTBB`: the user interface makes neither, and the
  second is not compiled.
* `binary_search_t::count`, which only `graph_t` without fast look-up calls; the program
  builds `fast_graph_t`.
* The static partition (`rootsPerNode == 0`) of the distributed enumerator: every rank
  enumerates its own part with a `ParallelPthreadsSteal` that `WorkSteal` models, with
  no messages. There `PrintStats` of rank 0 prints the count of rank 0 only.
* Start-up and shut-down of MPI. Sends that block until they are received: MPI allows
  this also for short messages; then a `STEAL_REQUEST` that crosses a `RANGE_REQUEST`
  would block both sides.
* The queue's producers with tokens, bulk operations, destruction, the growth and
  recycling of producers, the inside of its free list, weak memory orders.
* Copying, moving and serialising a hash table or a graph; iteration over a table.
* `RandomOrder`, labels of vertices, 64-bit vertices, flags, timing, the wording of
  statistics, and the numbers in which solutions are printed (those of the permuted
  graph).
* Bit sets, dynamic arrays and fast input: containers and I/O without control of their
  own.

## Plan

Done: all modules above; theorems on types, the flag, the counter, `NothingTwice`,
`ReportedOnce`, `CountConserved`, `NoBufferReuse`, `NothingLeftBehind`, the barrier, the
queue's claims, slots, blocks and contents and that it does what `WorkSteal` asks of it, the hash set and its rehash, the protocol of the cluster,
`Enumerates` of threads, cluster and `Sequential`, the degeneracy order, the
enumeration of maximal cliques and of maximal k-plexes from the file to the callback,
the nodes of the k-plex search, and nodes as arrays.

Next, proofs: the forest of `Commutable`, by induction on the sets that `Complete` grows;
and of the k-plexes with 2k > q + 2, which ones are missed.
