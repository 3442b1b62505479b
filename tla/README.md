# A specification of signals3

signals3 is a header-only signals/slots library. Slots are kept in a list
that threads change under a mutex and that emissions walk *without* it. This
directory holds TLA+ models of that design, TLC configurations that check them
on small instances and proofs, checked by TLAPS, of what holds for every
instance. Paths below are relative to `src/boost/signals3/` unless they name
the README or a test.

## 1. The system

| component | state | operations | how it interacts |
|---|---|---|---|
| node word, `detail/node_base.hpp` | one atomic int `_unusable`: the net count of `block()` calls, or the sentinel -0xFFFF once disconnected | `block`, `unblock` (compare-and-swap loops), `mark_disconnected` (exchange), `blocked`, `connected`, `usable` | read by emissions, written by connections and by whoever disconnects |
| slot list, `signal.hpp` 85-563, 573-977 | `_mutex`, `head`, `tail`, `group_head` (shared_ptr), `group_storage` (multimap of weak_ptr); per node `next` (shared_ptr) and `prev` (weak_ptr) | `push_back`, `push_front`, `insert` and `_extended` variants, `disconnect`, `pop_back`, `pop_front`, `clear`, `erase` | all take `_mutex`; they store `head` and `next` atomically because emissions read them |
| emission, `signal.hpp` 979-1141 | a shared_ptr to the current node, the list of locked objects | `emit`, `iterator::operator*`, `operator++` | loads `head`, `next`, `_unusable` without the mutex; disconnects expired slots with it |
| unsafe handles, `signal.hpp` `*_unsafe`, 1144-1219 | the same list | the same operations without mutex and atomics, `unsafe_iterator` | for a single thread, whose slots call back |
| connection, `connection.hpp` 28-169 | raw `_sig`, weak `_node` | `disconnect`, `block`, `unblock`, queries | locks its node, then calls the signal or the node |
| scoped connection, `connection.hpp` 171-220 | the same | assignment, `release`, destructor | disconnects; may be owned by a functor, and then dies with a node |
| slot, `slots.hpp` | callback, list of tracked weak_ptr | `track`, `expired`, `try_lock` | `try_lock` keeps tracked objects alive during a call |
| combiner, `optional_last_value.hpp` | the last result | `operator()` | drives `operator*` and `operator++` |
| `signal_base.hpp` | none | two virtual functions | how a connection reaches its signal |
| `compiler_support.hpp`, `extended_signature.hpp`, tests, benchmarks | none | | |

What is hard here:

* *Interleaving.* An emission may stand on a node while it is marked, unlinked,
  and its neighbours are unlinked too. It must still find its way to the end,
  skip nothing that stayed connected, repeat nothing, and not call what was
  disconnected before it began.
* *Re-entrancy.* A slot may emit, connect and disconnect on its own signal; without
  the mutex it does so in the middle of the emission that calls it.
* *Two ways to disconnect.* The exchange in `mark_disconnected` decides which of
  several racing disconnects unlinks; marking and unlinking are two steps.
* *Ownership.* `prev` and `group_storage` are weak; whether they can be locked
  depends on who still holds the node, an emission included. The last reference
  to a node goes in the middle of some function, and the destructor of its
  functor runs there.
* *Locks taken one by one.* `try_lock` locks several objects while owners let go,
  and a failure halfway must leave nothing locked.
* *Maintenance of redundant structure.* `tail`, `group_head`, `prev` and
  `group_storage` must agree with the `next` chain after any sequence of calls.

The hazards, each at its line, are listed in `PROJECT.json`.

What makes each component correct:

* node word: no update lost, a mark is final, one disconnect is told it was first;
* slot list: every connected slot is reachable from `head`, nothing else is, the
  walk ends in `tail`, no call dereferences null;
* emission: complete, in order, each slot once, none that was dead when it began,
  tracked objects alive, and it ends;
* list and emissions together: to a client they are one sequence of slots on which
  every call acts at once;
* unsafe handles: the same, towards one thread that calls back at any depth, and
  no functor is destroyed while it runs;
* scoped connections: a slot entrusted to one does not stay connected after it,
  and a disconnected slot is not kept for ever;
* tracking: a slot runs as if its objects had been locked at one moment; nothing
  stays locked after it or after a failed `try_lock`.

## 2. The modules

| module | contents |
|---|---|
| `NodeWord` | the meaning of the word: `Connected`, `Blocked`, `Usable` |
| `BlockCounter` | abstract: block, unblock and disconnect as instantaneous operations |
| `NodeBase` | the loops of `node_base`, one action per atomic access, any number of threads; `ImplementsBlockCounter` is the refinement |
| `SlotSequence` | abstract: a sequence of slots, given by its slots and by which comes before which, calls that act on it at once, emissions that owe and call slots |
| `SlotList` | the fields of the signal, the links of the nodes, and what every `*_impl` function does to them |
| `Signal` | `SlotList` shared by threads: who holds the mutex, what each call has done so far, the actions of connecting, disconnecting and emitting |
| `SignalProperties`, `SignalRefinement` | properties and inductive invariant; the refinement of `SlotSequence` |
| `SlotChain` | what the list of a client that connects at the back only looks like, said with numbers |
| `SignalQueue` | the invariant of a `Signal` with such a client |
| `SignalForward` | the invariant of a `Signal` with a client whose calls follow no `prev`; `ListInvariant` joins both |
| `SignalOrder` | the invariant that no link leads against the order of the slots |
| `SignalUnsafe` | `SlotList` used by one thread through the `*_unsafe` functions, with nested emissions |
| `Connections` | `SignalUnsafe` with handles: connections, scoped connections, functors that own them, destruction of nodes and of the signal |
| `ConnectionProperties` | its properties, who owns what, and its refinement of `SlotSequence` |
| `ConnectionQueue` | the invariant of `Connections` with a client that connects at the back only |
| `TrackedCalls` | abstract: slots that run only while their objects live |
| `SlotTracking` | `try_lock` object by object, in both loops of an emission, against owners and a busy mutex |
| `TrackingProperties` | its properties, its inductive invariant, its refinement of `TrackedCalls` |
| `ListProofs` | lemmas about `SlotList` and `SlotChain` that the proofs of both signals rest on |
| `NodeBaseProofs`, `SignalProofs`, `OrderProofs`, `QueueProofs`, `ConnectionProofs`, `ConnectionQueueProofs`, `TrackingProofs` | theorems |
| `MCNodeBase`, `MCSignal`, `MCConnections`, `MCTracking` | constants for TLC |

`NodeBase` is composed with the rest through `BlockCounter`: `Block` and the marks
in `Signal` and `SignalUnsafe` are the instantaneous operations that `NodeBase` is
shown to implement. `Signal` and `SignalUnsafe` share `SlotList`, since the
safe and unsafe functions do line by line the same to the links; `Connections`
drives either of them for one thread, where the difference is that the safe ones
hold the mutex. `Signal` lets a slot track one object, which is enough for what the
list sees of it (locked or expired); `SlotTracking` keeps of the list only
its order and opens `try_lock` up.

Definitions whose comment begins with *Mutant of* are plausible bugs of the code:
putting one in place of the operator it names must make TLC report the property
that `PROJECT.json` pairs it with. They are used nowhere else.

### State and actions of `Signal`

`head`, `tail`, `groupHead`, `storage`, `next`, `prev`, `unusable`, `mutex` are the
variables of the code. A node is the number of its allocation, so that equal
keys of the multimap, which keeps insertion order, are ordered by number.
`Alive(held)` computes what the shared_ptr counts say: a node is alive when a
field, a local of a running call, or a live node's `next` leads to it, and
`Locked` is `weak_ptr::lock`.

An *activation* is one running call. A slot that calls back into its signal is
another activation, which an interleaving runs to its end between two steps of
the caller; re-entrant executions are thus among those checked. Being more
general than the re-entrant case it also covers the concurrent one.

Each action is one access that another activation can observe. Under the mutex
only stores to `head`, to a `next` and to `_unusable` are observable, and every
locked function makes at most two kinds of them, so e.g. `pop_back` is `PopBack`
(lock, mark) and `PopUnlink` (relink, unlock); `push_back` is one action. The
stores to `tail`, `prev`, `group_head` and `group_storage` are only read under
the mutex and belong to the neighbouring action. A call that finds nothing to
do (`pop_back` of an empty list, `erase` at `end()`) changes nothing and has no action.

`fault` records the first undefined behaviour; nothing happens after it.
`called`, `must` and `dead` are history variables of each emission: what it has
called, what it must call, what it must not call.

`api` is the set of operations that the client of this signal uses, chosen once
from the constant `Clients`. Several operations break the list when they are combined (section
5), so each run states for which clients its properties hold.

### State and actions of `SignalUnsafe` and `Connections`

`frames` is the stack of emissions under way, each with the node its iterator
holds. The client has control when the stack is empty or when the innermost emission
runs a slot; then it may call any function, which is one action, for nobody
looks while it runs. `MaxDepth` bounds the stack.

In `Connections` a node without an owner does not vanish: it is *doomed*, and until all doomed
nodes are buried nothing else happens (`Settled`). `Bury` and `FunctorDrops` run
the destructors one by one, the front of a doomed chain first, as the `next` of each
is released after its functor. A `scoped_connection` owned by such a functor
disconnects then: on a signal that still exists, on one that is gone (`fault` becomes
`dangling_signal`), or while this thread holds the mutex (`self_lock`).
`connection` itself needs no state: any node that can still be locked may be
disconnected or blocked through one.

Assigning to a `scoped_connection` is two actions, as `operator=` first disconnects the old slot
(`AssignScoped`) and then writes its fields (`TakeOver`); between them the old slot's node may die,
and the functors and handles it owns with it. `assigning` holds the object and the node it is to get
meanwhile. When that very object is destroyed in between, `fault` becomes
`dangling_handle`; only a client with `assign_owned` assigns an object that can die of it (section 5).

### State and actions of `SlotTracking`

Of each emission: the loop it is in (`emit()` clears its list before it
disconnects, `operator++` after), the slot, the position of `try_lock` in
`_tracking`, and the objects locked. `LockObject` is one turn of the loop. Owners
let go (`Drop`), or find again an object that only an emission keeps (`Adopt`);
another thread takes and releases the mutex (`Write`, `WriteDone`); connections block and
unblock the slots of `Blockable` (`Block`, `Unblock`). A blocked slot fails `usable()` and is passed over
without `try_lock` (`CheckUsable`), be its objects alive or not. So an emission disconnects what was
expired when it began *and* not blocked since: `stale`, a history variable.

### The refinements

* `NodeBase` to `BlockCounter`: the word is the counter; the failed
  compare-and-swaps stutter.
* `Signal` to `SlotSequence` (`SignalRefinement`): the slots are `Met`, the nodes that the
  walk from `head` along `next` meets and that are not marked, and their order is
  `MetBefore`, the order of the walk. `Along`, the walk, is a recursive function on
  numbers of steps. A connection thus takes effect when the node is
  stored, a disconnect when it is marked, and the unlinking is a stutter.
  `clear()` and `erase()` mark one node after another and appear as
  several disconnects. What an emission owes is `must` without what it has called; `ready` is
  what is connected, unblocked and not expired.
* `Connections` to `SlotSequence`: the same, with emission i being frame i (`InFrame`);
  after `~signal` every slot is gone.
* `SlotTracking` to `TrackedCalls`: an object is alive when an owner or an emission
  holds it; a slot starts to run when `try_lock` returns true.

## 3. The runs

Passing (times with two workers):

| run | instance | question |
|---|---|---|
| `NodeBase` | 3 threads, 4 calls | all properties of the node word, `CallsReturn` under fairness; refinement of `BlockCounter` |
| `SignalWhole` (2 min) | 4 nodes, 2 groups, 2 writers, 1 emission; clients `Back`, `Front`, `Group` | the list stays whole, and list and emission are one sequence |
| `SignalSharing` (2 min) | 3 nodes, 2 groups, 1 writer, 2 emissions; clients whose slots expire, are blocked or throw, one that connects in front, one in groups | automatic disconnects of one slot by two emissions, tracked objects, and `ListInvariant`, the invariant of the proofs about whole lists, which contains `NoFault` and `NoSlotLost` |
| `SignalAll` (1.5 min) | 3 nodes, 2 groups; clients that use every operation that links, with `erase` and without, and two whose slots expire, are blocked, throw or are extended | the inductive invariants of the proofs for any client, and what an emission keeps even on a damaged list: none dead, and without `erase` each slot once and in order |
| `SignalLive` | 2 nodes, 2 writers, 1 emission | progress; the sequence with slots that expire |
| `Tracking` (45 s) | 3 slots, 2 objects, 2 emissions, slot 2 may be blocked | tracking as at one moment, no object kept for ever, expired slots retired unless blocked |
| `Reentrant` (2 min) | 3 nodes, 2 groups, depth 2, 2 scoped connections, 8 clients | nested emissions over `*_unsafe`, ownership, destruction; the invariants of the proofs; refinement of `SlotSequence` |

Bounds. `MaxNodes` bounds the slots connected in a behaviour: four give a front, two
middle nodes and a tail, hence every branch of the unlinking functions with
neighbours of each kind; three suffice for every branch of the functions that
fault, which `SignalAll` needs, and for a nested emission with a node before, at and
behind it. `MaxBlock` bounds the net count of block calls; one
block on, one under zero tells all values of `usable()` apart. `MaxCalls` bounds
the calls in `NodeBase`; four calls by three threads let one retry twice. It also makes contention finite,
so `CallsReturn` says that no thread retries for ever on its own account, by a stale snapshot or a spurious
failure, and not that it is never beaten for ever: the loops are not wait-free. Two
emissions are the fewest that can race to disconnect the same slot or keep each
other's objects alive. `MaxDepth` is two: an emission and one that interrupts it. Two
`scoped_connection` objects are the fewest that can guard one slot together or
disconnect each other's owners. `CrossedTracks` has two slots that lock the same
objects in opposite orders and one between them that shares one; that one may be blocked, and
has neighbours that are retired or called before and after it is passed over. Deadlock is
checked except where the system stops for a reason: after a fault (`SignalAll`),
when `MaxCalls` is used up (`NodeBase`), and when the signal has been destroyed
(`Reentrant`). Symmetry of the threads is used in `SignalSharing` and `SignalWhole`, and of the
scoped connections in `Reentrant`. The only
temporal property of these, `ImplementsSlotSequence`, is about single steps: the sequence assumes no fairness
and knows no writers.

Fairness. `NodeBase` assumes that a thread inside a call is scheduled (weak
fairness) and that a compare-and-swap that can succeed again and again does not fail
spuriously for ever (strong fairness, which is what a usable
`compare_exchange_weak` provides). `EmitFairness` assumes that threads inside
`emit` are scheduled, that slots return, and that an emission waiting for a
mutex that is free again and again gets it (strong fairness of the step that
locks). Nothing is assumed of the writers, except in `CallsEnd`, which adds the same for
them as its hypothesis. `SlotTracking` assumes weak fairness of the emissions
(`Walk`) and of whoever holds the mutex (`WriteDone`), and strong fairness of
`Disconnect`, which locks it. No operation is ever assumed to be called. Mutex
starvation is thus assumed away, since `std::mutex` leaves it to the scheduler.
`EmissionsDoNotWait` and `CallsEnd` also rest on `MaxNodes`: a client that keeps
connecting slots at the back for ever keeps an emission going for ever, in
the code as well.

Violations, each a promise of the repository that the code breaks:

| run | what happens |
|---|---|
| `BackPopBack` | `pop_front` under an emission, `pop_back`, `push_back`: the stale `prev` (`signal.hpp:389`) leads to the dead node, which becomes `tail` |
| `InsertDisconnect` | `insert`, `disconnect`, `insert`: `grouped()` (`:111`) is always false, `group_storage` keeps an expired node, null dereference at `:484` |
| `EraseAbsent` | `erase` of an absent group when a greater one exists: the range at `:907` is empty, the loop (`:928`) disconnects the first slot of the greater group, links it to itself and, with `++` past `bounds.second` (`:935`), goes on: the next turn follows a null node |
| `ExtendedCall` | `push_back_extended`: `extended()` is always false, the node is cast to the wrong type at `:1087` |
| `FunctorDeadlock` | `pop_front()` drops the node under `_mutex` (`:354`, `:389`); its functor owns a `scoped_connection`, whose destructor (`connection.hpp:216`) locks the same mutex |

## 4. The proofs

All theorems hold for every value of the constants, any number of nodes, threads,
groups, scoped connections and nested emissions; the assumptions are those
named in the modules (`DisconnectedAssumption`, `NodeBaseAssumption`,
`SlotListAssumption`, `SignalAssumption`, `SignalUnsafeAssumption`, `ConnectionsAssumption`,
`SlotTrackingAssumption`), which TLC evaluates in the runs.

`NodeBaseProofs`: type correctness; `NoLostUpdate`; `DisconnectIsFinal`; the
refinement `ImplementsBlockCounter`; and `OneCallerMarks` under two further
assumptions, stated in the theorem: finitely many threads, and
`SentinelOutOfReach`, which says that the calls of a behaviour cannot count
down from the first word to the sentinel. Without it the property is false
(section 5), so the assumption is part of the result.

`SignalProofs`: `SafetyInvariant` is inductive (`InitSafe`, `NextSafe`), with one lemma
per action. It is needed because `TypeOK` alone is not inductive: an
emission loads `next[hand]`, which has a type only when `hand` is a node. Hence `LocalsHold`: every
step that goes through a local pointer, `head` or `tail` finds a node. For `pop_back` and `pop_front`,
which read `tail` and `head` again after the mark, that holds only because nobody else
changes the list meanwhile, hence `MutexProtectsLinks`. From `DeadStaysMarked` and
`PassedNodesLive` follows `NoCallAfterDisconnect`, from `CalledNodesLocked`
`TrackedWhileCalled`. These theorems put no condition on the client: they hold for all
operations, also on a list that the defects of sections 3 and 5 have damaged.

`OrderProofs`: `CalledInOrder` and `CalledOnce` for every client that does not use `erase`,
whatever the other defects have done to the list. The list need not be whole for this:
`OrderInvariant` says that *every* link of *every* node that was ever made, stale ones included,
leads from a node to one that comes after it in the order that the API promises (front
before grouped before back; `Precedes`), and that what an emission has called
precedes where it stands. So an emission can only go forward. The invariant needs a
cut (`Since`): `clear()` forgets the nodes without relinking them, so links never cross
the number that was next when the list was last emptied, and `storage` and the
entry points hold nodes from after the cut only; and it needs what `insert_impl` relies on
when it hooks a grouped node behind `group_head`, that this is the last front slot
(`FrontsFirst`). `erase` alone stores links that lead backwards (section 5).

`ListProofs`, `OrderProofs` and `QueueProofs`: the list stays whole and emissions keep their
promise for two kinds of client, from any number of threads and emissions (`WholeClient`):

* `QueueClient` connects at the back only: `push_back`, `pop_front`, `disconnect`, `clear`,
  blocking, expiry, throwing;
* `ForwardClient` connects anywhere in front and behind, or in groups and behind, but no call of it
  follows a `prev`: `push_front`, `push_back`, `pop_front`, or `insert`, `push_back`, with
  `clear`, blocking and throwing.

Proved of both: `NoFault`, `NoSlotLost`, `NoDeadSlotListed`, `EndsInTail`,
`EmissionComplete` and the refinement `ImplementsSlotSequence`; of a `QueueClient` also `DoublyLinked`,
as `push_front` and `insert` leave the `prev` behind them unset. Each theorem has the form
`ASSUME PlainWords PROVE Spec => [](WholeClient => P)`; `PlainWords` asks that words start as
counts and that counting does not reach the sentinel. Section 5 says what happens
otherwise, and what the operations do that neither kind of client combines: together
`push_front` and `insert` lose the tail, `insert` and `pop_front` leave an expired node in `group_storage` that the next
`insert` dereferences.

The two kinds need different invariants (`ListInvariant` is both). A `QueueClient` takes nodes
out of the middle, and with them the way that an emission was to go:

* It lists its nodes by number. So the invariant can be said with
  numbers and without recursion: `Chain(L)` says that the nodes of a set L
  hang together from `head` to `tail` in both directions in ascending order,
  `NextPasses(L)` that *every* `next`, also of a node that was unlinked
  long ago and that an emission may stand on, leads to a greater node and skips no
  node of L, `MarksMatch(L)` that L is what is connected, up to the marks of the holder of
  the mutex, `WayEnds(L)` that an emission whose way ends off the list has nothing
  left behind that end which it must call, `CallsOf` that it has called, in
  ascending order, all it had to call up to where it stands.
* The inductive invariant is `SafetyInvariant` and, for a `QueueClient`, that there is an L
  with all this. Each part needs the others: unlinking keeps `Chain` only when the
  node unlinked is the one marked (`MarksMatch`) and its `prev` can be locked, which `Chain` with
  reachability gives; `NextPasses` is kept by an unlinking only because what
  the predecessor skips is off L.
* That L is what can be reached from `head` (`ChainIsListed`), and that its nodes are alive, is
  proved from the least number: a listed node that could not be reached would have a least
  one, whose `prev` can be reached. `LeastNumber` is the well-foundedness of the naturals.

A `ForwardClient` orders its nodes otherwise than by number, but it cuts off no way:

* A `next` that leads to a node keeps leading to it, directly or through new nodes; only `head`
  moves, past a node or off the list. So what can be reached from
  anywhere only grows (`ReachGrows`), off the list too, and `Forward` can be said with `Reach`: what an emission
  still has to call lies ahead of it (`MustAhead`), connected nodes are listed (`MarksForward`), the
  list ends in `tail` (`Ends`), and what `insert` starts from is on it (`StorageListed`).
* That `Forward` is inductive needs `OrderInvariant` beside it: what `head` leaves behind cannot
  be reached from the rest, nor can an emission come back to the node it stands on, because no link leads
  against `Precedes` (`ReachLeads`).
* Each connect is one case of the same lemma (`ConnectHooks`): a new node that leads to what the one
  before it led to.

`WholeIsSequence` is the refinement: `Spec /\ WholeClient => ImplementsSlotSequence`
(`WholeClient` as an initial condition, as `api` never changes). A
client of such a signal cannot tell it from one sequence of slots on which every
call acts at once, however many threads and emissions overlap.

* The mapping walks the list. What `Along` computes in general is not needed: the walk never goes
  against `Precedes` (`WalkLeads`), so it meets no node twice and, there being finitely many, comes to an end
  (`WalkListed`); a listed node that it left out would be led to by one that it met.
  Hence (`WalkMeets`) the slots are the connected nodes (`Live`) and their order is `Precedes`
  (`InOrder`), for both kinds of client.
* So each action of `Signal` need only say what it does to words, kinds and
  history. The effect of a connect is the store of the node (`ConnectRefines`), that of a disconnect
  the first mark (`MarkRefines`, `RemoveRefines`), that of a block the store of the word
  (`SuspendRefines`, `ResumeRefines`); unlinking is hidden (`HiddenRefines`). An emission begins with the load of
  `head` (`BeginRefines`), calls a slot that it owes next or that came meanwhile
  (`CallRefines`), and is complete when it loads null (`AdvanceRefines`), which
  needs `EmissionComplete`'s half of the invariant; one that throws leaves (`LeaveRefines`).
* `Refined` is the inductive invariant with `Unmade` added: nodes that were not made yet
  have the kind and word they started with.

`ConnectionProofs`: for every client of the thread that calls back, `TypeOK`,
`OwnersLive` (no owning pointer of the signal, of a frame or of a node that still exists
leads to a destroyed node, and no destroyed node counts as entrusted) and from it `FunctorLives`. Destruction takes
many steps here, and `OwnersLive` must hold between all of them: a dying
node still owns its `next` until `Bury` has run. Its part `AssignmentSound` says the same of
the object in the middle of an assignment: what it is to get has not been destroyed
(`NoneAssignedDies`). `ScopedEnd` proves `ScopedSlotsEnd` under its two
conditions, both needed: a scoped connection that is not empty was not assigned over (`copy_scoped`) and
no functor has met the mutex it dies under (`fault # "self_lock"`); section 5 and
`FunctorDeadlock` show what happens otherwise.

`ConnectionQueueProofs`: for the clients of `ConnectionQueue`, which connect at the
back, with either variant of the functions, any nesting, scoped connections and
functors that own them, `NoFault`, `FunctorsReclaimed` and the refinement. `assign_owned` is not among their operations. The list is the `Chain` of
`ListProofs`; the difference to `Signal` is that marking and unlinking are one step, so the chain holds
in every state, and that `pop_back` is allowed as long as nothing leaves a stale `prev` in the
node that becomes `head` (`HeadHasNoPrev`). `HandlesApart` says why destructors do no harm: no
functor that owns a scoped connection dies under the mutex or with the signal.
`FunctorsReclaimed` follows from the chain, which holds connected nodes only, because
nothing but the chain and frames owns nodes.

* `EmissionsInTurn` is the part of the invariant about emissions, of the interrupted ones
  as well as the innermost: what one has called lies behind the node it stands on, what it owes
  before it or on it (`InTurn`), and where its way ends off the list nothing is left that it owes
  (`WayEnds`). A slot that disconnects or clears may take the ground from under every frame of the
  stack at once, so the lemmas speak of all frames: `StayInTurn` asks of a step on the list only
  that no way gets longer except by new nodes, and that a node that leaves the list as its last
  leaves nothing behind.
* `QueueIsSequence` is the refinement for this thread: `Spec /\ QueueClient =>
  ImplementsSlotSequence`. `ListingCurrent` turns the walk into numbers (`ChainMeets`: on a
  `Chain` it meets all nodes in ascending order). A disconnect by a handle, by a functor that dies, by an emission that meets an expired
  slot, and `pop_back` and `pop_front` are all the same step of the sequence (`UnlinkRefines`);
  `clear()` and `~signal` empty it (`ClearRefines`); burying nodes is hidden (`SequenceKept`).

`TrackingProofs`: `TrackingInvariant` is inductive, and from it follow type correctness, `LocksOfTheSlot`,
`ExpiredSlotsRetired` and the refinement `ImplementsTrackedCalls`, for any slots, objects and
emissions, whichever slots may be blocked. `LocksOfTheSlot` is not inductive, because
`try_lock` stands halfway (`LockedSoFar`). The refinement needs that whoever is about to
disconnect a slot has seen an object of it dead and that dead stays dead
(`FailedIsExpired`): an object can be adopted again only while some emission holds it, which
makes it alive all along. `StaleIsExpired` and `StaleRetired` carry this over a whole
emission, and need `StaleIsUnblocked`: a stale slot is never passed over.

Only model-checked: the properties of the whole list and the refinement for clients of
`Connections` with `push_front` or `insert` (`Reentrant`); and liveness (`CallsReturn`, `EmissionsDoNotWait`, `CallsEnd`,
`LocksReleased`), which the prover cannot do (ENABLED, fairness).

## 5. Known defects that no run shows

Each was met while modelling; setting `Clients` to the given set makes TLC report it.

With `MCSignal`:

* `{push_front, pop_back}` violates `NoSlotLost`: `push_front_impl` (`signal.hpp:280`) sets no
  `prev`, two `push_front` and a `pop_back` lose both slots.
* `{push_front, insert, push_back}`, the same: `insert_impl` hooks the first grouped node behind
  `group_head` and does not move `tail` when it was there (`:495-500`).
* `{insert, pop_front}` faults: the popped node stays in `group_storage` (`:385-392`, `:482-484`),
  as in `InsertDisconnect`.
* `{insert, pop_back}` violates `NoSlotLost`: `insert_impl` never sets the `prev` of the node behind (`:483-490`).
* `{insert, push_back, erase}`, the same: `erase` of the last group cuts off the back slots (`:913-938`).
* `{insert, disconnect, erase}` with `MaxNodes = 4` and the condition on `erase` left out of
  `CalledInOrder` and `CalledOnce` violates both: with expired nodes left in
  `group_storage`, what `erase` stores (`:913-940`) can close `next` into a cycle, in which an
  emission calls one slot again and again.

With `MCNodeBase`:

* The word is not initialised (`node_base.hpp:23`; indeterminate before C++20). When
  `InitialWords` contains the sentinel, no disconnect is told it was first and
  `OneCallerMarks` is violated.
* `unblock()` can count down to the sentinel (`node_base.hpp:70`): with a sentinel within
  reach of `MaxCalls`, `OneCallerMarks` is violated.

With `MCConnections`:

* `{unsafe, push_back, scoped, own, destroy_signal}` faults with `dangling_signal`: `~signal` destroys the
  nodes when its fields go (`signal.hpp:242`), and a `scoped_connection` in a functor follows
  the pointer to the dying signal (`connection.hpp:131`).
* `{safe, push_back, clear, scoped, own}` faults with `self_lock`, as in `FunctorDeadlock`.
* `{unsafe, push_back, scoped, copy_scoped}` violates `ScopedSlotsEnd`: assigning one `scoped_connection` to another that is
  not empty uses the implicit assignment (`connection.hpp:187`), which disconnects nothing.
* `{unsafe, push_back, scoped, own, assign_owned}` faults with `dangling_handle`: a `scoped_connection`
  owned by the functor of the slot it guards is assigned; `operator=` disconnects the
  slot (`connection.hpp:189`, `198`), whose node dies with its functor and the object, and then writes the object's fields.
* `{unsafe, push_front, pop_back}`, `{unsafe, insert, disconnect}`, `{unsafe, insert, erase, erase_absent}` and
  `{unsafe, push_back, extended}` break the unsafe functions as they break the safe ones.

`{safe, push_back, scoped, own, disconnect}` holds: `connection::disconnect` keeps its node until the
mutex is free again.

Also: an emission that meets an expired slot takes the mutex (`signal.hpp:1002`, `1121`), so it waits for
its holder: `EmissionsDoNotWait` without its condition on `expire` is violated. The README's
"lock-free emits" holds for other slots only.

## 6. Not modelled

* Arguments, results and the value of `optional_last_value`. A combiner that stops
  early calls fewer slots by its own choice; `SlotTracking` lets it stop anywhere.
* `track()`: what a slot tracks is fixed before it is connected, and a constant here.
* The value of a word in a build that does not zero it: the runs of `Signal` start
  nodes at zero (`InitialWords`), `SignalProofs` does not.
* Memory orders: all atomics of the code are sequentially consistent by default.
* Overflow of the block counter, which would take 2^31 calls and whose models count in unbounded integers; out of memory, and the depth of
  the stack when a long chain of nodes is destroyed recursively (`signal.hpp:87`).
* A signal destroyed inside one of its emissions; several threads that use
  scoped connections or destroy the signal at once. Overlapping emissions in `Connections`
  are nested, since there is one thread.
* Destructors in the middle of a function. In `Connections` they run when the function has relinked. What the
  code drops last is dropped last there too: `pop_front` and `pop_back` give up the node in their last
  statement (`head =`, `tail =`, `head.reset()`; `:826`, `:833`, `:864`, and under the mutex alike), `disconnect` when its caller lets its
  local go, and `clear` in `head.reset()` (`:899`), when every node is marked, so that a destructor that
  disconnects does nothing, and only `group_storage` is still to be emptied, which it does not read.
  `erase` does drop nodes in the middle of its loop (`:960-974`), so functors that own handles are not combined with it.
* Destructors of functors that do more than destroy scoped connections: one that emits or connects.
* In which order the functors of one erased group are destroyed: `erase()` leaves the node before the
  group leading to it, so `FunctorsReclaimed` leaves clients with `erase` out.
* `compiler_support.hpp` and `extended_signature.hpp` (typedefs that choose between the standard
  library and Boost, a type computation), tests and benchmarks: they keep no state.

## 7. What is left

1. Proofs about the whole list for clients of `Connections` with `push_front` and `insert`, along
   `SignalForward`: `Reach` in the place of `Chain`, and of the frames' ways `Ahead`.
2. Scoped connections under several threads, as activations of `Signal`.
3. `pop_back` in `Signal`: `BackPopBack` shows that it cannot be combined with `pop_front`; for clients with
   `push_back` and `pop_back` alone nothing is claimed.
