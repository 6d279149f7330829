# Verification of `ot`

`ot` keeps copies of one array equal while several clients change them at the
same time (operational transformation). This directory holds TLA+ models of the
algorithm, of the client-server system that uses it, of the program that drives
them and of the containers the array is kept in, the TLC configurations that
check them on small instances, and TLAPS proofs for all instances. Paths are
relative to the repository.

## The system

| part | source | state | operations |
|---|---|---|---|
| operations and packs | `ops/ops.hpp` | an operation: type, `pos` (what its author saw), `posser` (where to apply it), value, `cid`, `rev`; a pack: a vector of them | `trans`, `transformAndPut`, `isDuplication`, `orderPos`, `orderRev` |
| state applier | `ops/state.hpp` | a pointer to the array | `apply(op)`, `apply(pack)`, `applyFromOthers` |
| server | `comm/server.hpp` | all arrays (the owner's vector), pointers to clients, `accum`, `rev` | `init`, `clone`, `push`, `update`, `clear` |
| client | `comm/client.hpp` | pointer to its array, `applied`, `cid`, `rev`, `servRev` | `connect`, `makeLocalOps`, `updateFromServer` |
| driver | `main.cpp`; fixture of `tests/tests-clients-server.cpp` | the vectors of arrays and clients, the loop | rounds of join, push, update, comparison |
| `FixedDeque` | `igush/fixed_deque.h` | a ring of slots, begin, end | deque operations, iterators |
| `IgushArray` | `igush/igush_array.h` | a vector of deques of one size | vector operations, iterators |
| command line | `utils/cmd.cpp`, `main` | `m_argv` | `get_option`, `exists_option`, `get_params` |
| timer, `NoInit` | `utils/` | none of interest | not modelled |

How they interact: everything is a synchronous call in one thread. The owner
connects clients (the server copies its array for each), lets each client make
a pack of operations (applied locally at once, signed, pushed to the server),
and calls `Server::update`, which applies what was pushed to its own array and
hands the same pack to every client. A replica skips the operations with its
own `cid` and transforms the others past what it has applied already. `State`
and `Server` keep raw pointers into vectors the owner keeps.

What is hard is not threads but order: each replica applies the same operations
in another order, the pack a client goes past is not the one its state applied,
clients join in the middle of a round, positions are unsigned and silently
bounded, and both containers rely on structure that a long sequence of calls
could break: `IgushArray` moves elements from deque to deque by calls that throw
when a deque is full or empty. `PROJECT.json` lists the hazards at their lines, with the
properties that cover each.

What makes each part correct:
- operations: the result depends on which operations were applied, not on the order;
- state: a transformed position always names a place of the array;
- client and server: after an update all replicas are equal, each operation
  reached each replica once, calls meet the assertions, pointers stay valid;
- driver: it makes only allowed calls, ends, and ends with equal replicas;
- containers: they are the sequences their interfaces promise, no call one makes of
  the other throws, and replicas kept in them behave as replicas that are sequences;
- command line: main gets what was typed, in whatever order.

## Modules

| module | models | remarks |
|---|---|---|
| `Ops` | `ops.hpp`, `state.hpp` | constant operators; C++ index k is sequence index k+1; `unsigned` wraps at `UMod` |
| `Merge` | reference | what a *set* of operations means: every surviving and every inserted element has a key, the document is sorted by keys. Independent of `trans` |
| `Convergence` | one replica, any order | `Receive` is `State::apply(pack, op)`; the only order kept is that of one client's operations at one position |
| `SharedDocument` | abstract specification | one document, joined clients, their edits of the round; `Close` merges; nothing is transformed |
| `ClientServer` | `client.hpp`, `server.hpp` | `Connect`, `MakeLocalOps` (with `push`), `Update` (with every `updateFromServer`), `Reset` (the fixture's, with `Server::clear`) in any order |
| `TrivialClientServer` | `main.cpp`, the fixture's `run` and `reset` | the loop, one step per `Join`, `Push`, `Sync`, `Test`; `NewSession`; actions of `ClientServer` |
| `SequenceCalls` | reference | what the calls of `std::deque` and `std::vector` make of a sequence, and when a bounded deque throws |
| `BoundedDeque` | abstract specification | a bounded sequence whose operations throw when they do not fit |
| `FixedDeque` | `fixed_deque.h` | slots, `_begin`, `_end`, and which slots hold a constructed element |
| `Vector` | abstract specification | a sequence with `std::vector`'s operations |
| `Deques` | `igush_array.h` | constant operators on any vector of deques: deques as sequences changed by deque calls (`Do`; justified by `FixedDeque`), iterators as (deque, offset), what each operation leaves |
| `IgushArray` | `igush_array.h` | one array: the operations of `Deques` as actions |
| `ClientServerArrays` | `State<IgushArray>` under server and clients | the actions of `ClientServer` with each replica an array, changed by the operators of `Deques` |
| `CmdOptions` | `cmd.cpp`, the head of `main` | `argv` typed item by item, and what was meant |
| `Lemmas` | proofs | induction over naturals, the loops of recursive functions, pieces of sequences |
| `MergeProofs` | proofs | lemmas about `Ops`, and that it computes `Merge` |
| `ConvergenceProofs`, `FixedDequeProofs`, `IgushArrayProofs`, `ClientServerArraysProofs`, `CmdOptionsProofs` | proofs | theorems about the specifications they are named after, see Proofs |
| `ClientServerProofs` | proofs | theorems about `ClientServer` and, last, about `TrivialClientServer` |

The refinements form two chains. `FixedDeque` implements `BoundedDeque`, whose calls
`IgushArray` is made of; `IgushArray` implements `Vector`. And `ClientServerArrays`
implements `ClientServer`, which implements `SharedDocument`; the driver implements
`ClientServer` too (`CallsAllowed`).

`MC*.tla` give the constants their values. Definitions marked "broken" are
plausible wrong versions of the definition next to them; they are used nowhere
and serve to see that a property fails when the code is wrong.

Notes on the correspondence:
- `makeLocalOps` asserts that the last pack was used up. The model does not make
  that a guard of the action: `MayPush` is the owner's part in `ClientServer!Next`,
  and the driver, which does not test it, is shown to respect it (`CallsAllowed`).
  `MayConnect` (how many clients) and `MayReset` (`Server::clear` keeps `accum`, so
  the owner must have sent it) are the owner's part in the same way.
- Each action of `ClientServer` has a part that does not name the arrays (`Connecting`,
  `Pushing`, `Updating`, `Resetting`); `ClientServerArrays` adds to it what happens to
  arrays of deques: the copy that `clone` makes, `State::apply` by `begin() + pos`,
  `insert`, `erase`, `operator[]` and `push_back`. It has one session: only the test of
  vectors resets.
- `Kept` is the pack *as signed*: `State::apply(pack)` copies each operation, so
  the moved pack is untransformed.
- `posser`, `cid` and `rev` are `unsigned`; `UInc`/`UDec` wrap. The assumption
  `InitSize + NClients * MaxOps * (MaxSessions + 1) < UMod` says that no document
  has 2^32 elements.
- `stale` says which replicas' pointers a vector growing past its reservation
  left dangling; nothing happens after that (undefined behaviour). For `IgushArray` a
  reallocation is worse still: its move constructor swaps with members never set.
- Values are chosen to be different for every operation (`NewValue(cid, rev)`), so
  that equal arrays mean equal histories. The array of the fixture is numbered;
  `main.cpp` fills it at random.
- The fixture's loop is left only at its last round, and `NewSession` is the reset and
  next run of `CatchConcurentPackets`; `main.cpp` also stops at a failed comparison. A
  `TestPeriod` of 0 means 1800, as in `test`. `MaxStart` bounds the arrays a session
  takes over. `OpsPerRound <= MaxPack` only says that the bound on packs admits those
  the loop makes.
- In `FixedDeque`, a destroyed slot holds `Raw`; `misused` records an assignment to
  or destruction of a slot without an element, or a construction over one.
- In the containers and their abstract specifications `call` names the operation of
  the last step, so that a step of `FixedDeque` has to be the step of *that* operation
  in `BoundedDeque` (and of `IgushArray` in `Vector`). The configurations' `VIEW` leaves
  `call` out of what tells states apart: no guard reads it, and action properties are
  evaluated on every step, also one to a state seen before.
- In `IgushArray`, every change of a deque is a sequence of deque calls (`Do`), in the
  order of the code; a deque one of whose calls would throw becomes `Thrown`, and
  nothing is done with that array afterwards (`DequesNeverThrow`).
- `CmdOptions` types a line as `utils/cmd.hpp` describes one: an option's value is a
  word, a negative number or empty, not another option; the last option may lack its
  value. `std::stoi` of anything but a number is `Invalid` (it throws).
- In `IgushArray`, `clear()` leaves no deque; the operations that would then read an
  element of an empty vector are not enabled until `Swap` brings a new array.

## Runs

| run | bounds | shows |
|---|---|---|
| `convergence` | document of 2; clients 1–3, two operations each of two, or three of three | any order, also sorted packs, gives the merge; positions in bounds |
| `clientserver_packs` | 2 clients, packs of 2 without duplications, one update | replicas are equal after the update, own operations are those kept, the system implements `SharedDocument` |
| `clientserver_three` | 3 clients, one operation each, two updates | the same with three, joining at any time |
| `clientserver_sessions` | 2 clients, 2 operations each, two updates, two sessions, empty document | late joins, numbers continuing over rounds, reuse after `Reset`, pointers |
| `clientserver_arrays` | 2 clients, two operations each, two updates, arrays of 5 in deques of 2 | implements `ClientServer`; no deque throws; the program's comparison finds grown and shrunk arrays equal |
| `driver_main` | 2 clients, 3 rounds of one operation, join every second round | the loop ends, consistent; inserts reach everyone |
| `driver_tests` | 2 clients, 2 rounds, packs of 2 without duplications, two sessions | the fixture's comparisons succeed; it clears the server only when all is sent |
| `consistency_lost` | the loop of `main.cpp`, packs of 2 | **violated**, see Findings |
| `fixed_deque` | 5 slots, 2 values | implements `BoundedDeque`; element lifetimes; order of iterators across the wrap; `resize` across the end of the storage is the only call that misuses a slot |
| `igush_array` | up to 7 elements, deques of 1, 2 and 3 | implements `Vector`; structure; no deque throws; indices and iterators agree |
| `igush_array_clear` | the same array | **violated**, see Findings |
| `command_line` | 4 items, 2 options, 3 values, a flag | main's numbers and the positional arguments are those typed |

Why the bounds are enough. Transformation compares two operations at a time, and the
cases of `trans` are the 3 × 3 types at lower, equal and higher positions by lower,
equal and higher cids: a document of two elements with three insertion places and two
clients with two operations each has all pairs and all triples; a third client, with
three operations in all, adds what comes in between. Two updates and two sessions are
what it takes for a revision, an old pack or an old number to be used once too late. The
ring has five slots, so that the elements can lie anywhere, wrapped around or not, with
a free place left or none, and `resize` may add up to one element too many. Seven
elements in deques of three or two make three or four deques: a first, a middle and a
short last one, and ranges that begin and end in any of them. In `clientserver_arrays`
an array of deques of two has from one to nine elements, so that operations of its own
client and of the other meet full, short and new deques, and a client can join on an
array that has changed.
Four items on a line are an option given twice with something between and around.

`UMod` is 16 (the real 2^32): larger than any position that occurs, small enough
to see a wrap-around. `CHECK_DEADLOCK FALSE` stands where everything bounded has
been done, or the loop has ended; the containers' runs check for deadlock.

Fairness: only `driver_main` needs it, weak fairness of the loop's next step. One
thread runs the loop and no call waits, so a step that can be taken is taken.

## Findings

- `consistency_lost`. The loop of `main.cpp` makes packs without `isDuplication`.
  When a client removes one position twice, `State::apply(pack)` drops the second
  remove, and so do the others, but the client keeps both in `applied`
  (`comm/client.hpp:48`) and moves the others' operations by two. The readme
  promises that all users see the same result, and `ops/ops.hpp:151` that the
  duplicate is skipped. `State::apply` itself copes with such packs
  (`convergence` does not leave them out, and `Convergent` is proved with them): only the kept pack is wrong.
- `igush_array_clear`. After `clear()` the array has size 0 and `empty()` is false;
  `begin()` and `push_back` would read an element of an empty vector. The header
  says that the class totally implements `std::vector`'s interface. Nothing in the
  repository calls it.
- Not a disagreement with a document, but shown by `fixed_deque`: `FixedDeque::resize`
  growing past the end of the storage assigns to slots where nothing was constructed
  (`MisusedByGrowthOnly` says that this and nothing else does). `IgushArray` only
  shrinks its deques, and the element types of the repository are trivial.

## Proofs

All theorems hold for every value of the constants that the named assumptions of the
modules admit: any number of clients, rounds, sessions, operations and elements, any
`UMod`, a ring of any size, a command line of any length. Each was checked by TLC first,
and so was each inductive invariant.

### Operations, state

`MergeProofs` proves that transformation computes the merge. `Merge` gives every
element that survives and every inserted one a key, and keys are totally ordered
(`BeforeIsOrder`), so a document that lists a set of keys is determined by it
(`MergeLists`). The heart is `TransRank`: if `posser` is the rank of an operation's
key among the items of a document, it is so again after `trans` past one operation
and that operation's items; `TransformAllRank` iterates it over a pack. Then
applying the operation at `posser` inserts, removes or updates just where the merge
has its item (`MergeMore`). An operation that became `nothing` is where care is
needed: a pack stands for a set of operations (`StandsFor`) when it has the same
items and enough updates left to say who wins, although single entries differ from
order to order.

| `ConvergenceProofs` | statement | argument |
|---|---|---|
| `TypeCorrect` | `Spec => []TypeOK` | part of the invariant below |
| `Convergent` | `Spec => []OrderIrrelevant` | `OrderIrrelevant` is not inductive, since what the next operation becomes depends on the pack; `IInv` adds that the pack stands for what was received and is as long |
| `AlwaysInBounds` | `Spec => NextInBounds` | the rank of a key is a place of the document |
| `SortingIrrelevant` | `Spec => []SortedPacks` | a sorted pack is a rearrangement of what was received (`Rearranged`) in which each client's operations at one position still come in their turn (`PositionsOrder`, `RevisionsOrder`); any such pack gives the merge (`AppliedInTurn`) |

These need no assumption about duplications: the only condition on the order is
`InTurn`, which `Convergence` states. `Sorted` puts every operation at the number of
those that go before it: that these numbers are a permutation follows from the order
being total (`Places`, `IndicesOrdered`) by counting, without induction over the pack.

### Server and clients

| `ClientServerProofs` | statement | argument |
|---|---|---|
| `TypeCorrect` | `Spec => []TypeOK` | inductive; uses the lemmas on `Apply` and `IntegrateAll` |
| `PushesInSync` | `Spec => []PushInSync` | inductive: `Clone` hands out the revision, `Update` sets it for all connected |
| `PointersStayValid` | `Spec => []PointersValid` | with `TypeOK`: `connected <= NClients` |
| `OwnOpsStayKept` | `Spec => []OwnOpsKept` | not inductive: that a new operation's number is new needs that every number in `accum` is below its client's counter and its cid is connected (`AccumNumbered`); the conjunction `OwnInv` is inductive, with `MayPush` where a client pushes |
| `AllConverge` | `NoDuplications` gives `Spec => []Converged` | from `IInv`, see below |
| `UpdatesInBounds` | `NoDuplications` gives `Spec => []UpdateInBounds` | from `IInv` |
| `Implementation` | `NoDuplications` gives `Spec => ImplementsSharedDocument` | step by step, with `IInv` |

The inductive invariant `IInv` of the last three says of every replica that its array is
the merge of the client's own operations into the server's document and that the pack
the client keeps stands for them (`Views`); that `accum` is made on that document, each
client's operations in their order (`Serial`); that those not connected have done
nothing (`Idle`); and that the array is no longer than the operations made allow, so
that no position wraps around (`Room`: a count of the numbers given out). With it an
update is one merge for every replica (`UpdateMerges`), the same for all.

These three assume `NoDuplications`: packs are filtered, as in the tests, or have
one operation at most. It is needed, not convenient: the kept pack is the one *as
signed*, which stands for its operations only if none of them became `nothing` when
it was applied; without it `consistency_lost` violates `Converged`.

### Driver

| `ClientServerProofs` | statement | argument |
|---|---|---|
| `DriverTypeCorrect` | `Driver => []DriverTypeOK` | the counter is below `Rounds + 1` until the loop is left |
| `CallsStayAllowed` | `Driver => CallsAllowed` | step by step: `Join` is `Connect` or a stutter, `Push` a `MakeLocalOps` by a client that has not pushed, of a pack that `createLocalOps` may make (`CreatedOpsAllowed`: positions on the array, and `Deduplicated` leaves no duplication), `NewSession` a `Reset` with nothing left to send |
| `ReplicasConverge` | `NoDuplications` gives `Driver => [](Converged /\ (phase # "push" => Consistent))` | the refinement and `AllConverge`: the program's comparison never fails |

The invariant is `DriverInv`: outside the loop of pushes `accum` is empty, and in it
the clients from `turn` on have not pushed (`Orderly`).

### FixedDeque

| `FixedDequeProofs` | statement | argument |
|---|---|---|
| `TypeCorrect`, `Lifetimes` | `Spec => []TypeOK`, `Spec => []LifetimesRespected` | inductive together (`IInv`) |
| `IteratorsAgree` | `Spec => []IteratorsOrdered` | from the types: `begin`, `end` and the distance between slots |
| `OnlyGrowthMisuses` | `Spec => MisusedByGrowthOnly` | from what each call leaves |
| `Implementation` | `Spec => ImplementsBoundedDeque` | step by step |

Slots are named by their distance from `begin` (`Place`), which takes the wrap-around
out of everything but the lemmas about `Fwd` and `Back`. One lemma for each loop that
moves or constructs elements says what the slots hold after `i` iterations
(`BackLoopRuns`, `FrontLoopRuns`, `ExtendLoopRuns`), one for each call what it leaves
(`PushBackLeaves`, ...: where begin and end are, which slots hold an element, and the
sequence of elements), and `NextAnswers` that this is what `SequenceCalls` promises of
the call, or that it throws just where a bounded deque must. Nothing is assumed of
`resize` over the end of the storage but what the code does: the contents are right
even then, only the lifetimes are not.

### IgushArray

| `IgushArrayProofs` | statement | argument |
|---|---|---|
| `TypeCorrect` | `Spec => []TypeOK` | from `IInv`; `_reserve` never chooses a size of 0 |
| `StructureHolds` | `Spec => []Structure` | from `IInv` |
| `NeverThrow` | `Spec => []DequesNeverThrow` | from `IInv`: a deque that threw is not a chunk |
| `IteratorsAgreed` | `Spec => []IteratorsAgree` | from `IInv`, by the places of elements (`Refers`) |
| `Implementation` | `Spec => ImplementsVector` | step by step |

`Structure` alone is not inductive in a useful way: it says how many elements each
deque has but not which, and `erase(first, last)` is right only if the deques it
leaves are again consecutive pieces. `IInv` therefore says that the deques are the
chunks of the contents (`Chunks`: the element j of deque i is the element
(i-1) * `deqSize` + j, and the last deque is empty only when alone), or that there is
none after `clear()`. For each operation a lemma (`PushedFilled`, `InsertedChunks`,
`ErasedRangeChunks`, ...) says that it makes of the chunks of s the chunks of what a
vector would make of s; `NextHolds` collects them. That no call of a deque throws comes
with it: a sequence of calls is first shown to run through (`Run`: every call is made
where `Throws` is false) and then what is left (`RunDoes`).

`insert` and `erase` are shown by following one element through each later deque. The
range erasure is shown in two halves: what is put aside, the front of the first deque
and the rest of the last, makes whole deques but for the last (`AsideFacts`), and each
later deque gives up `move` elements and takes as many from the next (`LaterPacked`),
of which only the last may become empty (`NonEmptyFacts`). `Refers(it, k)` says that an
iterator is at the element k; `+`, `-`, `++`, `--`, the difference and the order follow
from the uniqueness of quotient and remainder (`Spot`), for any number of deques.

The deque calls are those of `SequenceCalls`, which `FixedDequeProofs` proves of the ring;
the assumption `Thrown \notin Seq(Value)` only says that the mark of a deque that threw is
not taken for a deque.

### Replicas that are arrays

| `ClientServerArraysProofs` | statement | argument |
|---|---|---|
| `ArraysStaySound` | `Spec => []ArraysSound` | from `AInv`: deques that are chunks are full but the last, and none threw |
| `Implementation` | `Spec => ImplementsClientServer` | step by step, with `AInv` |
| `ArraysConverge` | `Filtered \/ MaxPack <= 1` gives `Spec => []StatesEqual` | the refinement and `AllConverge`: arrays that hold the same sequence are equal element by element (`HeldEqual`) |

The inductive invariant `AInv` says that the array of the server and of every connected
client holds its sequence in the chunks of `IgushArrayProofs` (`Held`), with the types
of the rest. `ArraysSound` alone would not do: it says nothing of which elements are
where. One lemma for each operation of an array (`InsertHeld`, `EraseHeld`, `WriteHeld`,
`PushHeld`, `BuiltHeld`) comes from `IgushArrayProofs`, whose lemmas are about any vector
of deques; `ApplyHeld` adds the cases of `State::apply`, also its fallbacks, so that
`ArraysStaySound` and `Implementation` need no assumption about duplications;
`ApplyAllHeld` runs the loop over a pack. The proof modules are used as
instances: what they assume of their constants is proved here of what stands for them
(`DequesMet`, `ClientServerMet`), and definitions that come with two instances are shown to
say the same (`PushedSame`, ..., `SpecSame`).

### Command line

| `CmdOptionsProofs` | statement | argument |
|---|---|---|
| `OptionsRead` | `Spec => []OptionsAsTyped` | from `IInv` |
| `PositionalsRead` | `Spec => []PositionalsAsTyped` | from `IInv` |

`IInv` says that an option first stands in `argv` right before the value it was given
(`Meaning`), and that the scan of the line so far has found the words and, unless the
line has ended with an option without value, skips nothing of what is typed next. The
scan of a longer line goes on where that of the shorter one stopped (`ScanMore`).
The only assumption is that the first characters tell the kinds of arguments apart
(`Kinds`).

### Only model-checked

- `InsertsReachAll` and `EndsConsistent`: liveness under fairness is beyond the prover;
- the two runs that show a violation.

Every invariant and every other action property or refinement of a passing run is
stated by a theorem.

The definitions that are recursive functions (`TransformAll`, `IntegrateAll`, the loops of
`FixedDeque`, `Deduplicated`, `Scan`, `ApplyAllTo`, and `Do`, `PushedAll` and
`NonEmpty` of `Deques`) are reasoned about by `UpTo` and `Iterates`: that the
function exists and what holds after each iteration, with the invariant written as a set.

## Not modelled

Formatting, messages and timer; the commented-out `reverse`; `data_size` and what is
built on it (range insert, `assign`, range constructor), which cannot be instantiated
(`igush/size_helper.h:36` lacks `typename` and a pair of parentheses); memory of
`IgushArray` (`reserve` and a rebuilding `resize` leak the vector of the array they
fill); an argument that aliases an element of the container; a loop of 2^32 rounds
(`-r -1`), which would not end.

## Plan

Done: all modules above, their runs and theorems. What is left is small or out of reach:
1. liveness, if a prover for it becomes available: `EndsConsistent` needs only a measure
   of the loop's steps, and the refinements that it would be proved with are there;
2. the range insert, `assign` and range constructor, should `data_size` be repaired.
