# Verification of nosql

TLA+ models, TLC model checking and TLAPS proofs for the C library in `src/nosql`:
the data structures of a small Redis-like store. The library is what there is of the
program: there is no server, no network and no persistence at this commit, so the
behaviours that matter are those of long sequences of calls, and of threads in the
allocator.

## The system

| Part | State | Operations | Used by |
|---|---|---|---|
| `dictionary.c/.h` | two hash tables (slot array, size, number of elements), `rehash_index_`, the static `dictionary_can_resize` | create, add, find, replace, delete, expand, rehash, release | tests |
| `memory.c/.h` | the size header of each block, `g_used_memory`, a mutex, a flag nothing sets | `Malloc`, `Calloc`, `Realloc`, `Free` | every other part |
| `double_linked_list.c/.h` | nodes with two links, `head_`, `tail_`, `length_`; iterators | create, free, add, insert, delete, rotate, search, index, iterate, duplicate | tests |
| `simple_dynamic_string.c/.h` | `length_`, `free_` and the bytes of each string | create, append, copy, grow, range, trim, compare | tests |
| `skip_list.c/.h` | head, tail, levels with forward pointers and spans | create, free, insert | nothing; does not compile |
| `object.c`, `nosql.h` | a reference count | decrease | skip list |

The parts call each other directly; there are no messages. All of them allocate through
`memory.c`. The callbacks are the methods of a `HashTableType` and of a `List`.

### What is hard about it

* **The dictionary rehashes inside other calls.** Each add, lookup or deletion first
  moves a slot from the first table to the second. A call therefore sees a dictionary
  that is half moved, may end the rehash itself, or may start one, between the moment it
  reads a flag and the moment it uses it. Counters, not chains, decide when a table is
  freed.
* **The iterator of a list keeps a pointer** while its caller adds and deletes nodes.
* **The counter of the allocator is shared** by threads, and `g_malloc_thread_safe`
  decides whether a mutex protects it.
* **Pointers that a call moves:** a string that grows may be at another address when its
  own bytes are read again.
* **Failure in the middle:** a list copy whose `Duplicate` method fails; out of memory.
* **Who frees what:** keys and values of a dictionary, values of a list and its copies,
  objects shared by the nodes of a skip list and by callers.
* **Numbers at a boundary:** a size or a string near `INT_MAX`, an index equal to the
  length, a negative `char` as an index, rounding of sizes with and without the header.

`PROJECT.json` lists each hazard at its line with the properties that cover it, or the
reason why none does yet.

### What makes each part correct

* Dictionary: a map from keys to values whatever the rehash is doing; counters equal to
  chains; no node lost, duplicated or left behind; no access outside an array; every
  rehash ends; references to keys and values are those of the nodes.
* Memory: the counter is the number of bytes allocated; no update is lost; a mutex that
  is taken is released.
* List: the links form one sequence in both directions, of `length_` nodes; a node is in
  one list; a walk meets every node once; a value is freed with its node.
* String: `length_` and `free_` add up to the allocation; the terminator is inside it; a
  call does to the bytes what its name says.
* Skip list: the spans of each level add up to ranks; order; backward pointers; an object
  is freed with its last owner.

## Modules

| Module | What it is |
|---|---|
| `Dictionary` | `dictionary.c`, as written |
| `NodeStore` | abstract: a bag of (key, value) nodes, what the dictionary really keeps |
| `KeyValueMap` | abstract: an associative array, what `dictionary.h` promises |
| `DictionaryRefinement` | the refinement mappings from `Dictionary` to both |
| `DictionaryClaims` | what comments of the source say and the code does not do |
| `MCDictionary` | instances for TLC: keys, hash function, view |
| `Memory` | `memory.c`, with threads |
| `DoubleLinkedList` | `double_linked_list.c`, nodes as pointers |
| `NodeSequences` | abstract: lists as sequences of nodes |
| `MCDoubleLinkedList` | instances for TLC |
| `DynamicString` | `simple_dynamic_string.c`: header, bytes and allocation |
| `ByteStrings` | abstract: strings as sequences of bytes |
| `StringClaims` | what two comments of the strings say and the code does not do |
| `MCDynamicString` | instances for TLC |
| `SkipList` | `skip_list.c`, read as its comments demand |
| `Objects` | `object.c`, the reference count that `SkipList` composes with |
| `SortedItems` | abstract: a sorted sequence of objects that live while owned |
| `MCSkipList` | instances for TLC |
| `NaturalLemmas` | facts about numbers, iterations, sums and insertion into sequences that several proofs use |
| `DictionaryLemmas`, `DictionaryProofs` | proofs about `Dictionary`: operations, the invariant, whole calls |
| `DictionaryNodeProofs` | proofs about the nodes of `Dictionary`: the references, the refinement of `NodeStore`, that of `KeyValueMap` by a small dictionary |
| `DynamicStringProofs` | proofs about the strings: allocation, types, the refinement of `ByteStrings` |
| `MemoryProofs` | proofs about the allocator |
| `DoubleLinkedListProofs` | proofs about the lists: paths, the invariant, each call, the refinement |
| `SkipListProofs` | proofs about the skip list: the search, the insertion, walks, references, the refinement |

### Dictionary

The program is sequential, so each exported function is one action and includes every
call it makes: `Add` is the rehash step, the expansion, the search and the link of
`DictionaryAdd()`. `RehashSlots(d, n)` is the double loop of `DictionaryRehash()` in
closed form: `LoopEndings` are the indexes at which a loop condition ends it (n filled
slots moved, `10 * n` empty ones visited, no element left by the counter), and the loop
stops at the first. `MoveSlots` is what it has done by then.

The model follows the code where the code is wrong:

* nodes are moved to the slot of the same index (line 109), each chain reversed;
* `AddTable` is chosen before the rehash step and the expansion (line 300), the index
  after them;
* `KeyIndex` looks for an equal key in one table (line 270);
* `CanExpand` accepts a smaller table (line 185).

A call that is undefined in C (an index past an array, a NULL slot array, a double free)
sets `status` to the name of the fault, and no action is enabled then: nothing is claimed
about what happens after undefined behaviour. For this reason the configurations switch
the deadlock check off.

What is abstracted: `hash & size_mask_` is `% size` (sizes are powers of two times the
initial size; `%` of a negative hash is non-negative in TLA+, as the mask is in two's
complement). `TableSizes` are the sizes an int can hold: a request beyond the largest is
`size_overflow`. The union of value types is one set `Value`; `Unset` is what the caller
of `DictionaryAddRaw()` fills in. `DictionaryDelete()` and `DictionaryDeleteNoFree()` are
one action: the one destroys the key and the value, the other leaves them to the caller.
`DictionaryGetValue()` is `Find`. `iterator_number_` is always 0: no function changes it.
`DictionaryClear()` is modelled as `DictionaryRelease()` calls it; it never advances (line
517), so releasing a dictionary with a node frees it twice.

Two variables are not the program's. `result` is the reply of the last call that takes a
key, with the call and the key it was asked for, so that the abstract specifications
cannot explain a reply by some other call; what `DictionaryRehash()` and
`DictionaryExpand()` return can be read off the state. No action reads it: the
configurations leave it out of the states TLC tells apart (`VIEW WithoutReply`), and each
step is still checked with the reply it makes. `references` counts the references to keys
and values that the methods of the type have made and not destroyed. A value counts its
references, as the comment at line 414 assumes ("the value may be the same as the previous
one"): the last one destroyed destroys the value.

### Memory

`Malloc` (with `Calloc`), `Realloc` and `Free` start a call in a thread and give it a list
of amounts to add to the counter: one, or two for `Realloc`. Each amount goes through
`Lock` (if the flag is set), `Load`, `Store` and `EndUpdate`, and `Return` ends the call.
Steps of several threads interleave freely. The C library's own heap functions are thread
safe and are part of the step that calls them. A block has one owner, as C demands.
`OutOfMemory` ends the process before the call has changed anything.

`born` and `drift` are history: the size each block was allocated with, and what freed
blocks have left in the counter. `Realloc()` counts sizes without the header and `Malloc()`
and `Free()` with it, so the counter is not the bytes allocated (run `memory_realloc`).
`CounterErrsByPadding` says what it is instead, exactly: between calls it is off by what
the padding of the first and the last size of each block differ in. `MaxDrift` bounds the
drift: no block is allocated beyond it.

### DoubleLinkedList

`node` is the heap: the links and the value of each address. Each exported function is an
action that makes the assignments of the C code under its conditions. `Walk` follows
links and is bounded by the number of nodes, so that a broken list is a state TLC can
show. The iterator's record also holds two history fields, `seen` and `due`. `result` is
what the last call on a list returned, with what it was asked for.

`allocated` is history too: how many values of each content exist for lists that own
them. With `HasFree` the caller hands each value over, `ListDuplicate()` makes new ones
with the Duplicate method, and `ListFree()` and `ListDeleteNode()` free them.

A copy whose Duplicate method fails after k nodes is carried out, not assumed away:
`DuplicateFails` links the k nodes into the heap at addresses that were free, with the
values made for them, and then does to that list what `ListFree()` does to any
(`FailedHeap`). That the heap and the counts are afterwards what they were is a result
(`DuplicateFailsRestores`), and a release that forgets a node breaks `NodesAreOwnedOnce`.

Callers keep these rules: a node is passed with its own list; while a list is walked only
the node returned last is deleted ("It's valid to remove the returned element using
`ListDeleteNode()`, but not to remove other elements", line 139), and the list is neither
freed nor rotated; a list with a Free method is copied only if it has a Duplicate method.
The rules about rotation and about copies are this model's: the source does not speak of
them. A rotation would make the walk skip or repeat the rotated node, and a shared value
would be freed by both lists.

`NodeSequences` is the same API over sequences of nodes. It knows nothing of links; a copy
may fail there too, after any number of nodes, and leaves no list behind.

### DynamicString

One action per exported function, with the caller's bytes from a small set. A string is
its header (`length`, `free`) and its array, a sequence as long as the allocation: a byte that
`realloc()` returns is `Junk` until something writes it. `Reserved` is
`SDSAllocateMemory()`, which appends, copies and growth call first.

A call may be undefined in three ways, and the status names which: the size passed to
`Malloc()` or `Calloc()` for a new string (line 15), or to `Realloc()` for one that grows
(line 94), does not fit an int (`int_overflow`); a string without room is appended to
itself, and its bytes are read where it was (`stale_read`); `SDSTrim()` indexes `map[]`
with a negative char (`map_out_of_bounds`). `ByteStrings` says, over sequences of bytes
alone, when each may happen, and `ImplementsByteStrings` shows that they happen at no
other time: a new string overflows exactly if its bytes with header and terminator do not
fit, one that grows only if they do not fit with the preallocation, and an empty string
and a duplicate never, because what exists fits (`SizesAddUp`).

At two places a comment promises more than the code does. `ByteStrings` promises what the
code keeps, and says so; `StringClaims` states the comments, which the runs `string_range`
and `string_compare` refute. `SDSRange()` demands `begin < end` although its interval is
inclusive (line 196), so a range of one byte empties the string. The comment on
`SDSCompare()` (line 258) promises 1, -1 or 0, and the code returns the difference of the
lengths when one string starts with the other. Otherwise it returns `memcmp()`'s result, of
which C promises, and the model keeps, only the sign.

### SkipList and Objects

`skip_list.c` does not compile. The model reads it as its comments and the rest of its
code demand, at five places: `level_[]` has to be the last member of a node
(`skip_list.h:19`); line 96 means the head's levels; `levle_` in line 123 and `level[0]`
in line 138 are spelling; line 29 lacks the return of the new list. Two functions are
nowhere defined: `SkipListRandomLevel()` may return any level, and
`CompareStringObjects()` orders objects by `Name`.

`Insert` is the search on every level, each from where the level above ended, with the
ranks met on the way, and the relinking. The two nested loops of the search are rounds of
one iteration (`SearchRound`): a round goes on to the next node of the level, or enters
`previous[]` and `rank[]` of the level and goes down. There are as many rounds as nodes and
levels together, which are always enough; when the loops have ended a round does nothing. The model does not assume that the search is
right: `Search` adds up the spans as they are, and `SpansMeasureRanks` relates them to
places in the list.

`SkipList` composes with `Objects`: an insertion hands the caller's reference to the node,
and `SkipListFree()` gives one back for each node. How objects come to be and gain
references has no code in the repository and is external (`NewObject`, `Retain`); the
release is `DecreaseReferenceCount()`.

## Runs

| Run | Checks | Bounds |
|---|---|---|
| `dictionary_calls` | types, counters = chains, rehash frontier, no overrun, replace finds its node, references = nodes, first table drains; implements `NodeStore`; every rehash ends, under fairness of lookups | sizes 1, 2, 4, 8, 3 keys (one negative, two that collide), 3 nodes, 1 value and `Unset`, load factor 1, one empty slot per step, requests for 1, 7 and 9 slots, rehashes of 0 and 2 slots |
| `memory_threads` | no lost update, the exact error of the counter, mutex released | 2 threads, 2 blocks, sizes 4 and 8, drift up to 8, flag set |
| `list_calls` | both directions and the length agree, nodes owned once, values freed with their nodes, iteration meets every node once; implements `NodeSequences` | 2 lists, 3 nodes, 2 values, copies that fail |
| `strings` | header = allocation, terminator inside; implements `ByteStrings` | 2 strings, up to 3 bytes of {-1, 0, 97}, sources of 2 bytes and one of 7, needs of -1 to 3 and 7, preallocation 3, header 8, `INT_MAX` 15 |
| `skip_list` | spans = ranks, levels agree, references = owners; implements `SortedItems` | 4 nodes, 2 objects, 2 scores, 3 levels, 2 references held |

Small sizes make the interesting cases common. With an initial size of 1, a load factor
of 1 and one empty visit per step, three adds already produce two growths, rehashes that
stop in the middle of a table, steps that only pass empty slots, and negative hashes. A
table of 8 is needed so that a rehash can be partial from 4 to 8; a request for 9 slots is
one that no int of this small machine holds. The claims that need a growth of a filled
table start with tables of 4 slots. Three nodes give a list a head, a middle and a tail, and a copy of one node
beside it. Sizes 4 and 8 are the two residues that pad differently with a header of 4.
`INT_MAX` is the header, a
terminator and six bytes. A string that grows to three bytes is given, with the
preallocation, room for six (line 92), which fits; one that would grow to four is to get
seven, which does not; and a new string of seven bytes does not fit at line 15. A
preallocation of 3 separates sizes that are doubled from those that are not. Four nodes on
three levels include an insertion before, between and behind nodes of greater, equal and
smaller height.

Addresses are interchangeable: the nodes of lists and of the skip list and the strings are
symmetric; no run with symmetry checks a liveness property. The view of the strings leaves
out the bytes behind the terminator, which no call reads, and the reply.

The extent of the promise of a map is a theorem and has no run: as long as nothing starts
a rehash the dictionary is one (`SmallDictionaryIsAMap`). Beyond it only `NodeStore` holds:
a bag of nodes that only the caller's own operations change, in which lookups may miss and
a key may have several nodes.

With the flag of the allocator off and two threads updates are lost; the repository has no
second thread, so this is a hazard and not a finding.

The deadlock check is on where the system can always go on (the linked lists' calls and the
skip list); elsewhere a behaviour may end: in a fault or in an abort.

### Disagreements between the code and its comments

Each run of this kind checks one claim a comment makes and ends in a counterexample.

| Run | Claim | What happens |
|---|---|---|
| `dictionary_lost_key` | a lookup returns the node of its key | after a growth, keys are in the slots of the old mask |
| `dictionary_duplicate_key` | no two elements have the same key | an add starts the rehash: its key is sought in the new, empty second table, and by the stale flag of line 300 linked a second time in the first |
| `dictionary_add_out_of_bounds` | the index is a slot of the table the key is added to | an add that starts a rehash writes the old array at an index of the new |
| `memory_realloc` | the counter is the bytes allocated | it drifts by 8 |
| `list_failed_copy` | the copy that failed is NULL | the freed list is returned |
| `string_range` | the interval `[begin, end]` is inclusive | a range of one byte empties the string |
| `string_compare` | 1, -1 or 0 is returned | the difference of the lengths, 2, is |

Five consequences have no run of their own. Once a rehash is under way, a key that has not
been moved yet is missed by line 270 in the same way as in `dictionary_duplicate_key`, and
its second node goes to the second table. `DictionaryRelease()` of a dictionary with a node
has no other outcome than a double free (status `double_free`, line 517). An add whose rehash step ends the rehash
writes through the second table's NULL array (status `add_null_slot`; the claim
`AddsWithinTheTable` covers it). A replacement during a rehash that adds a second node
leaves the old value to be found first (the cause is that of `dictionary_duplicate_key`).
And a request for a smaller table, which `DictionaryExpand()` accepts, makes the rehash
write past the smaller array (status `rehash_out_of_bounds`; the cause is line 109, as for
`dictionary_lost_key`).

### Fairness

`RehashEnds` assumes weak fairness of lookups that change the dictionary
(`WF_dictionary(\E k \in Key : Find(k))`): the dictionary stays in use.
The code rehashes in no other way than inside calls, so without it a rehash would simply
stop. Nothing is assumed about adds, deletions or expansions. `MutexIsUnlocked` assumes that
a thread that is running keeps running, as a fair scheduler gives; nothing is assumed
about who gets a mutex.

## Proofs

TLC checks small instances; the following holds for every value of the constants that
meets the assumptions declared in the module.

| Theorem | Module | States |
|---|---|---|
| `TypeCorrectness` | `DictionaryProofs` | `Spec => []TypeOK` |
| `CountersAreRight` | `DictionaryProofs` | `Spec => []CountsMatchChains` |
| `NoNodeIsLeftBehind` | `DictionaryProofs` | `Spec => []RehashFrontier` |
| `RehashStaysInTheTable` | `DictionaryProofs` | `Spec => []NoRehashOverrun` |
| `ReplaceMeetsItsNode` | `DictionaryProofs` | `Spec => []ReplaceFindsNode` |
| `FirstTableOnlyDrains` | `DictionaryProofs` | `Spec => FirstTableDrains` |
| `ReferencesAreTheNodes` | `DictionaryNodeProofs` | `Spec => []NodesHoldReferences` |
| `DictionaryImplementsStore` | `DictionaryNodeProofs` | `Spec => ImplementsNodeStore` |
| `SmallDictionaryIsAMap` | `DictionaryNodeProofs` | `StaysSmall /\ Spec => ImplementsMap` |
| `TypeCorrectness` | `DynamicStringProofs` | `Spec => []TypeOK` |
| `AllocationIsAccounted` | `DynamicStringProofs` | `Spec => []SizesAddUp` |
| `StringsAreBytes` | `DynamicStringProofs` | `Spec => ImplementsByteStrings` |
| `TypeCorrectness` | `MemoryProofs` | `Spec => []TypeOK` |
| `UpdatesAreKept` | `MemoryProofs` | `Spec => []NoUpdateIsLost` |
| `CounterIsKept` | `MemoryProofs` | with the mutex, or for one thread, `Spec => []CounterErrsByPadding` |
| `InvHolds` | `DoubleLinkedListProofs` | `Spec => []Inv` |
| `TypeCorrectness` | `DoubleLinkedListProofs` | `Spec => []TypeOK` |
| `ListsStayWellLinked` | `DoubleLinkedListProofs` | `Spec => []ListsAreWellLinked` |
| `NodesStayOwnedOnce` | `DoubleLinkedListProofs` | `Spec => []NodesAreOwnedOnce` |
| `ValuesStayWithNodes` | `DoubleLinkedListProofs` | `Spec => []ValuesAreFreedWithNodes` |
| `IterationStaysComplete` | `DoubleLinkedListProofs` | `Spec => []IterationMeetsEveryNodeOnce` |
| `PointersImplementSequences` | `DoubleLinkedListProofs` | `Spec => ImplementsNodeSequences` |
| `Invariance` | `SkipListProofs` | `Spec => []Inv` |
| `TypeCorrectness` | `SkipListProofs` | `Spec => []TypeOK` |
| `SpansAreDistances` | `SkipListProofs` | `Spec => []SpansMeasureRanks` |
| `LevelsOfOneOrder` | `SkipListProofs` | `Spec => []LevelsAgree` |
| `CountsAreOfOwners` | `SkipListProofs` | `Spec => []ReferencesAreCounted` |
| `LevelsImplementOrder` | `SkipListProofs` | `Spec => ImplementsSortedItems` |

**Dictionary, the invariant.** The first four follow from one inductive invariant, `Inv`
(`IsSound` of the dictionary and the types of the rest): the dictionary has its type, both
counters match their chains, the frontier is where it should be, and the status is not
`rehash_overrun`. None of the parts is inductive alone. That the loop stops inside the
first table needs the counter to be the number of nodes, and the slots behind the frontier
to be empty: then the nodes that are left are ahead, and the loop meets the last of them
at the latest (`LoopEndings` is not empty). That the counters stay right needs the moved
slots to be counted once, which needs the frontier. And that a finished rehash leaves no
node behind is the counter being zero together with its being right. `DictionaryLemmas`
has the facts about single operations: how linking, unlinking and setting a value change
the number of places of a table, and how moving a range of slots divides them between the
two tables.

**Dictionary, whole calls.** `DictionaryReplace()` contains a rehash step, perhaps an
expansion, a refused add and a second rehash step before it dereferences what it found.
`WantedExpansionIsMade` shows that the expansion is never what refuses the key, so a node
did (`RefusalHasItsNode`), in the table `DictionaryKeyIndex()` chose; no slot of the second
table loses a key when slots are poured onto it (`GainedTableKeepsMatch`), and a rehash
that ends puts that table first (`TouchFindsMatch`). For the draining of the first table a
call may end a rehash and begin another; the invariant is strengthened by `SizesDiffer`
(during a rehash the two tables have different sizes), which tells the two rehashes apart,
and each part of a call is shown to advance (`Advances`).

**Dictionary, its nodes.** `Held(d, C)` is the number of nodes of `d` that are in `C`, for
any set `C` of nodes. A rehash step, whether it goes on, ends the rehash or faults, and an
expansion leave it alone for every `C` (`HeldByRehash`, `HeldByExpand`): the chains of the
moved slots are reversed and put before those of the second table, which is a bijection of
places that keeps the nodes (`HitsOfPour`, `NodesOfMoved`). Linking adds one node,
unlinking takes one away, setting a value exchanges two (`HeldByAdd`, `HeldByRemove`,
`HeldByReplace`). The two theorems are two readings of this. With the nodes of one key, or
of one value, for `C`, `Held` is what `references` should be; the invariant `HoldInv` also
needs that an absent dictionary has no node, since `DictionaryCreate()` replaces it. With
`{n}` for `C` it is the bag of `NodeStore`, and each action of `Dictionary` is an action of
`NodeStore`, its `Break`, or a stutter (`StoreStep`). What is left there is that a refused
key has a node (`RefusedIsCopied`, from `RefusalHasItsNode`) and that a value that is
returned is one of the key (`FoundIsCopied`). A node that the code puts in the wrong slot
counts all the same: the bag does not say that lookups find it, and they do not.

**Dictionary, the map.** Lookups do find every node while no rehash starts, and the theorem
names when that is: `StaysSmall` bounds the nodes, and the sizes that are asked for, by
`DICTIONARY_HASH_TABLE_INITIAL_SIZE`. A key is then added to fewer nodes than slots, so the
ratio is 0 and nothing expands but the table of size 0; and the power of two for every
request is the initial size, the least of them (`LeastSize`, `SmallPower`), so
`DictionaryExpand()` makes the first table or refuses. Without that hypothesis the statement
is false, as `dictionary_lost_key` shows. The invariant `MapInv` adds to `Inv` that no chain
has a key twice (`NoTwins`): then the search returns the only node of the key
(`SearchOfChain`), and linking, unlinking or changing it leaves what the chain answers for
other keys (`LinkedChain`, `UnlinkedChain`, `RevaluedChain`), even keys that collide with it.

The assumptions are those the code justifies: the sizes of tables are the initial size
doubled some number of times, an int holds the size for every number of nodes the bound
allows, a hash is any integer, and NULL and the uninitialized value are not values.

**Strings.** The inductive invariant `Inv` is the type together with `SizesAddUp` and with
every byte of the string having been written (`IsSound`): that `free_` never falls below
zero needs the room that was asked for to be there, and that no byte that `realloc()`
returned becomes part of a string needs the bytes in the array as well as the sizes. That
the size of an allocation is an int (`Fits`) is kept because whatever would not fit is
undefined first; it is why a duplicate of a string that exists is always made.
`Holds(r, bytes)` says of a header that it is sound and holds these bytes. `EndedHolds` is
the fact about writing bytes and a terminator, `ReservedHolds` the one about
`SDSAllocateMemory()` that all the calls that grow use: a move keeps the bytes and makes
the room.

For the refinement each function is one operation of `ByteStrings` on the texts
(`InvNext`, one lemma for each function). `ByteStrings` states the results without an
algorithm, so three of them are matched by an argument about sequences: the part before
the first NUL is the only prefix a C function can read (`CStringsAgree`); what
`SDSTrim()` leaves, between the first and the last byte that it keeps, is the middle of
three parts whose outer ones are of the set, and `map[]` is indexed below 0 exactly if the
set or an end of the middle is negative (`TrimParts`); and the first place where two
strings differ decides the order of the dictionary, or the lengths if there is none
(`FirstDifference`, `NoDifference`), because bytes that differ do so without their signs.
The assumptions are those of the constants (chars are of 8 bits, callers pass chars that
have been written) and that NULL is neither a header nor a sequence of bytes.

**Allocator.** The inductive invariant is `TypeOK`, that a thread inside an update has an
update left to make, that a block in a call is that thread's alone, mutual exclusion (a
thread in an update of a locked counter is the holder of the mutex), and `NoUpdateIsLost`
itself: between a load and its store only the holder of the mutex could have stored.

What the counter holds between calls needs to be known inside calls. `Ledger` is the
balance: the counter, with the debt of each thread (the amounts it has still to add, and
the charge of a block it has paid for and not yet freed), is the sum of the shares of the
living blocks (what the calls on a block have counted for it) and the drift. A step changes
one debt and one share (`LedgerMoves`); that it changes them alike is where `Malloc()`,
`Realloc()` and `Free()` meet, and a store adds to the counter what it takes from the debt
because its load is still current (`LoadsAreCurrent`). Between calls nobody owes anything,
and a share is the bytes of the block and its padding error (`LedgerAtRest`). The theorem
covers the locked counter with any number of threads and the unlocked one with a single
thread, which is how this repository runs; it assumes finitely many threads and blocks. The
sums are the folds of the model: `NaturalLemmas` shows that such a fold does not depend on
the order (`SumInAnyOrder`) and how it changes with one value (`TotalChanges`).

**Lists.** The properties speak of walks along links, which are recursive functions; the
argument speaks of paths instead, one sequence of nodes for each list. `Fit(N, S, P)` says
that heap `N` and list records `S` are those of the paths `P`: the neighbours of a place
are the links of its node, the ends and the length are those of the path, no node is on
two paths, and a node that is in the heap is on some path. `WalkIsPath` and `WalkIsReverse`
show that the walks are then the paths and their reverses; their inductions are over sets
of numbers (`NaturalInduction`, `IterationExists` in `NaturalLemmas`), because the
library's induction theorems cannot be instantiated. Each call is shown to do one thing to
one path: to insert (`Inserts`), to remove, rotate, free or copy. `PathReplaced` is the
frame: the other lists keep their paths.

The inductive invariant `Inv` is `Fit` of the walks themselves, together with the types,
the iterator being in step with its path (`InStep`) and the counts of owned values being
those of the nodes (`Counted`). `ListsAreWellLinked` alone is not inductive: an insertion
could link a node of another list. `NodesAreOwnedOnce` alone is not: a deletion trusts the
links. `IterationMeetsEveryNodeOnce` needs to know that the node returned last has been
seen and is on the path; then its deletion takes nothing away that is ahead
(`RemovedAhead`), and an insertion puts at most the new node ahead (`InsertedAhead`). A
failed copy is a list like any other until it is freed: its nodes are a path
(`CopyNodesCopy`), so `ListFree()` meets all of them and gives back the values made for
them (`FailedCopyIsFreed`), and heap and counts are what they were before
(`DuplicateFailsRestores`).

For the refinement the sequence of a list is its path (`SequenceIsPath`), and each action
of `DoubleLinkedList` is the action of `NodeSequences` with the same parameters, or leaves
the sequences and the values alone (`NextSequences`). The assumptions are that there are
finitely many nodes, that NULL is not a list, a node, a value or a sequence of nodes, and
that the methods are there or not.

**Skip list.** What all levels agree on is nowhere in the state: the argument names it. A
ranking `r` numbers the nodes from 1 on, and `Fit(N, L, r)` says that heap `N` and list
record `L` are those of `r`: on each level the link of a node goes to the next node by `r`
that has the level, and the span is the difference of their ranks, or what is left up to
`length_`; the backward links, the tail, the highest level and the order of the items agree
with `r`. The inductive invariant `Inv` is that such a ranking exists (or that there is no
list and no node), with the counts of objects being those of their owners. None of the
properties is inductive alone. The spans of an insertion are computed from spans of other
levels, so `SpansMeasureRanks` needs that the levels share one order; `LevelsAgree` needs
that the search ends next to the same place on every level, which is so only if the items
are sorted; and that they stay sorted needs the search again.

The search is an iteration over `SearchStates`. Each round that is not the last either
moves to a later rank or ends a level (`RoundAdvances`), so the rounds suffice; what it
leaves behind is `Split`: `previous[l]` is the last node of level `l` before the new item,
`rank[l]` is its rank, and the nodes before the item are those up to `rank[0]`. The
ranking after the insertion is `r` with the ranks behind `rank[0]` moved by one and the new
node between; `InsertFits` shows each part of `Fit` for it, with the spans cut, filled or
only passed over by cases. A walk of a level visits its nodes by their ranks
(`LinkedInOrder`), from which the properties of `SkipList`, which speak of walks, follow.

The release meets each node once, so that every object loses as many references as nodes
hold it (`FreeCounts`), and `DecreaseReferenceCount()` frees it exactly if no caller holds
it too. For the refinement the sequence of `SortedItems` is the items by rank, and an
insertion is `InsertAt` behind `rank[0]` (`InsertedItems`). The assumptions are that there
are finitely many nodes, that the head is not one of them, that NULL is neither a node nor
a record nor a sequence, and that scores and names are integers: no NaN, which
`SkipListInsert()` asserts.

**Only model-checked.** That a rehash ends (`RehashEnds`) and that the mutex is unlocked
again (`MutexIsUnlocked`) are liveness properties, beyond this prover. The runs of the claims end in
counterexamples; there is nothing to prove about them.

## Not modelled

* Overflow of the allocator's counter and of a size with its header (`memory.c:86`): sizes
  are small numbers in `Memory`. The sizes that strings pass are checked before, in
  `DynamicString`, without the prefix that `Malloc()` adds.
* The order in which a rehash or a release calls the methods of the type, and a
  `KeyCompare` that is not an equivalence.
* Threads in the allocator without the mutex: nothing sets `g_malloc_thread_safe` and
  nothing makes a thread. The theorem about the counter covers one thread without it.
* `SDSCompare()`'s and the lists' use of a `Match` that is not an equality.
* Contents of memory blocks, and the allocation each part makes through `memory.c`: every
  part except `DynamicString` sees memory only as nodes that exist.
* The test programs and the build. The tests are read as examples of legal calls.

## Plan

1. (done) `Dictionary` with its abstract specifications, runs, claims and the invariant
   proofs; `Memory`; `DoubleLinkedList` with `NodeSequences`.
2. (done) `DynamicString` with `ByteStrings` and its proofs; `SkipList` with `Objects` and
   `SortedItems`; the exact error of the allocator's counter, and the proofs that it is
   exact and that no update is lost; ownership of values in lists, keys and values in dictionaries; failing copies
   in the abstract list; requests that overflow an int; the proofs about whole calls of
   the dictionary.
3. (done) The references of the dictionary and the step simulation between `Dictionary`
   and `NodeStore`, from one count of the nodes in any set.
4. (done) Theorems about the lists, with the refinement of `NodeSequences`, and about the
   skip list, with the refinement of `SortedItems`; the refinement of `ByteStrings`, and
   that of `KeyValueMap` by a dictionary that stays small.
5. The counter and sizes of `Memory` with 32-bit integers.
