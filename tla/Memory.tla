------------------------------- MODULE Memory -------------------------------
(***************************************************************************)
(* The allocator of nosql/memory.c: blocks that carry their size in a      *)
(* header, and the process-wide counter g_used_memory.                     *)
(*                                                                         *)
(* The counter is what several threads share.  `g_used_memory += size` is  *)
(* a load and a store; between them another thread may run, unless both    *)
(* are under g_used_memory_mutex, which g_malloc_thread_safe decides.  The *)
(* heap of the C library is thread safe: its calls are single steps.       *)
(***************************************************************************)
EXTENDS Integers, Sequences, FiniteSets, FiniteSetsExt

CONSTANTS
  Thread,              \* the threads that call the allocator
  Block,               \* bound: the blocks that can exist at a time
  Sizes,               \* bound: the sizes asked for
  Nobody,              \* holder of a mutex that is not locked
  Alignment,           \* sizeof(int64_t)
  PREFIX_SIZE,         \* sizeof(int), the header
  MaxDrift,            \* bound: how far the counter may be off, either way
  g_malloc_thread_safe \* the flag; no code of the repository sets it

ASSUME MemoryAssumption ==
  /\ Sizes \subseteq Nat
  /\ Alignment \in Nat \ {0}
  /\ PREFIX_SIZE \in Nat
  /\ g_malloc_thread_safe \in BOOLEAN
  /\ Nobody \notin Thread
  /\ IsFiniteSet(Thread) /\ IsFiniteSet(Block)

VARIABLES
  size,                \* the header of each block, Absent if there is none
  g_used_memory,
  mutex,               \* which thread has locked g_used_memory_mutex
  thread,              \* what each thread has still to do in its call
  aborted,             \* the out of memory handler has ended the process
  born,                \* history: the size each block was allocated with
  drift                \* history: what freed blocks have left in the counter

vars == <<size, g_used_memory, mutex, thread, aborted, born, drift>>

history == <<born, drift>>

-----------------------------------------------------------------------------
Absent == -1

(* n rounded up to a multiple of the alignment.                            *)
Aligned(n) == ((n + Alignment - 1) \div Alignment) * Alignment

(* What the counter gains for a block of n bytes and its header.           *)
Charge(n) == Aligned(n + PREFIX_SIZE)

(* Mutant: the header holds the bytes of the whole allocation.             *)
HeaderOfAll(n) == n + PREFIX_SIZE

(* What the header of a block of n bytes holds.                            *)
Header(n) == n

Live(b) == size[b] # Absent

(* What Realloc() counts for n bytes, less what Malloc() and Free() count. *)
HeaderError(n) == Aligned(n) - Charge(n)

(* What is too much in the counter for a block: the calls between its      *)
(* first size and its last do not matter.                                  *)
PaddingError(b) == HeaderError(size[b]) - HeaderError(born[b])

(* A thread in a call has the block of the call, the amounts that are      *)
(* still to be added to the counter, where it is with the first of them,   *)
(* the value of the counter it has loaded, and what becomes of the block.  *)
IdleThread ==
  [at |-> "idle", block |-> Nobody, updates |-> <<>>, loaded |-> 0,
   fate |-> "kept"]

(* Thread t is to take the step at; after an abort no thread takes any.    *)
At(t, at) == ~aborted /\ thread[t].at = at

Idle(t) == At(t, "idle")

(* A block has one owner: two threads never work on it at a time.          *)
InUse(b) == \E t \in Thread : thread[t].block = b

(* Mutant: the mutex is not used, whatever the flag.                       *)
EntryUnlocked == "load"

(* Where an update of the counter starts.                                  *)
Entry == IF g_malloc_thread_safe THEN "lock" ELSE "load"

(* A call on block b that has the amounts in updates to add.               *)
CallOn(b, updates) ==
  [at |-> Entry, block |-> b, updates |-> updates, loaded |-> 0,
   fate |-> "kept"]

(* Mutant: Malloc() does not count the header.                             *)
MallocUpdatesOfBody(n) == <<Aligned(n)>>

MallocUpdates(n) == <<Charge(n)>>

FreeUpdates(b) == <<-Charge(size[b])>>

(* Realloc() takes the old size of the block from the counter and adds the *)
(* new one, both WITHOUT the header that Malloc() and Free() count.        *)
ReallocUpdates(b, n) == <<-Aligned(size[b]), Aligned(n)>>

-----------------------------------------------------------------------------
Init ==
  /\ size = [b \in Block |-> Absent]
  /\ g_used_memory = 0
  /\ mutex = Nobody
  /\ thread = [t \in Thread |-> IdleThread]
  /\ aborted = FALSE
  /\ born = [b \in Block |-> Absent]
  /\ drift = 0

(* Malloc(), and Calloc(), which differs in the bytes of the block only.   *)
Malloc(t, b, n) ==
  /\ Idle(t) /\ ~Live(b) /\ ~InUse(b)
  /\ drift \in -MaxDrift..MaxDrift
  /\ size' = [size EXCEPT ![b] = Header(n)]
  /\ born' = [born EXCEPT ![b] = n]
  /\ thread' = [thread EXCEPT ![t] = CallOn(b, MallocUpdates(n))]
  /\ UNCHANGED <<g_used_memory, mutex, aborted, drift>>

(* Realloc() of a block; Realloc() of NULL is Malloc().                    *)
Realloc(t, b, n) ==
  /\ Idle(t) /\ Live(b) /\ ~InUse(b)
  /\ size' = [size EXCEPT ![b] = Header(n)]
  /\ thread' = [thread EXCEPT ![t] = CallOn(b, ReallocUpdates(b, n))]
  /\ UNCHANGED <<g_used_memory, mutex, aborted, history>>

(* Free(): the counter is updated first, the block goes last.              *)
Free(t, b) ==
  /\ Idle(t) /\ Live(b) /\ ~InUse(b)
  /\ thread' = [thread EXCEPT
                  ![t] = [CallOn(b, FreeUpdates(b)) EXCEPT !.fate = "freed"]]
  /\ UNCHANGED <<size, g_used_memory, mutex, aborted, history>>

(* malloc(), calloc() or realloc() fails: the handler aborts the process   *)
(* before the call has changed anything.                                   *)
OutOfMemory(t) ==
  /\ Idle(t)
  /\ aborted' = TRUE
  /\ UNCHANGED <<size, g_used_memory, mutex, thread, history>>

Lock(t) ==
  /\ At(t, "lock")
  /\ mutex = Nobody
  /\ mutex' = t
  /\ thread' = [thread EXCEPT ![t] = [@ EXCEPT !.at = "load"]]
  /\ UNCHANGED <<size, g_used_memory, aborted, history>>

Load(t) ==
  /\ At(t, "load")
  /\ thread' = [thread EXCEPT
                  ![t] = [@ EXCEPT !.at = "store", !.loaded = g_used_memory]]
  /\ UNCHANGED <<size, g_used_memory, mutex, aborted, history>>

Store(t) ==
  /\ At(t, "store")
  /\ g_used_memory' = thread[t].loaded + Head(thread[t].updates)
  /\ thread' = [thread EXCEPT
                  ![t] = [@ EXCEPT !.at = "stored",
                                   !.updates = Tail(thread[t].updates)]]
  /\ UNCHANGED <<size, mutex, aborted, history>>

(* Mutant: the mutex stays locked between the two updates of Realloc().    *)
UnlockAtTheEnd(t) ==
  IF g_malloc_thread_safe /\ thread[t].updates = <<>> THEN Nobody ELSE mutex

Unlock(t) == IF g_malloc_thread_safe THEN Nobody ELSE mutex

(* The update ends, and the call goes on to its next update or returns.    *)
EndUpdate(t) ==
  /\ At(t, "stored")
  /\ mutex' = Unlock(t)
  /\ thread' = [thread EXCEPT ![t] = [@ EXCEPT
                  !.at = IF thread[t].updates = <<>> THEN "return" ELSE Entry]]
  /\ UNCHANGED <<size, g_used_memory, aborted, history>>

Return(t) ==
  /\ At(t, "return")
  /\ LET b == thread[t].block
     IN  IF thread[t].fate = "freed"
         THEN /\ size' = [size EXCEPT ![b] = Absent]
              /\ born' = [born EXCEPT ![b] = Absent]
              /\ drift' = drift + PaddingError(b)
         ELSE UNCHANGED <<size, history>>
  /\ thread' = [thread EXCEPT ![t] = IdleThread]
  /\ UNCHANGED <<g_used_memory, mutex, aborted>>

Step(t) == Load(t) \/ Store(t) \/ EndUpdate(t) \/ Return(t)

Next ==
  \E t \in Thread :
    \/ \E b \in Block, n \in Sizes : Malloc(t, b, n)
    \/ \E b \in Block, n \in Sizes : Realloc(t, b, n)
    \/ \E b \in Block : Free(t, b)
    \/ OutOfMemory(t)
    \/ Lock(t)
    \/ Step(t)

Spec == Init /\ [][Next]_vars

(* A running thread does not stop for good inside an update: the system's  *)
(* scheduler is fair.  Nothing is assumed of who gets the mutex.           *)
FairSpec == Spec /\ \A t \in Thread : WF_vars(Step(t))

-----------------------------------------------------------------------------
ThreadState ==
  [at : {"idle", "lock", "load", "store", "stored", "return"},
   block : Block \cup {Nobody}, updates : Seq(Int),
   loaded : Int, fate : {"kept", "freed"}]

(* Every variable has its type.                                            *)
TypeOK ==
  /\ size \in [Block -> Sizes \cup {Absent}]
  /\ g_used_memory \in Int
  /\ mutex \in Thread \cup {Nobody}
  /\ thread \in [Thread -> ThreadState]
  /\ aborted \in BOOLEAN
  /\ born \in [Block -> Sizes \cup {Absent}]
  /\ drift \in Int

(* A thread that has loaded the counter stores into it before any other    *)
(* does: no update of another thread is overwritten.                       *)
NoUpdateIsLost ==
  g_malloc_thread_safe =>
    \A t \in Thread : thread[t].at = "store" => thread[t].loaded = g_used_memory

(* The bytes the living blocks take, headers and alignment included.       *)
AllocatedBytes == MapThenSumSet(LAMBDA b : Charge(size[b]), {b \in Block : Live(b)})

(* "Record the number of bytes that have been allocated" (memory.c:10):    *)
(* when no thread is in a call, the counter is what the blocks take.       *)
RecordsAllocatedBytes ==
  (\A t \in Thread : Idle(t)) => g_used_memory = AllocatedBytes

(* When no thread is in a call, all that is wrong with the counter is the  *)
(* padding of headers: for each block that is or was, what its first and   *)
(* its last size differ in.  It is exact as long as Realloc() keeps to     *)
(* sizes that pad alike.                                                   *)
CounterErrsByPadding ==
  (\A t \in Thread : Idle(t)) =>
    g_used_memory =
      AllocatedBytes + MapThenSumSet(PaddingError, {b \in Block : Live(b)}) + drift

(* A thread that updates the counter lets the others update it too before  *)
(* its next update, whatever the calls it makes.                           *)
MutexIsUnlocked ==
  \A t \in Thread : mutex = t ~> aborted \/ mutex # t

=============================================================================
