---------------------------- MODULE MemoryProofs ----------------------------
(***************************************************************************)
(* The types of the allocator, that no update of its counter is lost when  *)
(* the mutex is in use, and what the counter holds between calls: for any  *)
(* number of threads, blocks and sizes.                                    *)
(***************************************************************************)
EXTENDS Memory, NaturalLemmas, SequenceTheorems, TLAPS

(* A thread in an update that has not been made has an amount to add.      *)
UpdatesPending ==
  \A t \in Thread :
    thread[t].at \in {"lock", "load", "store"} => thread[t].updates # <<>>

(* A thread in a call has a block of its own, which lives until the call   *)
(* returns.                                                                *)
BlocksAreOwned ==
  /\ \A t \in Thread : thread[t].at # "idle" =>
       thread[t].block \in Block /\ Live(thread[t].block)
  /\ \A t, u \in Thread :
       t # u /\ thread[t].at # "idle" /\ thread[u].at # "idle" =>
         thread[t].block # thread[u].block
  /\ \A b \in Block : size[b] = Absent <=> born[b] = Absent

(* The thread that has the mutex is the one between its lock and unlock.   *)
MutualExclusion ==
  g_malloc_thread_safe =>
    \A t \in Thread : thread[t].at \in {"load", "store", "stored"} <=> mutex = t

Inv ==
  /\ TypeOK
  /\ UpdatesPending
  /\ BlocksAreOwned
  /\ MutualExclusion
  /\ NoUpdateIsLost

-----------------------------------------------------------------------------
LEMMA AmountsAreIntegers ==
  ASSUME NEW n \in Nat
  PROVE  Aligned(n) \in Int /\ Charge(n) \in Int /\ HeaderError(n) \in Int
<1>1. \A m \in Int : Aligned(m) \in Int
  <2>1. Alignment \in Int /\ Alignment > 0
    BY MemoryAssumption
  <2>2. \A m \in Int : (m + Alignment - 1) \div Alignment \in Int
    BY <2>1
  <2>3. QED BY <2>1, <2>2 DEF Aligned
<1>2. n + PREFIX_SIZE \in Int
  BY MemoryAssumption
<1>3. QED
  BY <1>1, <1>2 DEF Charge, HeaderError

LEMMA LiveSize ==
  ASSUME TypeOK, NEW b \in Block, Live(b)
  PROVE  size[b] \in Sizes /\ size[b] \in Nat
BY MemoryAssumption DEF TypeOK, Live

(* An idle thread, and one at the start of a call.                         *)
LEMMA ThreadsAreTyped ==
  /\ IdleThread \in ThreadState
  /\ \A b \in Block, updates \in Seq(Int) : CallOn(b, updates) \in ThreadState
BY DEF IdleThread, CallOn, Entry, ThreadState

LEMMA InvInit == Init => Inv
<1> SUFFICES ASSUME Init PROVE Inv
  OBVIOUS
<1>1. TypeOK
  <2>1. size \in [Block -> Sizes \cup {Absent}] /\ born \in [Block -> Sizes \cup {Absent}]
    BY DEF Init
  <2>2. g_used_memory \in Int /\ drift \in Int
    BY DEF Init
  <2>3. mutex \in Thread \cup {Nobody}
    BY DEF Init
  <2>4. thread \in [Thread -> ThreadState]
    BY ThreadsAreTyped, Zenon DEF Init
  <2>5. aborted \in BOOLEAN
    BY Zenon DEF Init
  <2>6. QED BY <2>1, <2>2, <2>3, <2>4, <2>5, Zenon DEF TypeOK
<1>2. \A t \in Thread : thread[t].at = "idle" /\ mutex # t
  BY MemoryAssumption DEF Init, IdleThread
<1>3. \A b \in Block : size[b] = Absent /\ born[b] = Absent
  BY DEF Init
<1>4. UpdatesPending /\ BlocksAreOwned /\ NoUpdateIsLost
  BY <1>2, <1>3 DEF UpdatesPending, BlocksAreOwned, NoUpdateIsLost
<1>5. MutualExclusion
  BY <1>2 DEF MutualExclusion
<1>6. QED
  BY <1>1, <1>4, <1>5, Zenon DEF Inv

-----------------------------------------------------------------------------
(* What the steps of a thread have in common: the thread's new state has   *)
(* its type, and the other threads keep theirs.                            *)
LEMMA ThreadStep ==
  ASSUME TypeOK, NEW t \in Thread, NEW STATE s, s \in ThreadState,
         thread' = [thread EXCEPT ![t] = s]
  PROVE  /\ thread' \in [Thread -> ThreadState]
         /\ thread'[t] = s
         /\ \A u \in Thread : u # t => thread'[u] = thread[u]
BY Zenon DEF TypeOK

(* A call that starts on a block nobody works on.                          *)
LEMMA CallStarts ==
  ASSUME Inv, NEW t \in Thread, NEW b \in Block,
         NEW STATE updates, updates \in Seq(Int),
         NEW STATE s, s \in ThreadState,
         Idle(t), ~InUse(b), updates # <<>>,
         s.at = Entry, s.block = b, s.updates = updates,
         thread' = [thread EXCEPT ![t] = s],
         size'[b] # Absent,
         \A c \in Block : c # b => size'[c] = size[c] /\ born'[c] = born[c],
         born'[b] # Absent,
         UNCHANGED <<g_used_memory, mutex>>
  PROVE  UpdatesPending' /\ BlocksAreOwned' /\ MutualExclusion' /\ NoUpdateIsLost'
<1> USE DEF Inv
<1>1. /\ thread'[t] = s
      /\ \A u \in Thread : u # t => thread'[u] = thread[u]
  BY ThreadStep
<1>2. \A u \in Thread : u # t => thread[u].block # b
  BY DEF InUse
<1>3. UpdatesPending'
  BY <1>1 DEF UpdatesPending
<1>4. BlocksAreOwned'
  BY <1>1, <1>2 DEF BlocksAreOwned, Live
<1>5. MutualExclusion'
  BY <1>1 DEF MutualExclusion, Entry, Idle, At
<1>6. NoUpdateIsLost'
  BY <1>1 DEF NoUpdateIsLost, Entry
<1>7. QED BY <1>3, <1>4, <1>5, <1>6

LEMMA MallocKeepsInv ==
  ASSUME Inv, NEW t \in Thread, NEW b \in Block, NEW n \in Sizes, Malloc(t, b, n)
  PROVE  Inv'
<1>1. n \in Nat /\ n # Absent
  BY MemoryAssumption DEF Absent
<1>2. MallocUpdates(n) \in Seq(Int) /\ MallocUpdates(n) # <<>>
  BY <1>1, AmountsAreIntegers DEF MallocUpdates
<1>3. TypeOK'
  <2>1. CallOn(b, MallocUpdates(n)) \in ThreadState
    BY <1>2, ThreadsAreTyped
  <2>2. thread' \in [Thread -> ThreadState]
    BY <2>1, ThreadStep DEF Inv, Malloc
  <2>3. size' \in [Block -> Sizes \cup {Absent}] /\ born' \in [Block -> Sizes \cup {Absent}]
    BY DEF Inv, TypeOK, Malloc, Header
  <2>4. QED BY <2>2, <2>3, Zenon DEF Inv, TypeOK, Malloc
<1>4. UpdatesPending' /\ BlocksAreOwned' /\ MutualExclusion' /\ NoUpdateIsLost'
  <2>1. size'[b] = n /\ born'[b] = n
    BY DEF Malloc, Header, Inv, TypeOK
  <2>2. \A c \in Block : c # b => size'[c] = size[c] /\ born'[c] = born[c]
    BY DEF Malloc, Inv, TypeOK
  <2>3. CallOn(b, MallocUpdates(n)) \in ThreadState
    BY <1>2, ThreadsAreTyped
  <2>4. QED
    BY <1>1, <1>2, <2>1, <2>2, <2>3, CallStarts DEF CallOn, Malloc
<1>5. QED BY <1>3, <1>4 DEF Inv

LEMMA ReallocKeepsInv ==
  ASSUME Inv, NEW t \in Thread, NEW b \in Block, NEW n \in Sizes, Realloc(t, b, n)
  PROVE  Inv'
<1>1. n \in Nat /\ n # Absent
  BY MemoryAssumption DEF Absent
<1>2. ReallocUpdates(b, n) \in Seq(Int) /\ ReallocUpdates(b, n) # <<>>
  <2>1. size[b] \in Nat
    BY LiveSize DEF Inv, Realloc
  <2>2. Aligned(size[b]) \in Int /\ Aligned(n) \in Int
    BY <1>1, <2>1, AmountsAreIntegers
  <2>3. -Aligned(size[b]) \in Int
    BY <2>2
  <2>4. QED BY <2>2, <2>3 DEF ReallocUpdates
<1>3. CallOn(b, ReallocUpdates(b, n)) \in ThreadState
  BY <1>2, ThreadsAreTyped
<1>4. TypeOK'
  <2>1. thread' \in [Thread -> ThreadState]
    BY <1>3, ThreadStep DEF Inv, Realloc
  <2>2. size' \in [Block -> Sizes \cup {Absent}]
    BY DEF Inv, TypeOK, Realloc, Header
  <2>3. QED BY <2>1, <2>2, Zenon DEF Inv, TypeOK, Realloc, history
<1>5. UpdatesPending' /\ BlocksAreOwned' /\ MutualExclusion' /\ NoUpdateIsLost'
  <2>1. size'[b] = n /\ \A c \in Block : c # b => size'[c] = size[c]
    BY DEF Realloc, Header, Inv, TypeOK
  <2>2. born' = born /\ born[b] # Absent
    BY DEF Realloc, history, Inv, BlocksAreOwned, Live
  <2>3. QED
    BY <1>1, <1>2, <1>3, <2>1, <2>2, CallStarts DEF CallOn, Realloc
<1>6. QED BY <1>4, <1>5 DEF Inv

LEMMA FreeKeepsInv ==
  ASSUME Inv, NEW t \in Thread, NEW b \in Block, Free(t, b)
  PROVE  Inv'
<1> DEFINE call == [CallOn(b, FreeUpdates(b)) EXCEPT !.fate = "freed"]
<1>1. FreeUpdates(b) \in Seq(Int) /\ FreeUpdates(b) # <<>>
  <2>1. size[b] \in Nat
    BY LiveSize DEF Inv, Free
  <2>2. Charge(size[b]) \in Int
    BY <2>1, AmountsAreIntegers
  <2>3. -Charge(size[b]) \in Int
    BY <2>2
  <2>4. QED BY <2>3 DEF FreeUpdates
<1>2. call \in ThreadState
  BY <1>1, ThreadsAreTyped DEF ThreadState
<1>3. call.at = Entry /\ call.block = b /\ call.updates = FreeUpdates(b)
  BY DEF CallOn
<1> HIDE DEF call
<1>4. thread' = [thread EXCEPT ![t] = call]
  BY DEF Free, call
<1>5. TypeOK'
  <2>1. thread' \in [Thread -> ThreadState]
    BY <1>2, <1>4, ThreadStep DEF Inv
  <2>2. QED BY <2>1, Zenon DEF Inv, TypeOK, Free, history
<1>6. UpdatesPending' /\ BlocksAreOwned' /\ MutualExclusion' /\ NoUpdateIsLost'
  <2>1. size' = size /\ born' = born /\ size[b] # Absent /\ born[b] # Absent
    BY DEF Free, history, Inv, BlocksAreOwned, Live
  <2>2. QED
    BY <1>1, <1>2, <1>3, <1>4, <2>1, CallStarts DEF Free
<1>7. QED BY <1>5, <1>6 DEF Inv

(* A call that goes on: the thread's place and amounts change, and the     *)
(* heap does not.                                                          *)
LEMMA CallGoesOn ==
  ASSUME Inv, NEW t \in Thread, NEW STATE s, s \in ThreadState,
         thread[t].at # "idle", s.block = thread[t].block,
         thread' = [thread EXCEPT ![t] = s],
         s.at \in {"lock", "load", "store"} => s.updates # <<>>,
         UNCHANGED <<size, aborted, history>>
  PROVE  /\ UpdatesPending' /\ BlocksAreOwned'
         /\ thread' \in [Thread -> ThreadState]
         /\ thread'[t] = s
         /\ \A u \in Thread : u # t => thread'[u] = thread[u]
<1> USE DEF Inv
<1>1. /\ thread' \in [Thread -> ThreadState]
      /\ thread'[t] = s
      /\ \A u \in Thread : u # t => thread'[u] = thread[u]
  BY ThreadStep
<1>2. UpdatesPending'
  BY <1>1 DEF UpdatesPending
<1>3. BlocksAreOwned'
  BY <1>1 DEF BlocksAreOwned, Live, history
<1>4. QED BY <1>1, <1>2, <1>3

LEMMA LockKeepsInv ==
  ASSUME Inv, NEW t \in Thread, Lock(t)
  PROVE  Inv'
<1> DEFINE s == [thread[t] EXCEPT !.at = "load"]
<1>1. thread[t] \in ThreadState /\ thread[t].at = "lock"
  BY DEF Inv, TypeOK, Lock, At
<1>2. /\ s \in ThreadState /\ s.at = "load"
      /\ s.block = thread[t].block /\ s.updates = thread[t].updates
  BY <1>1 DEF ThreadState
<1> HIDE DEF s
<1>3. thread' = [thread EXCEPT ![t] = s]
  BY DEF Lock, s
<1>4. thread[t].updates # <<>>
  BY <1>1 DEF Inv, UpdatesPending
<1>5. /\ UpdatesPending' /\ BlocksAreOwned'
      /\ thread' \in [Thread -> ThreadState] /\ thread'[t] = s
      /\ \A u \in Thread : u # t => thread'[u] = thread[u]
  BY <1>1, <1>2, <1>3, <1>4, CallGoesOn DEF Lock
<1>6. TypeOK'
  BY <1>5, Zenon DEF Inv, TypeOK, Lock, history
<1>7. mutex = Nobody /\ mutex' = t
  BY DEF Lock
<1>8. MutualExclusion'
  BY <1>2, <1>5, <1>7, MemoryAssumption DEF Inv, MutualExclusion
<1>9. NoUpdateIsLost'
  BY <1>2, <1>5 DEF Inv, NoUpdateIsLost, Lock
<1>10. QED BY <1>5, <1>6, <1>8, <1>9 DEF Inv

LEMMA LoadKeepsInv ==
  ASSUME Inv, NEW t \in Thread, Load(t)
  PROVE  Inv'
<1> DEFINE s == [thread[t] EXCEPT !.at = "store", !.loaded = g_used_memory]
<1>1. thread[t] \in ThreadState /\ thread[t].at = "load" /\ g_used_memory \in Int
  BY DEF Inv, TypeOK, Load, At
<1>2. /\ s \in ThreadState /\ s.at = "store" /\ s.loaded = g_used_memory
      /\ s.block = thread[t].block /\ s.updates = thread[t].updates
  BY <1>1 DEF ThreadState
<1> HIDE DEF s
<1>3. thread' = [thread EXCEPT ![t] = s]
  BY DEF Load, s
<1>4. thread[t].updates # <<>>
  BY <1>1 DEF Inv, UpdatesPending
<1>5. /\ UpdatesPending' /\ BlocksAreOwned'
      /\ thread' \in [Thread -> ThreadState] /\ thread'[t] = s
      /\ \A u \in Thread : u # t => thread'[u] = thread[u]
  BY <1>1, <1>2, <1>3, <1>4, CallGoesOn DEF Load
<1>6. TypeOK'
  BY <1>5, Zenon DEF Inv, TypeOK, Load, history
<1>7. MutualExclusion'
  BY <1>1, <1>2, <1>5 DEF Inv, MutualExclusion, Load
<1>8. NoUpdateIsLost'
  BY <1>2, <1>5 DEF Inv, NoUpdateIsLost, Load
<1>9. QED BY <1>5, <1>6, <1>7, <1>8 DEF Inv

(* The step at which an update of another thread could be overwritten: the *)
(* mutex keeps every other thread out from between its load and its store. *)
LEMMA StoreKeepsInv ==
  ASSUME Inv, NEW t \in Thread, Store(t)
  PROVE  Inv'
<1> DEFINE s == [thread[t] EXCEPT !.at = "stored",
                            !.updates = Tail(thread[t].updates)]
<1>1. thread[t] \in ThreadState /\ thread[t].at = "store"
  BY DEF Inv, TypeOK, Store, At
<1>2. thread[t].updates \in Seq(Int) /\ thread[t].updates # <<>> /\ thread[t].loaded \in Int
  BY <1>1 DEF Inv, UpdatesPending, ThreadState
<1>3. Head(thread[t].updates) \in Int /\ Tail(thread[t].updates) \in Seq(Int)
  BY <1>2, HeadTailProperties
<1>4. s \in ThreadState /\ s.at = "stored" /\ s.block = thread[t].block
  BY <1>1, <1>3 DEF ThreadState
<1> HIDE DEF s
<1>5. thread' = [thread EXCEPT ![t] = s]
  BY DEF Store, s
<1>6. /\ UpdatesPending' /\ BlocksAreOwned'
      /\ thread' \in [Thread -> ThreadState] /\ thread'[t] = s
      /\ \A u \in Thread : u # t => thread'[u] = thread[u]
  BY <1>1, <1>4, <1>5, CallGoesOn DEF Store
<1>7. TypeOK'
  <2>1. g_used_memory' \in Int
    BY <1>2, <1>3 DEF Store
  <2>2. QED BY <1>6, <2>1, Zenon DEF Inv, TypeOK, Store, history
<1>8. MutualExclusion'
  BY <1>1, <1>4, <1>6 DEF Inv, MutualExclusion, Store
<1>9. NoUpdateIsLost'
  <2>1. g_malloc_thread_safe => \A u \in Thread : u # t => thread[u].at # "store"
    BY <1>1 DEF Inv, MutualExclusion
  <2>2. QED BY <1>4, <1>6, <2>1 DEF NoUpdateIsLost
<1>10. QED BY <1>6, <1>7, <1>8, <1>9 DEF Inv

LEMMA EndUpdateKeepsInv ==
  ASSUME Inv, NEW t \in Thread, EndUpdate(t)
  PROVE  Inv'
<1> DEFINE at == IF thread[t].updates = <<>> THEN "return" ELSE Entry
           s  == [thread[t] EXCEPT !.at = at]
<1>1. thread[t] \in ThreadState /\ thread[t].at = "stored"
  BY DEF Inv, TypeOK, EndUpdate, At
<1>2. /\ s \in ThreadState /\ s.at = at
      /\ s.block = thread[t].block /\ s.updates = thread[t].updates
  BY <1>1 DEF ThreadState, Entry
<1>3. s.at \in {"lock", "load", "store"} => s.updates # <<>>
  BY <1>2
<1>4. s.at # "store" /\ (g_malloc_thread_safe => s.at \notin {"load", "store", "stored"})
  BY <1>2 DEF Entry
<1>5. thread' = [thread EXCEPT ![t] = s]
  BY DEF EndUpdate
<1> HIDE DEF s, at
<1>6. /\ UpdatesPending' /\ BlocksAreOwned'
      /\ thread' \in [Thread -> ThreadState] /\ thread'[t] = s
      /\ \A u \in Thread : u # t => thread'[u] = thread[u]
  BY <1>1, <1>2, <1>3, <1>5, CallGoesOn DEF EndUpdate
<1>7. TypeOK'
  <2>1. mutex' \in Thread \cup {Nobody}
    BY DEF Inv, TypeOK, EndUpdate, Unlock
  <2>2. QED BY <1>6, <2>1, Zenon DEF Inv, TypeOK, EndUpdate, history
<1>8. MutualExclusion'
  <2>1. SUFFICES ASSUME g_malloc_thread_safe PROVE MutualExclusion'
    BY DEF MutualExclusion
  <2>2. mutex = t /\ mutex' = Nobody
    BY <1>1, <2>1 DEF Inv, MutualExclusion, EndUpdate, Unlock
  <2>3. \A u \in Thread : u # t => thread[u].at \notin {"load", "store", "stored"}
    BY <2>1, <2>2 DEF Inv, MutualExclusion
  <2>4. QED BY <1>4, <1>6, <2>1, <2>2, <2>3, MemoryAssumption DEF MutualExclusion
<1>9. NoUpdateIsLost'
  BY <1>4, <1>6 DEF Inv, NoUpdateIsLost, EndUpdate
<1>10. QED BY <1>6, <1>7, <1>8, <1>9 DEF Inv

(* The block of a call that frees it is gone when the call returns; it is  *)
(* no other thread's.                                                      *)
LEMMA ReturnKeepsInv ==
  ASSUME Inv, NEW t \in Thread, Return(t)
  PROVE  Inv'
<1> DEFINE b == thread[t].block
<1>1. thread[t].at = "return" /\ b \in Block /\ Live(b)
  BY DEF Inv, BlocksAreOwned, Return, At
<1>2. IdleThread \in ThreadState /\ IdleThread.at = "idle"
  BY ThreadsAreTyped DEF IdleThread
<1>3. /\ thread' \in [Thread -> ThreadState] /\ thread'[t] = IdleThread
      /\ \A u \in Thread : u # t => thread'[u] = thread[u]
  <2>1. thread' = [thread EXCEPT ![t] = IdleThread]
    BY DEF Return
  <2>2. QED BY <1>2, <2>1, ThreadStep DEF Inv
<1>4. PaddingError(b) \in Int
  <2>1. size[b] \in Nat /\ born[b] \in Nat
    BY <1>1, LiveSize, MemoryAssumption DEF Inv, TypeOK, BlocksAreOwned, Live
  <2>2. HeaderError(size[b]) \in Int /\ HeaderError(born[b]) \in Int
    BY <2>1, AmountsAreIntegers
  <2>3. QED BY <2>2 DEF PaddingError
<1>5. \/ /\ size' = [size EXCEPT ![b] = Absent] /\ born' = [born EXCEPT ![b] = Absent]
         /\ drift' = drift + PaddingError(b)
      \/ size' = size /\ born' = born /\ drift' = drift
  BY DEF Return, history
<1> HIDE DEF b
<1>6. /\ size' \in [Block -> Sizes \cup {Absent}] /\ born' \in [Block -> Sizes \cup {Absent}]
      /\ drift' \in Int
  BY <1>1, <1>4, <1>5 DEF Inv, TypeOK
<1>7. TypeOK'
  BY <1>3, <1>6, Zenon DEF Inv, TypeOK, Return
<1>8. UpdatesPending'
  BY <1>2, <1>3 DEF Inv, UpdatesPending
<1>9. BlocksAreOwned'
  <2>1. \A c \in Block : c # b => size'[c] = size[c] /\ born'[c] = born[c]
    BY <1>1, <1>5 DEF Inv, TypeOK
  <2>2. size'[b] = Absent <=> born'[b] = Absent
    BY <1>1, <1>5 DEF Inv, TypeOK, BlocksAreOwned
  <2>3. \A u \in Thread : u # t /\ thread[u].at # "idle" =>
          thread[u].block \in Block /\ thread[u].block # b /\ Live(thread[u].block)
    BY <1>1 DEF Inv, BlocksAreOwned, b
  <2>4. \A u \in Thread : thread'[u].at # "idle" => u # t /\ thread'[u] = thread[u]
    BY <1>2, <1>3
  <2>5. QED BY <2>1, <2>2, <2>3, <2>4 DEF Inv, BlocksAreOwned, Live
<1>10. MutualExclusion'
  BY <1>1, <1>2, <1>3 DEF Inv, MutualExclusion, Return
<1>11. NoUpdateIsLost'
  BY <1>2, <1>3 DEF Inv, NoUpdateIsLost, Return
<1>12. QED BY <1>7, <1>8, <1>9, <1>10, <1>11 DEF Inv

LEMMA OutOfMemoryKeepsInv ==
  ASSUME Inv, NEW t \in Thread, OutOfMemory(t)
  PROVE  Inv'
<1>1. aborted' \in BOOLEAN
  BY Zenon DEF OutOfMemory
<1>2. TypeOK'
  BY <1>1, Zenon DEF Inv, TypeOK, OutOfMemory, history
<1>3. UNCHANGED <<size, g_used_memory, mutex, thread, born>>
  BY DEF OutOfMemory, history
<1>4. UpdatesPending' /\ BlocksAreOwned' /\ MutualExclusion' /\ NoUpdateIsLost'
  BY <1>3 DEF Inv, UpdatesPending, BlocksAreOwned, MutualExclusion, NoUpdateIsLost, Live
<1>5. QED BY <1>2, <1>4 DEF Inv

LEMMA StutterKeepsInv == Inv /\ UNCHANGED vars => Inv'
<1> SUFFICES ASSUME Inv, UNCHANGED vars PROVE Inv'
  OBVIOUS
<1>1. TypeOK'
  BY Zenon DEF Inv, TypeOK, vars
<1>2. UpdatesPending' /\ BlocksAreOwned' /\ MutualExclusion' /\ NoUpdateIsLost'
  BY DEF Inv, UpdatesPending, BlocksAreOwned, MutualExclusion, NoUpdateIsLost, Live, vars
<1>3. QED BY <1>1, <1>2 DEF Inv

LEMMA InvNext == Inv /\ [Next]_vars => Inv'
<1> SUFFICES ASSUME Inv, [Next]_vars PROVE Inv'
  OBVIOUS
<1>1. CASE UNCHANGED vars
  BY <1>1, StutterKeepsInv
<1>2. CASE Next
  <2>1. PICK t \in Thread :
          \/ \E b \in Block, n \in Sizes : Malloc(t, b, n)
          \/ \E b \in Block, n \in Sizes : Realloc(t, b, n)
          \/ \E b \in Block : Free(t, b)
          \/ OutOfMemory(t)
          \/ Lock(t)
          \/ Step(t)
    BY <1>2 DEF Next
  <2>2. CASE \E b \in Block, n \in Sizes : Malloc(t, b, n)
    BY <2>2, MallocKeepsInv
  <2>3. CASE \E b \in Block, n \in Sizes : Realloc(t, b, n)
    BY <2>3, ReallocKeepsInv
  <2>4. CASE \E b \in Block : Free(t, b)
    BY <2>4, FreeKeepsInv
  <2>5. CASE OutOfMemory(t)
    BY <2>5, OutOfMemoryKeepsInv
  <2>6. CASE Lock(t)
    BY <2>6, LockKeepsInv
  <2>7. CASE Step(t)
    BY <2>7, LoadKeepsInv, StoreKeepsInv, EndUpdateKeepsInv, ReturnKeepsInv DEF Step
  <2>8. QED
    BY <2>1, <2>2, <2>3, <2>4, <2>5, <2>6, <2>7
<1>3. QED
  BY <1>1, <1>2

LEMMA InvAlways == Spec => []Inv
<1>1. QED BY InvInit, InvNext, PTL DEF Spec

(* The types hold whatever the threads do, with the mutex or without: no   *)
(* call is left with an amount it cannot add or a block that is gone.      *)
THEOREM TypeCorrectness == Spec => []TypeOK
<1>1. Inv => TypeOK
  BY DEF Inv
<1>2. QED BY <1>1, InvAlways, PTL

(* No update of g_used_memory is lost once g_malloc_thread_safe is set:    *)
(* `g_used_memory += size` under g_used_memory_mutex is atomic, for any    *)
(* number of threads, blocks and sizes.                                    *)
THEOREM UpdatesAreKept == Spec => []NoUpdateIsLost
<1>1. Inv => NoUpdateIsLost
  BY DEF Inv
<1>2. QED BY <1>1, InvAlways, PTL

-----------------------------------------------------------------------------
(* The counter.  What it is short of is what threads in a call have still  *)
(* to add; the rest is one share for each block that lives, and the drift. *)

(* Updates of the counter do not overlap: they are under the mutex, or     *)
(* there is a single thread.                                               *)
Atomic == g_malloc_thread_safe \/ \E t \in Thread : Thread = {t}

(* What the calls on a block of n bytes, born with m, have counted.        *)
Share(n, m) == IF n = Absent THEN 0 ELSE Aligned(n) - HeaderError(m)

(* The shares of all blocks, from their sizes and first sizes.             *)
SharesOf(sz, bn) == [b \in Block |-> Share(sz[b], bn[b])]

Shares == SharesOf(size, born)

(* The sum of at most two amounts.                                         *)
Pending(updates) ==
  IF updates = <<>> THEN 0
  ELSE IF Len(updates) = 1 THEN updates[1] ELSE updates[1] + updates[2]

(* What a thread has still to add, with the block that it takes away only  *)
(* when its call returns.                                                  *)
Debt(s, sz) ==
  Pending(s.updates) + (IF s.fate = "freed" THEN Charge(sz[s.block]) ELSE 0)

(* The debts of all threads.                                               *)
DebtsOf(th, sz) == [t \in Thread |-> Debt(th[t], sz)]

Debts == DebtsOf(thread, size)

(* A call has at most two amounts to add, and none when it returns.        *)
CallsAreShort ==
  \A t \in Thread :
    /\ Len(thread[t].updates) <= 2
    /\ thread[t].at \in {"idle", "return"} => thread[t].updates = <<>>
    /\ thread[t].at = "idle" => thread[t].fate = "kept"

(* A thread that is to store has loaded what the counter still is.         *)
LoadsAreCurrent ==
  Atomic =>
    \A t \in Thread : thread[t].at = "store" => thread[t].loaded = g_used_memory

(* The counter with what is owed to it is what the blocks hold of it.      *)
Ledger ==
  Atomic =>
    g_used_memory + Total(Debts, Thread) = Total(Shares, Block) + drift

(* What the steps preserve.                                                *)
CounterInv ==
  /\ Inv
  /\ CallsAreShort
  /\ LoadsAreCurrent
  /\ Ledger

(* Types of the shares and debts.                                          *)
LEMMA SharesAreIntegers ==
  ASSUME NEW sz \in [Block -> Sizes \cup {Absent}], NEW bn \in [Block -> Sizes \cup {Absent}],
         \A b \in Block : sz[b] = Absent <=> bn[b] = Absent
  PROVE  \A b \in Block : SharesOf(sz, bn)[b] \in Int
<1>1. ASSUME NEW b \in Block, sz[b] # Absent
      PROVE  Aligned(sz[b]) - HeaderError(bn[b]) \in Int
  <2>1. sz[b] \in Nat /\ bn[b] \in Nat
    BY <1>1, MemoryAssumption
  <2>2. Aligned(sz[b]) \in Int /\ HeaderError(bn[b]) \in Int
    BY <2>1, AmountsAreIntegers
  <2>3. QED BY <2>2
<1>2. QED BY <1>1 DEF SharesOf, Share

LEMMA DebtsAreIntegers ==
  ASSUME NEW s \in ThreadState, Len(s.updates) <= 2, NEW sz,
         s.fate = "freed" => sz[s.block] \in Nat
  PROVE  Debt(s, sz) \in Int
<1>1. PICK u \in Seq(Int) : u = s.updates
  BY DEF ThreadState
<1>2. Pending(u) \in Int
  <2>1. CASE u = <<>>
    BY <2>1 DEF Pending
  <2>2. CASE u # <<>> /\ Len(u) = 1
    BY <2>2 DEF Pending
  <2>3. CASE u # <<>> /\ Len(u) # 1
    <3>1. Len(u) = 2
      <4>1. PICK k \in Nat : k = Len(u)
        OBVIOUS
      <4>2. k # 0 /\ k # 1
        BY <2>3, <4>1, EmptySeq
      <4>3. k <= 2
        BY <1>1, <4>1
      <4>4. QED BY <4>1, <4>2, <4>3
    <3>2. u[1] \in Int /\ u[2] \in Int
      BY <3>1
    <3>3. QED BY <2>3, <3>2 DEF Pending
  <2>4. QED BY <2>1, <2>2, <2>3
<1>3. (IF s.fate = "freed" THEN Charge(sz[s.block]) ELSE 0) \in Int
  BY AmountsAreIntegers
<1>4. QED BY <1>1, <1>2, <1>3 DEF Debt

(* Debts and shares are amounts.                                           *)
AllAreInt ==
  /\ \A b \in Block : Shares[b] \in Int
  /\ \A t \in Thread : Debts[t] \in Int

(* The block of a thread that frees one lives, and has a size to charge.   *)
LEMMA AllAreIntegers == Inv /\ CallsAreShort => AllAreInt
<1> SUFFICES ASSUME Inv, CallsAreShort PROVE AllAreInt
  OBVIOUS
<1>1. \A b \in Block : Shares[b] \in Int
  BY SharesAreIntegers DEF Shares, Inv, TypeOK, BlocksAreOwned
<1>2. ASSUME NEW t \in Thread PROVE Debts[t] \in Int
  <2>1. PICK s \in ThreadState : s = thread[t]
    BY DEF Inv, TypeOK
  <2>2. Len(s.updates) <= 2
    BY <2>1 DEF CallsAreShort
  <2>3. s.fate = "freed" => size[s.block] \in Nat
    <3>1. s.fate = "freed" => s.block \in Block /\ Live(s.block)
      BY <2>1 DEF CallsAreShort, Inv, BlocksAreOwned
    <3>2. QED BY <3>1, LiveSize DEF Inv
  <2>4. Debt(s, size) \in Int
    BY <2>2, <2>3, DebtsAreIntegers
  <2>5. QED BY <2>1, <2>4 DEF Debts, DebtsOf
<1>3. QED BY <1>1, <1>2 DEF AllAreInt

(* The same after a step.                                                  *)
LEMMA AllStayIntegers == Inv' /\ CallsAreShort' => AllAreInt'
BY AllAreIntegers, PTL

(* A step of a thread on a block changes one debt and one share.           *)
LEMMA LedgerMoves ==
  ASSUME CounterInv, Inv', CallsAreShort', NEW t \in Thread, NEW b \in Block,
         \A u \in Thread : u # t => Debts'[u] = Debts[u],
         \A c \in Block : c # b => Shares'[c] = Shares[c],
         Atomic => g_used_memory' + (Debts'[t] - Debts[t]) =
                     g_used_memory + (Shares'[b] - Shares[b]) + (drift' - drift)
  PROVE  Ledger'
<1> SUFFICES ASSUME Atomic PROVE Ledger'
  BY DEF Ledger, Atomic
<1>1. PICK d, e, f, h : d = Debts /\ e = Debts' /\ f = Shares /\ h = Shares'
  OBVIOUS
<1>2. /\ \A c \in Block : f[c] \in Int
      /\ \A u \in Thread : d[u] \in Int
  BY <1>1, AllAreIntegers DEF CounterInv, AllAreInt
<1>3. /\ \A c \in Block : h[c] \in Int
      /\ \A u \in Thread : e[u] \in Int
  BY <1>1, AllStayIntegers DEF AllAreInt
<1>4. Total(e, Thread) = Total(d, Thread) + (e[t] - d[t])
  <2>1. IsFiniteSet(Thread) /\ \A u \in Thread : u # t => e[u] = d[u]
    BY <1>1, MemoryAssumption
  <2>2. QED BY <1>2, <1>3, <2>1, TotalChanges
<1>5. Total(h, Block) = Total(f, Block) + (h[b] - f[b])
  <2>1. IsFiniteSet(Block) /\ \A c \in Block : c # b => h[c] = f[c]
    BY <1>1, MemoryAssumption
  <2>2. QED BY <1>2, <1>3, <2>1, TotalChanges
<1>6. g_used_memory + Total(d, Thread) = Total(f, Block) + drift
  BY <1>1 DEF CounterInv, Ledger
<1>7. Total(d, Thread) \in Int /\ Total(f, Block) \in Int
  <2>1. Thread \in SUBSET Thread /\ Block \in SUBSET Block
    OBVIOUS
  <2>2. Total(d, Thread) \in Int
    BY <1>2, <2>1, MemoryAssumption, TotalsStep
  <2>3. Total(f, Block) \in Int
    BY <1>2, <2>1, MemoryAssumption, TotalsStep
  <2>4. QED BY <2>2, <2>3
<1>8. /\ d[t] \in Int /\ e[t] \in Int /\ f[b] \in Int /\ h[b] \in Int
      /\ g_used_memory \in Int /\ g_used_memory' \in Int /\ drift \in Int /\ drift' \in Int
  BY <1>2, <1>3 DEF CounterInv, Inv, TypeOK
<1>9. g_used_memory' + (e[t] - d[t]) = g_used_memory + (h[b] - f[b]) + (drift' - drift)
  BY <1>1
<1>10. g_used_memory' + Total(e, Thread) = Total(h, Block) + drift'
  BY <1>4, <1>5, <1>6, <1>7, <1>8, <1>9
<1>11. QED BY <1>1, <1>10 DEF Ledger

(* A thread that a step leaves alone owes what it owed: the step does not  *)
(* change the size of the thread's block.                                  *)
LEMMA OthersOweTheSame ==
  ASSUME CounterInv, NEW t \in Thread,
         \A u \in Thread : u # t => thread'[u] = thread[u],
         \A u \in Thread : u # t /\ thread[u].at # "idle" =>
           size'[thread[u].block] = size[thread[u].block]
  PROVE  \A u \in Thread : u # t => Debts'[u] = Debts[u]
<1>1. ASSUME NEW u \in Thread, u # t PROVE Debt(thread'[u], size') = Debt(thread[u], size)
  <2>1. PICK s : s = thread[u] /\ s = thread'[u]
    BY <1>1
  <2>2. s.fate = "freed" => size'[s.block] = size[s.block] \/ s.at = "idle"
    BY <1>1, <2>1
  <2>3. s.at = "idle" => s.fate = "kept"
    BY <2>1 DEF CounterInv, CallsAreShort
  <2>4. Debt(s, size') = Debt(s, size)
    BY <2>2, <2>3 DEF Debt
  <2>5. QED BY <2>1, <2>4
<1>2. QED BY <1>1 DEF Debts, DebtsOf

(* With the mutex no update is lost; a single thread has only its own.     *)
LEMMA LoadsStayCurrent ==
  ASSUME Inv', NEW t \in Thread,
         thread'[t].at = "store" => thread'[t].loaded = g_used_memory'
  PROVE  LoadsAreCurrent'
<1>1. CASE g_malloc_thread_safe
  BY <1>1 DEF Inv, NoUpdateIsLost, LoadsAreCurrent
<1>2. CASE \E u \in Thread : Thread = {u}
  BY <1>2 DEF LoadsAreCurrent
<1>3. QED BY <1>1, <1>2 DEF LoadsAreCurrent, Atomic

(* The other threads' calls are as short as they were.                     *)
LEMMA CallsStayShort ==
  ASSUME CounterInv, NEW t \in Thread,
         \A u \in Thread : u # t => thread'[u] = thread[u],
         Len(thread'[t].updates) <= 2,
         thread'[t].at \in {"idle", "return"} => thread'[t].updates = <<>>,
         thread'[t].at = "idle" => thread'[t].fate = "kept"
  PROVE  CallsAreShort'
BY DEF CounterInv, CallsAreShort

(* What a thread owes, from its state.                                     *)
LEMMA DebtOfThread ==
  /\ \A u \in Thread : Debts[u] = Debt(thread[u], size)
  /\ \A u \in Thread : Debts'[u] = Debt(thread'[u], size')
BY DEF Debts, DebtsOf

(* What a block has counted, from its sizes.                               *)
LEMMA ShareOfBlock ==
  /\ \A b \in Block : Shares[b] = Share(size[b], born[b])
  /\ \A b \in Block : Shares'[b] = Share(size'[b], born'[b])
BY DEF Shares, SharesOf

(* A thread between its calls has nothing to add.                          *)
LEMMA IdleOwesNothing ==
  ASSUME CounterInv, NEW t \in Thread, Idle(t)
  PROVE  Debts[t] = 0
<1>1. PICK s : s = thread[t]
  OBVIOUS
<1>2. s.updates = <<>> /\ s.fate = "kept"
  BY <1>1 DEF CounterInv, CallsAreShort, Idle, At
<1>3. Debt(s, size) = 0
  BY <1>2 DEF Debt, Pending
<1>4. QED BY <1>1, <1>3, DebtOfThread

(* A call starts: it owes what the size of its block has changed by.       *)
LEMMA CounterCallStarts ==
  ASSUME CounterInv, Inv', NEW t \in Thread, NEW b \in Block,
         NEW STATE s, s \in ThreadState, Idle(t), ~InUse(b),
         s.at = Entry, Len(s.updates) <= 2,
         thread' = [thread EXCEPT ![t] = s],
         \A c \in Block : c # b => size'[c] = size[c] /\ born'[c] = born[c],
         Debt(s, size') = Share(size'[b], born'[b]) - Share(size[b], born[b]),
         UNCHANGED <<g_used_memory, drift>>
  PROVE  CounterInv'
<1>1. thread'[t] = s /\ \A u \in Thread : u # t => thread'[u] = thread[u]
  BY ThreadStep DEF CounterInv, Inv
<1>2. s.at \notin {"idle", "return", "store"}
  BY DEF Entry
<1>3. CallsAreShort'
  BY <1>1, <1>2, CallsStayShort
<1>4. LoadsAreCurrent'
  BY <1>1, <1>2, LoadsStayCurrent
<1>5. Ledger'
  <2>1. \A u \in Thread : u # t => Debts'[u] = Debts[u]
    <3>1. \A u \in Thread : u # t /\ thread[u].at # "idle" =>
            size'[thread[u].block] = size[thread[u].block]
      BY DEF CounterInv, Inv, BlocksAreOwned, InUse
    <3>2. QED BY <1>1, <3>1, OthersOweTheSame
  <2>2. \A c \in Block : c # b => Shares'[c] = Shares[c]
    BY ShareOfBlock
  <2>3. Debts[t] = 0 /\ Debts'[t] = Shares'[b] - Shares[b]
    BY <1>1, IdleOwesNothing, DebtOfThread, ShareOfBlock
  <2>4. Shares'[b] \in Int /\ Shares[b] \in Int
    BY <1>3, AllAreIntegers, AllStayIntegers DEF CounterInv, AllAreInt
  <2>5. g_used_memory \in Int /\ drift \in Int
    BY DEF CounterInv, Inv, TypeOK
  <2>6. g_used_memory' + (Debts'[t] - Debts[t]) =
          g_used_memory + (Shares'[b] - Shares[b]) + (drift' - drift)
    BY <2>3, <2>4, <2>5
  <2>7. QED BY <1>3, <2>1, <2>2, <2>6, LedgerMoves
<1>6. QED BY <1>3, <1>4, <1>5 DEF CounterInv

(* A block is charged with its header.                                     *)
LEMMA MallocKeepsCounter ==
  ASSUME CounterInv, NEW t \in Thread, NEW b \in Block, NEW n \in Sizes, Malloc(t, b, n)
  PROVE  CounterInv'
<1>1. Inv'
  BY MallocKeepsInv DEF CounterInv
<1>2. PICK s : s = CallOn(b, MallocUpdates(n))
  OBVIOUS
<1>3. n \in Nat /\ n # Absent
  BY MemoryAssumption DEF Absent
<1>4. Charge(n) \in Int /\ Aligned(n) \in Int
  BY <1>3, AmountsAreIntegers
<1>5. s.at = Entry /\ s.updates = <<Charge(n)>> /\ s.fate = "kept" /\ s.block = b
  BY <1>2 DEF CallOn, MallocUpdates
<1>6. s \in ThreadState
  <2>1. MallocUpdates(n) \in Seq(Int)
    BY <1>4 DEF MallocUpdates
  <2>2. QED BY <1>2, <2>1, ThreadsAreTyped
<1>7. size'[b] = n /\ born'[b] = n /\ size[b] = Absent
  BY DEF Malloc, Header, Live, CounterInv, Inv, TypeOK
<1>8. \A c \in Block : c # b => size'[c] = size[c] /\ born'[c] = born[c]
  BY DEF Malloc, CounterInv, Inv, TypeOK
<1>9. Debt(s, size') = Charge(n)
  BY <1>4, <1>5 DEF Debt, Pending
<1>10. Share(n, n) - Share(size[b], born[b]) = Charge(n)
  BY <1>3, <1>4, <1>7 DEF Share, HeaderError
<1>11. thread' = [thread EXCEPT ![t] = s] /\ Len(s.updates) <= 2 /\ Idle(t) /\ ~InUse(b)
  BY <1>2, <1>5 DEF Malloc
<1>12. UNCHANGED <<g_used_memory, drift>>
  BY DEF Malloc
<1>13. Debt(s, size') = Share(size'[b], born'[b]) - Share(size[b], born[b])
  BY <1>7, <1>9, <1>10
<1>14. QED
  BY <1>1, <1>5, <1>6, <1>8, <1>11, <1>12, <1>13, CounterCallStarts

(* Both amounts of a Realloc() are without the header.                     *)
LEMMA ReallocKeepsCounter ==
  ASSUME CounterInv, NEW t \in Thread, NEW b \in Block, NEW n \in Sizes, Realloc(t, b, n)
  PROVE  CounterInv'
<1>1. Inv'
  BY ReallocKeepsInv DEF CounterInv
<1>2. PICK s : s = CallOn(b, ReallocUpdates(b, n))
  OBVIOUS
<1>3. n \in Nat /\ n # Absent
  BY MemoryAssumption DEF Absent
<1>4. size[b] \in Nat /\ size[b] # Absent /\ born[b] \in Nat
  BY LiveSize, MemoryAssumption DEF CounterInv, Inv, TypeOK, BlocksAreOwned, Realloc, Live
<1>5. /\ Aligned(n) \in Int /\ Aligned(size[b]) \in Int /\ -Aligned(size[b]) \in Int
      /\ HeaderError(born[b]) \in Int
  <2>1. Aligned(n) \in Int /\ Aligned(size[b]) \in Int /\ HeaderError(born[b]) \in Int
    BY <1>3, <1>4, AmountsAreIntegers
  <2>2. QED BY <2>1
<1>6. /\ s.at = Entry /\ s.updates = <<-Aligned(size[b]), Aligned(n)>>
      /\ s.fate = "kept" /\ s.block = b
  BY <1>2 DEF CallOn, ReallocUpdates
<1>7. s \in ThreadState
  <2>1. ReallocUpdates(b, n) \in Seq(Int)
    BY <1>5 DEF ReallocUpdates
  <2>2. QED BY <1>2, <2>1, ThreadsAreTyped
<1>8. size'[b] = n /\ born' = born
  BY DEF Realloc, Header, history, CounterInv, Inv, TypeOK
<1>9. \A c \in Block : c # b => size'[c] = size[c] /\ born'[c] = born[c]
  BY <1>8 DEF Realloc, CounterInv, Inv, TypeOK
<1>10. Debt(s, size') = Aligned(n) - Aligned(size[b])
  BY <1>5, <1>6 DEF Debt, Pending
<1>11. Share(n, born[b]) - Share(size[b], born[b]) = Aligned(n) - Aligned(size[b])
  BY <1>3, <1>4, <1>5 DEF Share
<1>12. thread' = [thread EXCEPT ![t] = s] /\ Len(s.updates) <= 2 /\ Idle(t) /\ ~InUse(b)
  BY <1>2, <1>6 DEF Realloc
<1>13. UNCHANGED <<g_used_memory, drift>>
  BY DEF Realloc, history
<1>14. Debt(s, size') = Share(size'[b], born'[b]) - Share(size[b], born[b])
  BY <1>8, <1>10, <1>11
<1>15. QED
  BY <1>1, <1>6, <1>7, <1>9, <1>12, <1>13, <1>14, CounterCallStarts

(* The amount a Free() takes is owed until the block is gone.              *)
LEMMA FreeKeepsCounter ==
  ASSUME CounterInv, NEW t \in Thread, NEW b \in Block, Free(t, b)
  PROVE  CounterInv'
<1>1. Inv'
  BY FreeKeepsInv DEF CounterInv
<1>2. PICK s : s = [CallOn(b, FreeUpdates(b)) EXCEPT !.fate = "freed"]
  OBVIOUS
<1>3. size[b] \in Nat
  BY LiveSize DEF CounterInv, Inv, Free
<1>4. Charge(size[b]) \in Int /\ -Charge(size[b]) \in Int
  <2>1. Charge(size[b]) \in Int
    BY <1>3, AmountsAreIntegers
  <2>2. QED BY <2>1
<1>5. s.at = Entry /\ s.updates = <<-Charge(size[b])>> /\ s.fate = "freed" /\ s.block = b
  BY <1>2 DEF CallOn, FreeUpdates
<1>6. s \in ThreadState
  <2>1. FreeUpdates(b) \in Seq(Int)
    BY <1>4 DEF FreeUpdates
  <2>2. CallOn(b, FreeUpdates(b)) \in ThreadState
    BY <2>1, ThreadsAreTyped
  <2>3. QED BY <1>2, <2>2 DEF ThreadState
<1>7. size' = size /\ born' = born
  BY DEF Free, history
<1>8. Debt(s, size') = 0
  BY <1>4, <1>5, <1>7 DEF Debt, Pending
<1>9. thread' = [thread EXCEPT ![t] = s] /\ Len(s.updates) <= 2 /\ Idle(t) /\ ~InUse(b)
  <2>1. thread' = [thread EXCEPT ![t] = s]
    BY <1>2, Zenon DEF Free
  <2>2. Idle(t) /\ ~InUse(b)
    BY DEF Free
  <2>3. Len(s.updates) <= 2
    BY <1>5
  <2>4. QED BY <2>1, <2>2, <2>3
<1>10. UNCHANGED <<g_used_memory, drift>>
  BY DEF Free, history
<1>11. Debt(s, size') = Share(size'[b], born'[b]) - Share(size[b], born[b])
  <2>1. Share(size[b], born[b]) \in Int
    BY AllAreIntegers, ShareOfBlock DEF CounterInv, AllAreInt
  <2>2. QED BY <1>7, <1>8, <2>1
<1>12. QED
  BY <1>1, <1>5, <1>6, <1>7, <1>9, <1>10, <1>11, CounterCallStarts

(* A call goes on: what it has still to add leaves its debt for the        *)
(* counter.                                                                *)
LEMMA CounterCallGoesOn ==
  ASSUME CounterInv, Inv', NEW t \in Thread, NEW STATE s, s \in ThreadState,
         thread[t].at # "idle", s.at # "idle", Len(s.updates) <= 2,
         s.at = "return" => s.updates = <<>>,
         s.at = "store" => s.loaded = g_used_memory',
         thread' = [thread EXCEPT ![t] = s],
         UNCHANGED <<size, born, drift>>,
         Atomic => g_used_memory' + (Debt(s, size) - Debt(thread[t], size)) = g_used_memory
  PROVE  CounterInv'
<1>1. thread'[t] = s /\ \A u \in Thread : u # t => thread'[u] = thread[u]
  BY ThreadStep DEF CounterInv, Inv
<1>2. CallsAreShort'
  BY <1>1, CallsStayShort
<1>3. LoadsAreCurrent'
  BY <1>1, LoadsStayCurrent
<1>4. Ledger'
  <2>1. PICK b \in Block : b = thread[t].block
    BY DEF CounterInv, Inv, BlocksAreOwned
  <2>2. \A u \in Thread : u # t => Debts'[u] = Debts[u]
    BY <1>1, OthersOweTheSame
  <2>3. \A c \in Block : Shares'[c] = Shares[c]
    BY ShareOfBlock
  <2>4. Debts'[t] = Debt(s, size) /\ Debts[t] = Debt(thread[t], size)
    BY <1>1, DebtOfThread
  <2>5. Shares[b] \in Int
    BY AllAreIntegers DEF CounterInv, AllAreInt
  <2>6. g_used_memory \in Int /\ drift \in Int
    BY DEF CounterInv, Inv, TypeOK
  <2>7. Shares'[b] - Shares[b] = 0 /\ drift' - drift = 0
    BY <2>3, <2>5, <2>6
  <2>8. Atomic => g_used_memory' + (Debts'[t] - Debts[t]) =
                    g_used_memory + (Shares'[b] - Shares[b]) + (drift' - drift)
    BY <2>4, <2>6, <2>7
  <2>9. QED BY <1>2, <2>2, <2>3, <2>8, LedgerMoves
<1>5. QED BY <1>2, <1>3, <1>4 DEF CounterInv

(* A step that adds nothing leaves the debt of its thread.                 *)
LEMMA SameDebt ==
  ASSUME CounterInv, NEW t \in Thread, NEW s,
         s.updates = thread[t].updates, s.fate = thread[t].fate, s.block = thread[t].block,
         UNCHANGED g_used_memory
  PROVE  g_used_memory' + (Debt(s, size) - Debt(thread[t], size)) = g_used_memory
<1>1. Debt(s, size) = Debt(thread[t], size)
  BY DEF Debt
<1>2. Debt(thread[t], size) \in Int
  BY AllAreIntegers, DebtOfThread DEF CounterInv, AllAreInt
<1>3. g_used_memory \in Int
  BY DEF CounterInv, Inv, TypeOK
<1>4. QED BY <1>1, <1>2, <1>3

(* The steps that add nothing.                                             *)
LEMMA LockKeepsCounter ==
  ASSUME CounterInv, NEW t \in Thread, Lock(t)
  PROVE  CounterInv'
<1>1. Inv'
  BY LockKeepsInv DEF CounterInv
<1>2. thread[t] \in ThreadState /\ thread[t].at = "lock"
  BY DEF CounterInv, Inv, TypeOK, Lock, At
<1>3. PICK s : s = [thread[t] EXCEPT !.at = "load"]
  OBVIOUS
<1>4. /\ s \in ThreadState /\ s.at = "load" /\ s.updates = thread[t].updates
      /\ s.fate = thread[t].fate /\ s.block = thread[t].block
  BY <1>2, <1>3 DEF ThreadState
<1>5. Len(s.updates) <= 2
  BY <1>4 DEF CounterInv, CallsAreShort
<1>6. thread' = [thread EXCEPT ![t] = s] /\ UNCHANGED <<g_used_memory, size, born, drift>>
  BY <1>3 DEF Lock, history
<1>7. g_used_memory' + (Debt(s, size) - Debt(thread[t], size)) = g_used_memory
  BY <1>4, <1>6, SameDebt
<1>8. QED BY <1>1, <1>2, <1>4, <1>5, <1>6, <1>7, CounterCallGoesOn

LEMMA LoadKeepsCounter ==
  ASSUME CounterInv, NEW t \in Thread, Load(t)
  PROVE  CounterInv'
<1>1. Inv'
  BY LoadKeepsInv DEF CounterInv
<1>2. thread[t] \in ThreadState /\ thread[t].at = "load" /\ g_used_memory \in Int
  BY DEF CounterInv, Inv, TypeOK, Load, At
<1>3. PICK s : s = [thread[t] EXCEPT !.at = "store", !.loaded = g_used_memory]
  OBVIOUS
<1>4. /\ s \in ThreadState /\ s.at = "store" /\ s.updates = thread[t].updates
      /\ s.fate = thread[t].fate /\ s.block = thread[t].block /\ s.loaded = g_used_memory
  BY <1>2, <1>3 DEF ThreadState
<1>5. Len(s.updates) <= 2
  BY <1>4 DEF CounterInv, CallsAreShort
<1>6. thread' = [thread EXCEPT ![t] = s] /\ UNCHANGED <<g_used_memory, size, born, drift>>
  BY <1>3 DEF Load, history
<1>7. g_used_memory' + (Debt(s, size) - Debt(thread[t], size)) = g_used_memory
  BY <1>4, <1>6, SameDebt
<1>8. QED BY <1>1, <1>2, <1>4, <1>5, <1>6, <1>7, CounterCallGoesOn

LEMMA EndUpdateKeepsCounter ==
  ASSUME CounterInv, NEW t \in Thread, EndUpdate(t)
  PROVE  CounterInv'
<1>1. Inv'
  BY EndUpdateKeepsInv DEF CounterInv
<1>2. thread[t] \in ThreadState /\ thread[t].at = "stored"
  BY DEF CounterInv, Inv, TypeOK, EndUpdate, At
<1>3. PICK at : at = IF thread[t].updates = <<>> THEN "return" ELSE Entry
  OBVIOUS
<1>4. PICK s : s = [thread[t] EXCEPT !.at = at]
  OBVIOUS
<1>5. /\ s \in ThreadState /\ s.at = at /\ s.updates = thread[t].updates
      /\ s.fate = thread[t].fate /\ s.block = thread[t].block
  BY <1>2, <1>3, <1>4 DEF ThreadState, Entry
<1>6. s.at \notin {"idle", "store"} /\ (s.at = "return" => s.updates = <<>>)
  BY <1>3, <1>5 DEF Entry
<1>7. Len(s.updates) <= 2
  BY <1>5 DEF CounterInv, CallsAreShort
<1>8. thread' = [thread EXCEPT ![t] = s] /\ UNCHANGED <<g_used_memory, size, born, drift>>
  BY <1>3, <1>4 DEF EndUpdate, history
<1>9. g_used_memory' + (Debt(s, size) - Debt(thread[t], size)) = g_used_memory
  BY <1>5, <1>8, SameDebt
<1>10. QED BY <1>1, <1>2, <1>5, <1>6, <1>7, <1>8, <1>9, CounterCallGoesOn

(* The amount that is next is taken from what is pending.                  *)
LEMMA PendingWithoutHead ==
  ASSUME NEW u \in Seq(Int), u # <<>>, Len(u) <= 2
  PROVE  /\ Pending(u) = Head(u) + Pending(Tail(u))
         /\ Pending(Tail(u)) \in Int /\ Len(Tail(u)) <= 2
<1>1. PICK k \in Nat : k = Len(u)
  OBVIOUS
<1>2. k = 1 \/ k = 2
  <2>1. k # 0
    BY <1>1, EmptySeq
  <2>2. QED BY <1>1, <2>1
<1>3. /\ Tail(u) \in Seq(Int) /\ Len(Tail(u)) = k - 1 /\ Head(u) = u[1] /\ u[1] \in Int
      /\ \A i \in 1..Len(Tail(u)) : Tail(u)[i] = u[i + 1]
  <2>1. /\ Head(u) \in Int /\ Tail(u) \in Seq(Int) /\ Len(Tail(u)) = Len(u) - 1
        /\ \A i \in 1..Len(Tail(u)) : Tail(u)[i] = u[i + 1]
    BY HeadTailProperties
  <2>2. Head(u) = u[1]
    OBVIOUS
  <2>3. QED BY <1>1, <2>1, <2>2
<1>4. PICK r \in Seq(Int) : r = Tail(u)
  BY <1>3
<1>5. CASE k = 1
  <2>1. Len(r) = 0
    BY <1>3, <1>4, <1>5
  <2>2. r = <<>>
    BY <2>1, EmptySeq
  <2>3. Pending(r) = 0
    BY <2>2 DEF Pending
  <2>4. Pending(u) = u[1]
    BY <1>1, <1>5 DEF Pending
  <2>5. QED BY <1>3, <1>4, <2>1, <2>3, <2>4
<1>6. CASE k = 2
  <2>1. Len(r) = 1
    BY <1>3, <1>4, <1>6
  <2>2. r[1] = u[2] /\ r[1] \in Int
    <3>1. r[1] = u[1 + 1]
      BY <1>3, <1>4, <2>1
    <3>2. r[1] \in Int
      <4>1. 1 \in 1..Len(r)
        BY <2>1
      <4>2. QED BY <4>1, ElementOfSeq
    <3>3. QED BY <3>1, <3>2
  <2>3. r # <<>>
    BY <2>1
  <2>4. Pending(r) = u[2]
    BY <2>1, <2>2, <2>3 DEF Pending
  <2>5. Pending(u) = u[1] + u[2]
    BY <1>1, <1>6 DEF Pending
  <2>6. Pending(u) = Head(u) + Pending(r) /\ Pending(r) \in Int
    BY <1>3, <2>2, <2>4, <2>5
  <2>7. QED BY <1>4, <2>1, <2>6
<1>7. QED BY <1>2, <1>5, <1>6

(* The step that adds an amount to the counter, which is still as loaded.  *)
LEMMA StoreKeepsCounter ==
  ASSUME CounterInv, NEW t \in Thread, Store(t)
  PROVE  CounterInv'
<1>1. Inv'
  BY StoreKeepsInv DEF CounterInv
<1>2. thread[t] \in ThreadState /\ thread[t].at = "store"
  BY DEF CounterInv, Inv, TypeOK, Store, At
<1>3. PICK u \in Seq(Int) : u = thread[t].updates
  BY <1>2 DEF ThreadState
<1>4. u # <<>> /\ Len(u) <= 2
  BY <1>2, <1>3 DEF CounterInv, Inv, UpdatesPending, CallsAreShort
<1>5. Head(u) \in Int /\ Tail(u) \in Seq(Int)
  BY <1>4, HeadTailProperties
<1>6. PICK s : s = [thread[t] EXCEPT !.at = "stored", !.updates = Tail(u)]
  OBVIOUS
<1>7. /\ s \in ThreadState /\ s.at = "stored" /\ s.updates = Tail(u)
      /\ s.fate = thread[t].fate /\ s.block = thread[t].block
  BY <1>2, <1>5, <1>6 DEF ThreadState
<1>8. /\ Pending(u) = Head(u) + Pending(Tail(u))
      /\ Pending(Tail(u)) \in Int /\ Len(Tail(u)) <= 2
  BY <1>4, PendingWithoutHead
<1>9. thread' = [thread EXCEPT ![t] = s] /\ UNCHANGED <<size, born, drift>>
  BY <1>3, <1>6 DEF Store, history
<1>10. Atomic => g_used_memory' = g_used_memory + Head(u)
  BY <1>2, <1>3 DEF Store, CounterInv, LoadsAreCurrent
<1>11. Atomic => g_used_memory' + (Debt(s, size) - Debt(thread[t], size)) = g_used_memory
  <2>1. PICK r : r = IF s.fate = "freed" THEN Charge(size[s.block]) ELSE 0
    OBVIOUS
  <2>2. Debt(s, size) = Pending(Tail(u)) + r /\ Debt(thread[t], size) = Pending(u) + r
    BY <1>3, <1>7, <2>1 DEF Debt
  <2>3. Debt(thread[t], size) \in Int
    BY AllAreIntegers, DebtOfThread DEF CounterInv, AllAreInt
  <2>4. r \in Int
    <3>1. s.fate = "freed" => Charge(size[s.block]) \in Int
      <4>1. thread[t].block \in Block /\ Live(thread[t].block)
        BY <1>2 DEF CounterInv, Inv, BlocksAreOwned
      <4>2. size[thread[t].block] \in Nat
        BY <4>1, LiveSize DEF CounterInv, Inv
      <4>3. QED BY <1>7, <4>2, AmountsAreIntegers
    <3>2. QED BY <2>1, <3>1
  <2>5. g_used_memory \in Int
    BY DEF CounterInv, Inv, TypeOK
  <2>6. QED BY <1>5, <1>8, <1>10, <2>2, <2>4, <2>5
<1>12. Len(s.updates) <= 2
  BY <1>7, <1>8
<1>13. QED BY <1>1, <1>2, <1>7, <1>9, <1>11, <1>12, CounterCallGoesOn

(* The block of a call that frees it takes its share away; what the call   *)
(* took from the counter for it, and the share did not hold, is drift.     *)
LEMMA ReturnKeepsCounter ==
  ASSUME CounterInv, NEW t \in Thread, Return(t)
  PROVE  CounterInv'
<1>1. Inv'
  BY ReturnKeepsInv DEF CounterInv
<1>2. thread[t] \in ThreadState /\ thread[t].at = "return"
  BY DEF CounterInv, Inv, TypeOK, Return, At
<1>3. PICK b \in Block : b = thread[t].block /\ Live(b)
  BY <1>2 DEF CounterInv, Inv, BlocksAreOwned
<1>4. size[b] \in Nat /\ size[b] # Absent /\ born[b] \in Nat
  BY <1>3, LiveSize, MemoryAssumption DEF CounterInv, Inv, TypeOK, BlocksAreOwned, Live
<1>5. /\ Charge(size[b]) \in Int /\ Aligned(size[b]) \in Int /\ HeaderError(born[b]) \in Int
      /\ g_used_memory \in Int /\ drift \in Int
  BY <1>4, AmountsAreIntegers DEF CounterInv, Inv, TypeOK
<1>6. thread[t].updates = <<>>
  BY <1>2 DEF CounterInv, CallsAreShort
<1>7. thread'[t] = IdleThread /\ \A u \in Thread : u # t => thread'[u] = thread[u]
  <2>1. thread' = [thread EXCEPT ![t] = IdleThread]
    BY DEF Return
  <2>2. QED BY <2>1, ThreadsAreTyped, ThreadStep DEF CounterInv, Inv
<1>8. CallsAreShort'
  BY <1>7, CallsStayShort DEF IdleThread
<1>9. LoadsAreCurrent'
  BY <1>1, <1>7, LoadsStayCurrent DEF IdleThread
<1>10. Debts'[t] = 0
  <2>1. Debt(IdleThread, size') = 0
    BY DEF Debt, Pending, IdleThread
  <2>2. QED BY <1>7, <2>1, DebtOfThread
<1>11. g_used_memory' = g_used_memory
  BY DEF Return
<1>12. CASE thread[t].fate = "freed"
  <2>1. /\ size' = [size EXCEPT ![b] = Absent] /\ born' = [born EXCEPT ![b] = Absent]
        /\ drift' = drift + PaddingError(b)
    BY <1>3, <1>12 DEF Return
  <2>2. /\ size'[b] = Absent
        /\ \A c \in Block : c # b => size'[c] = size[c] /\ born'[c] = born[c]
    BY <2>1 DEF CounterInv, Inv, TypeOK
  <2>3. \A u \in Thread : u # t => Debts'[u] = Debts[u]
    <3>1. \A u \in Thread : u # t /\ thread[u].at # "idle" =>
            size'[thread[u].block] = size[thread[u].block]
      BY <1>2, <1>3, <2>2 DEF CounterInv, Inv, BlocksAreOwned
    <3>2. QED BY <1>7, <3>1, OthersOweTheSame
  <2>4. \A c \in Block : c # b => Shares'[c] = Shares[c]
    BY <2>2, ShareOfBlock
  <2>5. Debts[t] = Charge(size[b])
    <3>1. Debt(thread[t], size) = Charge(size[b])
      BY <1>3, <1>5, <1>6, <1>12 DEF Debt, Pending
    <3>2. QED BY <3>1, DebtOfThread
  <2>6. Shares[b] = Aligned(size[b]) - HeaderError(born[b]) /\ Shares'[b] = 0
    BY <1>4, <2>2, ShareOfBlock DEF Share
  <2>7. drift' - drift = (Aligned(size[b]) - Charge(size[b])) - HeaderError(born[b])
    <3>1. PaddingError(b) = (Aligned(size[b]) - Charge(size[b])) - HeaderError(born[b])
      BY Zenon DEF PaddingError, HeaderError
    <3>2. QED BY <1>5, <2>1, <3>1
  <2>8. g_used_memory' + (Debts'[t] - Debts[t]) =
          g_used_memory + (Shares'[b] - Shares[b]) + (drift' - drift)
    BY <1>5, <1>10, <1>11, <2>5, <2>6, <2>7
  <2>9. Ledger'
    BY <1>1, <1>8, <2>3, <2>4, <2>8, LedgerMoves
  <2>10. QED BY <1>1, <1>8, <1>9, <2>9 DEF CounterInv
<1>13. CASE thread[t].fate # "freed"
  <2>1. size' = size /\ born' = born /\ drift' = drift
    BY <1>13 DEF Return, history
  <2>2. \A u \in Thread : u # t => Debts'[u] = Debts[u]
    BY <1>7, <2>1, OthersOweTheSame
  <2>3. \A c \in Block : Shares'[c] = Shares[c]
    BY <2>1, ShareOfBlock
  <2>4. Debts[t] = 0
    <3>1. Debt(thread[t], size) = 0
      BY <1>6, <1>13 DEF Debt, Pending
    <3>2. QED BY <3>1, DebtOfThread
  <2>5. Shares[b] \in Int
    BY AllAreIntegers DEF CounterInv, AllAreInt
  <2>6. g_used_memory' + (Debts'[t] - Debts[t]) =
          g_used_memory + (Shares'[b] - Shares[b]) + (drift' - drift)
    BY <1>5, <1>10, <1>11, <2>1, <2>3, <2>4, <2>5
  <2>7. Ledger'
    BY <1>1, <1>8, <2>2, <2>3, <2>6, LedgerMoves
  <2>8. QED BY <1>1, <1>8, <1>9, <2>7 DEF CounterInv
<1>14. QED BY <1>12, <1>13

(* The history and the counter stand still.                                *)
LEMMA CounterStandsStill ==
  ASSUME CounterInv, Inv', UNCHANGED <<size, g_used_memory, thread, born, drift>>
  PROVE  CounterInv'
<1>1. CallsAreShort'
  BY DEF CounterInv, CallsAreShort
<1>2. LoadsAreCurrent'
  BY DEF CounterInv, LoadsAreCurrent, Atomic
<1>3. Debts' = Debts /\ Shares' = Shares
  BY DEF Debts, DebtsOf, Shares, SharesOf
<1>4. Ledger'
  BY <1>3 DEF CounterInv, Ledger, Atomic
<1>5. QED BY <1>1, <1>2, <1>4 DEF CounterInv

(* CounterInv holds of every reachable state.                              *)
LEMMA CounterInit == Init => CounterInv
<1> SUFFICES ASSUME Init PROVE CounterInv
  OBVIOUS
<1>1. Inv
  BY InvInit
<1>2. \A t \in Thread : thread[t] = IdleThread
  BY DEF Init
<1>3. CallsAreShort /\ LoadsAreCurrent
  BY <1>2 DEF CallsAreShort, LoadsAreCurrent, IdleThread
<1>4. Total(Debts, Thread) = 0
  <2>1. Debt(IdleThread, size) = 0
    BY DEF Debt, Pending, IdleThread
  <2>2. \A t \in Thread : Debts[t] = 0
    BY <1>2, <2>1, DebtOfThread
  <2>3. IsFiniteSet(Thread)
    BY MemoryAssumption
  <2>4. QED BY <2>2, <2>3, TotalOfZeros
<1>5. Total(Shares, Block) = 0
  <2>1. \A b \in Block : Shares[b] = 0
    BY ShareOfBlock DEF Init, Share
  <2>2. IsFiniteSet(Block)
    BY MemoryAssumption
  <2>3. QED BY <2>1, <2>2, TotalOfZeros
<1>6. Ledger
  BY <1>4, <1>5 DEF Ledger, Init
<1>7. QED BY <1>1, <1>3, <1>6 DEF CounterInv

LEMMA CounterNext == CounterInv /\ [Next]_vars => CounterInv'
<1> SUFFICES ASSUME CounterInv, [Next]_vars PROVE CounterInv'
  OBVIOUS
<1>1. Inv'
  BY InvNext DEF CounterInv
<1>2. CASE UNCHANGED vars
  BY <1>1, <1>2, CounterStandsStill DEF vars
<1>3. CASE Next
  <2>1. PICK t \in Thread :
          \/ \E b \in Block, n \in Sizes : Malloc(t, b, n)
          \/ \E b \in Block, n \in Sizes : Realloc(t, b, n)
          \/ \E b \in Block : Free(t, b)
          \/ OutOfMemory(t)
          \/ Lock(t)
          \/ Step(t)
    BY <1>3 DEF Next
  <2>2. CASE \E b \in Block, n \in Sizes : Malloc(t, b, n)
    BY <2>2, MallocKeepsCounter
  <2>3. CASE \E b \in Block, n \in Sizes : Realloc(t, b, n)
    BY <2>3, ReallocKeepsCounter
  <2>4. CASE \E b \in Block : Free(t, b)
    BY <2>4, FreeKeepsCounter
  <2>5. CASE OutOfMemory(t)
    BY <1>1, <2>5, CounterStandsStill DEF OutOfMemory, history
  <2>6. CASE Lock(t)
    BY <2>6, LockKeepsCounter
  <2>7. CASE Step(t)
    BY <2>7, LoadKeepsCounter, StoreKeepsCounter, EndUpdateKeepsCounter, ReturnKeepsCounter
       DEF Step
  <2>8. QED
    BY <2>1, <2>2, <2>3, <2>4, <2>5, <2>6, <2>7
<1>4. QED BY <1>2, <1>3

(* The totals of the model, as totals of functions.                        *)
LEMMA BytesAsTotal ==
  ASSUME NEW F, \A b \in Block : Live(b) => F[b] = Charge(size[b]) /\ F[b] \in Int
  PROVE  AllocatedBytes = Total(F, {b \in Block : Live(b)})
<1>1. PICK L : L = {b \in Block : Live(b)}
  OBVIOUS
<1>2. IsFiniteSet(L) /\ \A b \in L : F[b] = Charge(size[b]) /\ F[b] \in Int
  BY <1>1, MemoryAssumption, FS_Subset
<1>3. PICK g : IsSum(F, L, g) /\ Total(F, L) = g[L]
  BY <1>2, TotalIsSum
<1>4. g = [s \in SUBSET L |-> IF s = {} THEN 0 ELSE F[Some(s)] + g[s \ {Some(s)}]]
  BY <1>3, Zenon DEF IsSum
<1>5. g = [s \in SUBSET L |-> IF s = {} THEN 0 ELSE Charge(size[Some(s)]) + g[s \ {Some(s)}]]
  <2>1. \A s \in SUBSET L : s # {} => F[Some(s)] = Charge(size[Some(s)])
    BY <1>2, SomeIsElement
  <2>2. QED BY <1>4, <2>1
<1>6. PICK f : /\ f = [s \in SUBSET L |-> IF s = {} THEN 0
                       ELSE Charge(size[CHOOSE x \in s : TRUE]) + f[s \ {CHOOSE x \in s : TRUE}]]
               /\ AllocatedBytes = f[L]
  BY <1>1, <1>5, ZenonT(40) DEF Some, AllocatedBytes, MapThenSumSet, MapThenFoldSet
<1>7. f = [s \in SUBSET L |-> IF s = {} THEN 0 ELSE Charge(size[Some(s)]) + f[s \ {Some(s)}]]
  <2>1. f = [s \in SUBSET L |-> IF s = {} THEN 0
              ELSE Charge(size[CHOOSE x \in s : TRUE]) + f[s \ {CHOOSE x \in s : TRUE}]]
    BY <1>6
  <2>2. QED BY <2>1, ZenonT(30) DEF Some
<1>8. f = [s \in SUBSET L |-> IF s = {} THEN 0 ELSE F[Some(s)] + f[s \ {Some(s)}]]
  <2>1. \A s \in SUBSET L : s # {} => F[Some(s)] = Charge(size[Some(s)])
    BY <1>2, SomeIsElement
  <2>2. QED BY <1>7, <2>1
<1>9. IsSum(F, L, f)
  BY <1>8, Zenon DEF IsSum
<1>10. Stepwise(F, L, f) /\ Stepwise(F, L, g)
  BY <1>2, <1>3, <1>9, SumIsStepwise
<1>11. \A s \in SUBSET L : f[s] = g[s]
  BY <1>2, <1>10, SumsAgree
<1>12. QED BY <1>1, <1>3, <1>6, <1>11

LEMMA PaddingAsTotal ==
  ASSUME NEW F, \A b \in Block : Live(b) => F[b] = PaddingError(b) /\ F[b] \in Int
  PROVE  MapThenSumSet(PaddingError, {b \in Block : Live(b)}) =
           Total(F, {b \in Block : Live(b)})
<1>1. PICK L : L = {b \in Block : Live(b)}
  OBVIOUS
<1>2. IsFiniteSet(L) /\ \A b \in L : F[b] = PaddingError(b) /\ F[b] \in Int
  BY <1>1, MemoryAssumption, FS_Subset
<1>3. PICK g : IsSum(F, L, g) /\ Total(F, L) = g[L]
  BY <1>2, TotalIsSum
<1>4. g = [s \in SUBSET L |-> IF s = {} THEN 0 ELSE F[Some(s)] + g[s \ {Some(s)}]]
  BY <1>3, Zenon DEF IsSum
<1>5. g = [s \in SUBSET L |-> IF s = {} THEN 0 ELSE PaddingError(Some(s)) + g[s \ {Some(s)}]]
  <2>1. \A s \in SUBSET L : s # {} => F[Some(s)] = PaddingError(Some(s))
    BY <1>2, SomeIsElement
  <2>2. QED BY <1>4, <2>1
<1>6. PICK f : /\ f = [s \in SUBSET L |-> IF s = {} THEN 0
                       ELSE PaddingError(CHOOSE x \in s : TRUE) + f[s \ {CHOOSE x \in s : TRUE}]]
               /\ MapThenSumSet(PaddingError, L) = f[L]
  BY <1>5, Zenon DEF Some, MapThenSumSet, MapThenFoldSet
<1>7. f = [s \in SUBSET L |-> IF s = {} THEN 0 ELSE PaddingError(Some(s)) + f[s \ {Some(s)}]]
  BY <1>6, Zenon DEF Some
<1>8. f = [s \in SUBSET L |-> IF s = {} THEN 0 ELSE F[Some(s)] + f[s \ {Some(s)}]]
  <2>1. \A s \in SUBSET L : s # {} => F[Some(s)] = PaddingError(Some(s))
    BY <1>2, SomeIsElement
  <2>2. QED BY <1>7, <2>1
<1>9. IsSum(F, L, f)
  BY <1>8, Zenon DEF IsSum
<1>10. Stepwise(F, L, f) /\ Stepwise(F, L, g)
  BY <1>2, <1>3, <1>9, SumIsStepwise
<1>11. \A s \in SUBSET L : f[s] = g[s]
  BY <1>2, <1>10, SumsAgree
<1>12. QED BY <1>1, <1>3, <1>6, <1>11

(* Between calls nobody owes the counter anything, and the shares of the   *)
(* blocks are their bytes and their padding.                               *)
LEMMA LedgerAtRest == Atomic /\ CounterInv => CounterErrsByPadding
<1> SUFFICES ASSUME Atomic, CounterInv, \A t \in Thread : Idle(t)
             PROVE  g_used_memory = AllocatedBytes
                      + MapThenSumSet(PaddingError, {b \in Block : Live(b)}) + drift
  BY DEF CounterErrsByPadding
<1>1. Total(Debts, Thread) = 0
  <2>1. \A t \in Thread : Debts[t] = 0
    BY IdleOwesNothing
  <2>2. IsFiniteSet(Thread)
    BY MemoryAssumption
  <2>3. QED BY <2>1, <2>2, TotalOfZeros
<1>2. g_used_memory = Total(Shares, Block) + drift
  <2>1. g_used_memory \in Int
    BY DEF CounterInv, Inv, TypeOK
  <2>2. g_used_memory + Total(Debts, Thread) = Total(Shares, Block) + drift
    BY DEF CounterInv, Ledger
  <2>3. QED BY <1>1, <2>1, <2>2
<1>3. PICK L \in SUBSET Block : L = {b \in Block : Live(b)}
  OBVIOUS
<1>4. IsFiniteSet(Block) /\ IsFiniteSet(L)
  BY MemoryAssumption, FS_Subset
<1>5. PICK F, G, H : /\ F = [b \in Block |-> Charge(size[b])]
                     /\ G = [b \in Block |-> PaddingError(b)]
                     /\ H = Shares
  OBVIOUS
<1>6. ASSUME NEW b \in L
      PROVE  /\ F[b] = Charge(size[b]) /\ G[b] = PaddingError(b)
             /\ F[b] \in Int /\ G[b] \in Int /\ H[b] = F[b] + G[b]
  <2>1. b \in Block /\ size[b] \in Nat /\ size[b] # Absent /\ born[b] \in Nat
    BY <1>3, LiveSize, MemoryAssumption
       DEF CounterInv, Inv, TypeOK, BlocksAreOwned, Live
  <2>2. /\ Charge(size[b]) \in Int /\ Aligned(size[b]) \in Int
        /\ HeaderError(born[b]) \in Int
    BY <2>1, AmountsAreIntegers
  <2>3. F[b] = Charge(size[b]) /\ G[b] = PaddingError(b)
    BY <1>5, <2>1
  <2>4. PaddingError(b) = (Aligned(size[b]) - Charge(size[b])) - HeaderError(born[b])
    BY Zenon DEF PaddingError, HeaderError
  <2>5. H[b] = Aligned(size[b]) - HeaderError(born[b])
    BY <1>5, <2>1, ShareOfBlock DEF Share
  <2>6. QED BY <2>2, <2>3, <2>4, <2>5
<1>7. Total(H, Block) = Total(H, L)
  <2>1. \A b \in Block : H[b] \in Int
    BY <1>5, AllAreIntegers DEF CounterInv, AllAreInt
  <2>2. \A b \in Block : b \notin L => H[b] = 0
    BY <1>3, <1>5, ShareOfBlock DEF Share, Live
  <2>3. QED BY <1>4, <2>1, <2>2, TotalWithoutZeros
<1>8. Total(H, L) = Total(F, L) + Total(G, L)
  <2>1. \A b \in L : F[b] \in Int
    BY <1>6
  <2>2. \A b \in L : G[b] \in Int
    BY <1>6
  <2>3. \A b \in L : H[b] = F[b] + G[b]
    BY <1>6
  <2>4. QED BY <1>4, <2>1, <2>2, <2>3, TotalOfSums
<1>9. AllocatedBytes = Total(F, L)
  BY <1>3, <1>6, BytesAsTotal
<1>10. MapThenSumSet(PaddingError, L) = Total(G, L)
  BY <1>3, <1>6, PaddingAsTotal
<1>11. MapThenSumSet(PaddingError, {b \in Block : Live(b)}) = Total(G, L)
  BY <1>3, <1>10
<1>12. Total(F, L) + Total(G, L) + drift = g_used_memory
  BY <1>2, <1>5, <1>7, <1>8
<1>13. QED BY <1>9, <1>11, <1>12

(* The counter, between calls, is what the blocks take and the padding     *)
(* that Realloc() counts otherwise than Malloc() and Free() do: with the   *)
(* mutex for any number of threads, without it for one, the way this       *)
(* repository runs (no code of it sets g_malloc_thread_safe).              *)
THEOREM CounterIsKept ==
  ASSUME g_malloc_thread_safe \/ \E t \in Thread : Thread = {t}
  PROVE  Spec => []CounterErrsByPadding
<1>1. CounterInv => CounterErrsByPadding
  BY LedgerAtRest DEF Atomic
<1>2. Spec => []CounterInv
  BY CounterInit, CounterNext, PTL DEF Spec
<1>3. QED BY <1>1, <1>2, PTL
=============================================================================
