# A TLA+ verification of the CS-Homework repository

The repository holds the work of two courses. This directory models the parts of
it that have state and a protocol of their own, checks them with TLC on small
instances, and proves the properties of the allocator, of the coroutine library and its program
binary_search, of the messenger with its double ratchet, of the integers and the Euclidean
algorithm of bigint, and of the Enigma with TLAPS for instances of every size. Paths below are relative to the repository; *malloclab*
and *coroutinelab* stand for `计算机系统概论/malloclab/code` and
`计算机系统概论/coroutinelab/code`, *homework 1, 2, 3* for the directories
`第一次作业`, `第二次作业` and `第三次作业` of `现代密码学`.

## 1. Inventory

### The allocator: malloclab

* **mm.c** keeps all of its state in the heap: blocks with a header and a footer
  of 4 bytes (size and allocated bit), 17 segregated free lists threaded through
  the free blocks, the list heads at the heap's start, and one pointer outside,
  `freelist_tailp`, the epilogue's address. Operations: `mm_init`, `mm_malloc`,
  `mm_free`, `mm_realloc`, on top of `coalesce`, `place`, `find_fit`,
  `extend_heap`, `insert`, `delete`, `search`.
* **memlib.c** is the heap below: `mem_sbrk` only grows it, up to 20 MB.
* **mdriver.c** is the client and the judge. `eval_mm_valid` replays a trace,
  fills each block with a byte, records its range (`add_range`,
  `remove_range`) and checks alignment, bounds, overlap, and the data after a
  `mm_realloc`. The rest of it measures space and time (with fcyc.c, clock.c,
  ftimer.c, fsecs.c) and reads traces.

They interact by calls, in one thread, and through the memory itself: data of the
client, tags and pointers share it. What is hard is the long sequence of legal
calls: every call trusts the tags and pointers that all earlier ones left, and
`mm_realloc` has eight ways through. What makes it correct: the blocks tile the
heap and the tags agree; the lists hold exactly the free blocks; no block is lost
or handed out twice; no call touches the client's data; a realloc keeps it; and
the driver accepts every answer.

### The coroutine library: coroutinelab

* **context.h, context.S**: a `basic_context` has a stack, two sets of registers
  and the flags `finished` and `ready`. `coroutine_switch` saves and loads
  registers, `coroutine_main` is where a body starts and ends.
* **coroutine_pool.h**: the vector of contexts, `context_id`, `is_parallel`, the
  global `g_pool`. `serial_execute_all` polls the vector in rounds and resumes
  what is ready until a whole round finds all finished, then deletes the contexts;
  `parallel_execute_all` gives each coroutine a thread.
* **common.h**: `yield` and `sleep`, which go back to the pool through
  `context_id`, or are nothing and a busy loop in a thread.
* Programs: **sample** (turns), **sleep_sort**, **binary_search** (batches of
  searches that yield between a prefetch and the use).

They interact through shared state (the flags, `context_id`, the saved
registers) and stack switches. Hard: the interleaving of bodies; coroutines
created in the middle of a round; the clock; starvation and termination.
What makes it correct: yields find their own context; contexts hold their own
stacks; no deletion before the end; no sleep too short; everybody gets a turn; the
pool returns.

### The messenger: homework 3

* **double-ratchet.cpp**: a `DoubleRatchet` has its key pair `DHs`, the other
  party's public key `DHr`, a root key and two chain keys. `ENCRYPT` steps the
  sending chain; `DECRYPT` ratchets on a new public key and steps the receiving
  chain.
* **messenger.cpp, message.cpp**: `send_message` makes a `Message` (header,
  IV, ciphertext, tag), `receive_message` opens it.
* **diffie-hellman.cpp**: key pairs modulo a 2048-bit prime, and the conversion
  of a number to the 256 bytes that enter the key derivation and the tag.
* **sha256.cpp** keeps a block buffer, the count of bits and the hash of a call;
  **hmac.cpp** and **hkdf.cpp** build keys on it; **aes-ctr.cpp** counts blocks, and
  **aes-gcm.cpp** authenticates. None keeps state from call to call but the round
  keys.
* **bigint** (Matt McCutchen's library, kept in the sources and with its own tests):
  `BigUnsigned`, natural numbers as arrays of blocks; `BigInteger`, a sign and a magnitude;
  `BigIntegerAlgorithms`, gcd, inverse and power; `BigUnsignedInABase` and
  `BigIntegerUtils`, strings. A number is the only state; a call may have its receiver
  among its operands, and may throw.

The parties interact by messages. Hard: messages that cross; losses, since the
state has moved before a tag is checked; chains that must stay in step; the edge
cases of the conversion, of padding and of counters; carries and borrows, zeros, signs and aliased
operands in bigint. What makes it correct: every message that arrives in
order is read, and none twice; keys are never used twice and are not derivable after use; a
loss spoils only its chain; after a break-in new messages become secret again; the
primitives cut, pad and count as their standards say; numbers are computed with as
arithmetic says, are stored in one way only, and loops on them end.

### Homeworks 1 and 2

**enigma.py** is an Enigma with three rotors, rings and a plug board. Its state is
`current_position`, which moves before each letter, and it is run twice, the second time on
what it printed. Its `decrypt` goes through all settings and takes, for each, the lengths of the
loops in three permutations of the letters. The other programs of homework 1 count letters
of given texts.

**SHA3.cpp** keeps a sponge with a block buffer in globals, which `add` and `sha3` use.
**SHA-256.cpp** and **AES-CTR.cpp** read a text of hexadecimal digits and work on it
through integers of 128 bits and their bytes in memory.

Hard: the rotors' stepping and the way back through turned rotors; padding and buffering at
block boundaries, and messages added in pieces; the order of bytes, and the last, shorter
part of a text. What makes it correct: the second run of the Enigma gives the
text back; loops come in pairs; digests and ciphertexts are those of the bytes that were
read, in their order.

`PROJECT.json` lists all components with their status, and every hazard with its
line and the properties that guard it.

## 2. Modules

| module | what it is |
|---|---|
| `Malloc` | mm.c on memlib.c, with mdriver's client |
| `Malloc_proofs` | inductive invariant and theorems of `Malloc` |
| `MdriverRanges` | what mdriver demands of an allocator; abstract specification of `Malloc` |
| `CoroutinePool` | coroutine_pool.h, common.h, coroutine_main |
| `TaskPool` | what the coroutine library promises; abstract specification of `CoroutinePool` |
| `CoroutineTurns` | `CoroutinePool` with a history variable for the order of turns |
| `SleepSort`, `BatchSearch` | the programs sleep_sort and binary_search, composed with `CoroutinePool` |
| `Coroutines_proofs` | inductive invariants and theorems of `CoroutinePool` and `CoroutineTurns`, and on top of them of the two programs |
| `Messenger` | two messengers with their double ratchets and the messages under way |
| `Messenger_proofs` | inductive invariants and theorems of `Messenger` and `BreakIn` |
| `BreakIn` | `Messenger`, with somebody who learns the keys of a party |
| `SecureChannel` | what the messenger promises; abstract specification of `Messenger` |
| `Bytes` | the constants that the next five modules share |
| `Sha256` | sha256.cpp: blocks and padding |
| `HexText` | SHA-256.cpp and AES-CTR.cpp of homework 2: from digits to bytes; uses `Sha256` |
| `Hkdf` | hmac.cpp and hkdf.cpp |
| `Sha3` | SHA3.cpp: the sponge's buffer |
| `Gcm` | aes-gcm.cpp on aes-ctr.cpp: counter blocks, tags |
| `Primitives_proofs` | inductive invariants and theorems of `Sha256`, `Sha3`, `Gcm` and `Hkdf` |
| `Arithmetic` | what the two number classes promise; abstract specification of the next two |
| `Blocks` | the bits of a block and the number of its values |
| `BigUnsigned` | BigUnsigned.cc, BigUnsigned.hh, NumberlikeArray.hh |
| `BigUnsigned_proofs` | inductive invariant and theorems of `BigUnsigned`: that it implements `Arithmetic` |
| `BigInteger` | BigInteger.cc, BigInteger.hh |
| `BigAlgorithms` | BigIntegerAlgorithms.cc |
| `Bigint_proofs` | invariants and theorems of `BigInteger`, `BigAlgorithms` and `BigUnsignedInABase` |
| `BigUnsignedInABase` | BigUnsignedInABase.cc, BigIntegerUtils.cc |
| `Enigma`, `EnigmaLoops` | enigma.py: `encrypt` run twice; `decrypt`. `Enigma_proofs`: invariants and theorems of both |
| `Powers` | powers by recursion, in the form that proofs can use |
| `Division` | lemmas on quotients, remainders, least numbers, iterated functions and powers |
| `MCPrograms` | composes `SleepSort` and `BatchSearch`; a behaviour runs one of them |
| `MCBigint`, `MCPrimitives` | compose the four modules of bigint, and these with the other sequential functions; a behaviour uses one |
| `MC...` | instances for TLC |

Operators named `Mutant:` in a comment are broken variants of the definition that
follows them. They are part of no specification; a property is kept only if TLC
finds it violated once the definition is replaced by its variant.

### Malloc

`mem` is the heap as a function from word addresses to words. The macros (`PUT`,
`GET_SIZE`, `NEXT_BLKP`, ...) and functions (`coalesce`, `place`, ...) of mm.c are
operators of the same names on that memory, so a wrong tag really sends the next
call to a wrong word. An action is one call of the client: `Malloc`, `Free` and
`Realloc` for the three cases of `eval_mm_valid`, with calls for 0 bytes and for
the null pointer. Abstractions: addresses count from `mem_start_brk`; a pointer
fills one word and clears the next one; what lies in words that no later call may
rely on is the value `Junk`, on which any computation is an error for TLC, so that
a read of uninitialised memory would stop the run. The client writes into each word of its
blocks a value of the word's own, so a displaced copy is seen, which the
driver's uniform byte would hide.

The only undefined behaviour on these paths is memcpy on overlapping regions
(mm.c:492 and mm.c:512). `CopyOrders` says which outcomes a run admits: copying
upwards, as common implementations do for such a move, or also downwards.

### CoroutinePool

One variable per field of the code: `n` is the vector's size, `finished` and
`ready` the flags, `saved` says whose stack the callee registers of a context
hold. `i` and `all_finished` are the locals of `serial_execute_all`. `mode` is the
program counter of the one real thread: in `main`, in the scan, in a body, or in
`join`. One iteration of the for loop is `SkipCoroutine` or `resume`; the loop's
ends are `NextPass` and `Return`. A body does any sequence of `yield`, `sleep` and
`new_coroutine` and then `coroutine_main`'s end. `SwitchBack(c)` is
`coroutine_switch(callee, caller)` on context `c`: the stack in use is saved in
context `c`, which is right only if `c` is the coroutine that runs. Within the
threads, `ThreadSleep`, `ThreadWake`, `ThreadExit`.

A sleep has two clocks: `real[c]`, the time since it began, and `wall[c]`, the
difference of the two readings of `system_clock`. They differ when somebody sets
the clock (`SetClock`, for the steps in `ClockSteps`). Both count milliseconds and
stop at `MaxTime`, beyond every argument of sleep.

Not modelled: the registers one by one, stack sizes, a pool within a pool. Main
creates coroutines only outside of a run, and bodies in threads create none, which
would be a data race on the vector.

### SleepSort and BatchSearch

Both EXTEND `CoroutinePool` and restrict its bodies to the program's.
`SleepSort` refines the clock: a millisecond has `TicksPerMs` ticks and a round of
the pool takes at most `TicksPerRound`; the clock may be set once while it runs.
`BatchSearch` starts from every sorted table and every list of keys of the instance. Its
`lookup_coroutine` is what a coroutine does between two suspensions: the use of the entry it prefetched
and the prefetch of the next, or the end. Its `size_t size` is the `int n` of `coroutine_batched`, the
same number for every table of fewer than 2^31 entries.

### Messenger

`ratchet[p]` is the `DoubleRatchet` of party p, field by field; `net[p]` holds
the messages of p under way, oldest first. `send_message` and `receive_message` are the
calls of the same names with all that they call. Cryptography is ideal: a key
derived by a KDF is the term of what it was derived from, and a tag is right
exactly if key and associated data are equal. The Diffie-Hellman number of key
pairs a and b is the set {a, b}, which is how the two parties agree. What is not
ideal is `key_to_uint8_t_array`: for a number in `Short` (fewer than 511 digits)
the result depends on what lies behind the string in memory, one of two values.
Every key pair is a new one: that two random secret keys are equal is left out, although
`DHKeypair()` sums its random words (the shift in diffie-hellman.cpp:24 has no effect) and
so chooses among far fewer keys than the prime allows. `Lose` drops the oldest message under way, and `ComeAgain` puts one
that has arrived or was lost in front of the others, so that it comes late or a second
time. History variables name chains and keys: `used`, the message keys; `gaps`, the
chains a message of which was lost or came again; `failed`, the chains with a message
whose tag was refused; `astray`, whether a message came again out of the order of the chains
(`InOrder`): one of a chain that the receiver has left, or one that gets ahead of messages of an
earlier chain. In these cases the code ratchets to a public key out of turn and the parties stay
out of step, which the properties say: `EveryCheckSucceeds` and `ChainsMatch` hold
as long as nothing went astray, and what holds in any case is that nothing is read
twice or out of order (`ImplementsChannel`) and no key is used twice or kept. That
the parties may send before they have received (crossing messages) is more than the programs do,
which hand over each message at once.

`BreakIn` adds `known`, a copy of the `DoubleRatchet` of a party that became known at one
moment. What follows from it is read off the terms: a root key from the one before it and a
shared number, a shared number from a secret key in it. `Lineage` is the function from n to the
root key n steps before a given one, and a root key is known if one of its lineage is, with all numbers
in between.
`RecoversFromBreakIn` says when the new keys no longer follow.

`SecureChannel` is a queue of numbered messages in each direction. Only once a message was lost
or came again may it leave others unread; what it delivers is always newer than what
it delivered before.

### Sha256, HexText, Hkdf, Sha3, Gcm

What scrambles bits is ideal in all of them: the hash of some bytes is named by
the bytes, a block of keystream by its counter block. What is left is the code that can be
wrong at boundaries: which bytes go into which block, what fills a block up, what a
counter does when a byte of it is full. The references they are compared with are
written from the standards, as one formula over all bytes and not as a loop.

`Sha256` takes one byte per step, as the loop of `sha_256`. Message bytes
are numbers that are no byte of a padding, so that a byte which is lost, doubled or left over
shows. Three constants scale the code's: bytes, blocks and words are small, and
`INT_MAX` is so much smaller than the counter word as int is than uint32_t; so the carry in
`add` stays out of reach, as it does in the code.

`HexText` has an action per iteration of the loops of both programs. A text is a sequence of
digits of which each is different from all others; an integer is a sequence of digits, shifts are
shifts of it, and a byte is a pair of digits at an address, lowest first. So a byte
taken from a wrong address or a digit lost by a shift shows in what is hashed or encrypted.
Texts have an even number of digits. The program's own copies of the globals are variables of their own
(`globals`, `contents`, `done`, `stage`); the operators of `Sha256` act on them.

`Hkdf` has one action per iteration of the loop in `HKDF_Expand`. `Byte` is 4, so that the
counter (uint8_t)(i + 1) wraps within the instance.

`Sha3` lets `Add` come with any number of bytes and `sha3` at any time: the program
only adds once, but the functions are written for more. `sha3` writes its padding into the buffer
behind the waiting bytes and leaves it there.

`Gcm` encrypts messages with different IVs under one key (the messenger is stricter and
has a key per message) and decrypts every mixture of the parts of two messages. A byte is a value
with the set of keystream bytes xor-ed to it, so that encrypting twice is decrypting. The bytes of
the associated data are zero, like the padding: only the lengths tell them apart.

`Messenger` uses these functions as ideal ones. `ReturnsOkm` and
`OpensOnlyWhatWasSealed` are what it relies on.

### Arithmetic, BigUnsigned, BigInteger, BigAlgorithms, BigUnsignedInABase

A program has variables for numbers (`Reg`) and makes any call on them, with any variables as
receiver and operands, the same one several times too. `BigUnsigned` computes on blocks as
the code does: the carry of `AddStage` is found by comparing, the product is a
sum of shifted copies, the division subtracts shifted copies. Its refinement mapping turns each
array into the number it stands for, and `Arithmetic` says what the call means for numbers:
results, exceptions and returned values. `Canonical` adds that no leading
zero is left. `BigInteger` works with signs and natural magnitudes, since that is
what the first refinement justifies, and refines `Arithmetic` over the integers.
`BigAlgorithms` has a step per iteration of the loops of the code, and
`BigUnsignedInABase` one per digit, for numbers of any base that come from an integer, an
array of digits (`FromDigits`) or a string; a symbol of a string is a kind (decimal digit, letter, sign, other) and a
place in it.

Two constants bound what is asked of `BigUnsigned` and `BigInteger` in the passing run:
`ShiftsZero = FALSE` leaves out shifts of a zero by a block or more, and
`NotWrapped = {}` says that the compiler lets the least int and long negate to
themselves, which g++ does without optimisation. Each has a run without it
(`shift_zero`, `least_int`) that shows the error. The capacity of the arrays, which only decides
when they are copied, and printing to streams are left out.

### Enigma, EnigmaLoops

The operators are the functions of the program: `rotor_change`, `rotor`,
`through_plug_board`; an `encrypt` step is one letter. `Rerun` is the user who starts the
program again with the same settings and types what was printed. `EnigmaLoops` has
an action for each branch of the loops in `decrypt`, for one setting.

## 3. Runs

| run | instance | what it shows |
|---|---|---|
| `malloc` | heap of 400 bytes, requests of 24, 56, 100 bytes, 3 live blocks | all safety properties of the allocator, and that it refines `MdriverRanges` |
| `realloc_overlap` | the same, memcpy in both orders | **violated**: `ReallocKeepsData` |
| `driver_overlap` | `MdriverRanges` by itself | **violated**: `NoOverlap` |
| `coroutines` | up to 3 coroutines, sleeps of 0 and 2 ms | safety, refinement of `TaskPool`, fairness of turns, liveness |
| `sleep_clock` | 1 coroutine, clock set by one either way | **violated**: `SleepsAtLeast` |
| `programs` | sleep_sort on 3 numbers out of 0..2, three rounds to a millisecond, the clock set once by a millisecond; binary_search on tables of 1, 2, 3, 5 entries, 2 batches of 2 | sorted output while the clock is left alone, right results of every search; both end, with everything printed once whatever the clock did |
| `sleep_sort_slow` | rounds of a millisecond | **violated**: `Sorted` |
| `messenger` | 3 messages each, 3 under way; any may be lost, two may come late or again, and the keys of one party become known once | all read in order, a fault spoils at most its own chain, chains in step, forward security, break-in recovery, no key used twice, refinement of `SecureChannel` |
| `short_number` | one short number | **violated**: `EveryCheckSucceeds` |
| `primitives` | blocks of 16 bytes for SHA-256 (messages up to 63 bytes), 4 for SHA-3 (up to 9), 5 for AES; texts of up to 40 bytes, in parts of 4; HKDF with hashes of 2 bytes, up to 10 bytes; bigint with blocks of 2 bits and up to 3 of them, integers of magnitude up to 4, arguments from -12 to 12, strings of the integers from -70 to 70 and of up to three digits in nine bases, and short given ones; an Enigma of 6 letters with 3 rotors, 3 orders, 2 ring settings, 36 positions, with and without plugs, texts of up to 10 letters | padding and cutting by the standards, bytes in their order, chained keys, no counter block twice, exactly what was sealed is opened; numbers as arithmetic says, gcd, inverse and power, strings read as written and within their arrays, loops that end; the Enigma decrypts |
| `shift_zero` | `BigUnsigned`, zero shifted too | **violated**: `Canonical` |
| `least_int` | `BigInteger`, least values that do not wrap | **violated**: `ComputesWithIntegers` |

The functions in `primitives` and the programs in `programs` share no state. Each behaviour
chooses one, so the states of these runs are the sum, not the product, of the parts.

**Bounds, and why they are enough.** The heap of 400 bytes has 240 bytes for blocks, seven of
the smallest; the requests adjust to blocks of 32, 64 and 112 bytes, in three
size classes, on both sides of the 100 bytes at which `place` changes ends; with
three live blocks every combination of free and allocated neighbours occurs, all
ways through `mm_realloc` are taken, and the heap can be full. Three coroutines
are the first number with someone between two others in the vector; a sleep of 2
ms has a moment before its end and one after. Two interleaved searches per batch, two
batches, and table sizes that halve evenly and unevenly give every case of the
interval arithmetic.

With three messages each, both parties ratchet repeatedly and
send several messages in one chain, three under way cross in every order, and a chain goes
on after a loss and is followed by others; an old message comes again from the
same chain, from the one before and from earlier ones, and two of them come in either order of
their chains. A break-in comes before, between or after all of that, and early ones leave time
for two new key pairs of either party.

The primitives see messages of every length
modulo their block, with and without a block before; texts have whole and broken last
parts, fill several blocks, and their counter carries over two bytes; five HKDF blocks take the
counter past its wrap to a value it had; GCM's five blocks carry into the second byte of the
counter. Blocks of two bits with lengths up to three give every combination of carry in,
carry out and roll-over of a stage, shifts within, by and beyond a block,
operands of equal and different lengths, and divisions with several digits of quotient. Types of
1 and 2 bits, or of 2 and 4 values, are narrower than a block and as wide as one. Arguments from
-12 to 12 give all combinations of signs and of common divisors; exponents up to 5 have three
bits. Six letters and all positions of two rotors contain every double step.

Deadlock is checked where the system must not stop: in `malloc`, the coroutine
runs and the driver. The two programs and the functions end, and the users of the messenger may
stop talking, so these runs do not check it.

## 4. Fairness

`FairSpec` of `CoroutinePool` assumes weak fairness of the pool's thread
(`SchedulerStep`), of every body (a body that has the processor comes to its next
yield, sleep or end: it does not loop forever between two of them), and of time
(`Tick`). All three are continuously enabled until they happen: there is only one
thread and no other step can disable them for good. No fairness is assumed for
`new_coroutine`, for the end of a body, or for threads.
`ReturnsWhenAllEnd` therefore has the ends of the bodies as its hypothesis.
`SleepSort` and `BatchSearch` assume that their one thread runs, and `SleepSort`
that time passes. `CallsEnd` assumes that a call of a function, once made, goes on,
which is the only thing in its thread. The composed runs use the same assumptions for the program
or function that was chosen. The safety properties and proofs need no fairness.

## 5. Proofs

### The allocator

`Malloc_proofs` proves every property that the run `malloc` checks, for heaps, requests and clients of
any size. `HeapAssumption` says that `CHUNKSIZE` is a multiple of 16 and not less than 32, and that
the heap has room for what `mm_init` makes (mm.c passes a chunk of 4096 bytes on, and config.h gives 20 MB);
`ClientAssumption`, that requests are positive numbers. The theorems are `HeapInvariant`;
`BoundaryTagsHold`, `FreeListsHold`, `BlocksAreLiveHold`, `ClientDataStaysIntact`,
`CoalescedBeforeRealloc`, for the invariants; `HeapGrowsOnlyWithoutFit`, for the step; and
`DriverAccepts`, the refinement of `MdriverRanges`. Only `ReallocKeepsTheData` has a further
assumption, `CopyOrders = {"forward"}`; the run `realloc_overlap` shows that it is needed.

**The inductive invariant.** The properties walk the memory: along the headers, and along the lists.
Neither walk says where a tag or a pointer is while a call changes them one at a time, so `IInv`
speaks of a function `sz` from the blocks to their sizes and compares the memory with it:

* `Geometry`: the blocks of `sz` have legal sizes and tile the heap up to its end;
* `Tags`: header and footer of each hold its size and whether it is in `A`, the allocated ones; prologue and epilogue are as
  `mm_init` and `extend_heap` made them;
* `Lists`: there is a rank of the blocks in `U` that grows along every succ pointer, so no list has a
  cycle; pred and succ are inverses, a block without a pred is the head of its list, and pointers stay in one size class.

`Heap(m, brk, sz, A, U)` is their conjunction. In the middle of a call a free block may be in no list,
which is why `A` and `U` are named separately; between calls (`HeapInv`) `A` is what the client
has and `U` all the rest. `IInv` adds that each block is as large as it should be (`Sized`), that the client's words are what it wrote (`Intact`),
that `freelist_tailp` is the heap's end, and that no two free blocks are neighbours until
`mm_realloc` has been called (`Apart`).

**The argument** follows mm.c. `Inserted` and `Deleted` are about the lists, `Coalesced` has the four cases of
`coalesce`, `Placing` the three of `place`, `Extending`, `Finding` and `FitFound` are about
`extend_heap` and `find_fit`, and `Allocating`, `Freeing` and
`Reallocating` about the calls; each says what heap comes out, and (`Holds`) that all other allocated blocks hold
what they held. `Copied`, `Resizing`, `MovedWithin` and `CopiedAndFreed` are the ways through
`mm_realloc`: a block that moves down onto its predecessor overlaps itself, and copying upwards reads each word
before it is overwritten. `MallocStep`, `FreeStep` and `ReallocStep` add the client. Since
`Settled` forgets the words that no call may rely on, `SettledKept` also shows that the heap never
depends on such a word.

That the walks of the model agree with `sz` and `U` (`BlocksFound`, `ListFound`) is an induction
along the heap and along a list. It goes through least counterexamples (`LeastNumber`): among the
addresses, or the ranks, at which the walk is wrong there would be a last one, and the equation of the walk there
contradicts it. `WalkExists` and `ListExists` give the recursive functions
as sets first, so that these equations may be used.

### The coroutine pool

`Coroutines_proofs` proves for every `MaxCoroutines`, `SleepTimes`, `MaxTime`
and `Unsigned` allowed by `PoolAssumption`:

* `Invariance`: `Spec => []IInv`, with the consequences `TypeCorrect`,
  `RightStack`, `StacksKept`, `FlagMeansFinished`;
* `NothingDeletedEarly`: `Spec => DeletesOnlyFinished`;
* `TurnsAreFair`: `TurnsSpec => NobodyOvertakesTwice`, for `CoroutineTurns`, which adds only a history;
* `SleepLongEnough` and `PoolImplementsTasks`, under `ClockSteps = {}`: sleeps are
  long enough, and the pool implements `TaskPool`. The run `sleep_clock` shows that the
  assumption is needed.

**The inductive invariant.** `RunsTheRightStack` is not inductive: that `resume`
installs stack `i` needs `SavedStacks`, and `SavedStacks` after a switch needs that
`context_id`, `i` and `running` were equal while the body ran, which is
`RunsTheRightStack`. `PassFlag` needs to know that the flag is false whenever a
body runs, since a body moves the scan past itself without having finished.
`ModeInv` adds that, and that threads exist only in a parallel run and
`is_parallel` is false in a scan (so `yield` and `sleep` are really switches).
`IInv` is the conjunction. `NextIInv` has one step per action and one sub-step per
conjunct. Deletion then follows at once: `Return` needs `i >= n` and
`all_finished`, and `PassFlag` says that all below `i` have finished.

For the turns, `TurnsInv` says who can have been resumed while a coroutine was waiting: if the scan is past
it, only coroutines behind it and in this pass; otherwise those of this pass so far, and those behind it in
the last one. Neither contains the one whose turn it is. The step that needs the code is `SkipCoroutine`: the
scan leaves nobody out who is due, so whoever was passed over was not waiting.

For the sleeps, `WallIsReal` (the two clocks agree) is invariant when nobody sets
the clock; then `wall[c]` is not negative, its unsigned value is itself, and the
comparison of `Elapsed` is the one that `SleepsAtLeast` asks for. The refinement
adds `ReadyInMain`, by which the refinement mapping makes no task asleep while
the pool is in `main`; `NextTasks` maps each action to its abstract
one or, by the lemma `Invisible`, to a stutter.

### The two programs on the pool

The second half of `Coroutines_proofs` builds on that invariant: a step of either program is a step of the pool
(`StepsOfThePool`, `SortStepsOfThePool`), so `IInv` costs nothing again, and
`SearchRunsThePool` and `SortRunsThePool` say that the pool's theorems hold of the programs.

**binary_search.** `BatchAssumption` is what the program's `main` asserts or builds: batches fit in
the pool, their size divides the number of searches, tables are not empty and sorted.
`SearchInvariance` proves `SearchInv`, and `SearchesRight` that every search of a batch that has
returned has its right answer. `SearchInv` is `IInv` together with: the table stays sorted; while
the pool runs, the batch in it is complete (`BatchInv`); and each search that has not ended has
its answer within its own interval, while the result of one that has ended is the answer
(`IntervalsInv`). The pool's invariant is what makes it inductive: `RunsTheRightStack` says that the
body works on the interval of the coroutine that runs, and `PassFlag` that the pool returns only
when all have ended, so that their answers are final. `NarrowKeeps` is the step of the algorithm
by itself.

**sleep_sort.** `SortsIfPrompt` proves `Sorted` for any numbers, under the assumption `Prompt`: three
rounds of the pool take no longer than a millisecond. The assumption is needed in this form; TLC finds a
wrong order for a millisecond of two rounds, and of two and a half. Two of the rounds are
those that a coroutine may wait after it was due, when it is behind others whose turns take long; the third is
the first pass, in which the coroutines go to sleep one after another. The invariant `SortInv` has a part for each:

* `FirstPassInv`, `StageInv`: each coroutine sleeps once, in the order of the vector, all in the
  first pass;
* `OrderInv`: of two sleepers the one before in the vector has slept longer, by a round at most;
* `PolledInv`: a sleeper that is due was not yet due when the pool last came to it, in this round or
  the one before, if it has come to it at all;
* `OutInv`: what is printed is sorted and not larger than any number that is still to come.

The step is that of a resumption: if the number of the one who goes on were larger than that of a
sleeper, the sleeper would have been due when the pool last came to it. Setting the clock spoils
`OrderInv` at once, so these parts are claimed only before that (`clockSet`).

### The messenger

`Messenger_proofs` is about any number of messages, under way or in all, any losses and any number of
messages that come late or again. Without an assumption on `Short` it proves `KeysAreFresh`,
`ForwardSecure`, `Types` and, for `BreakIn`, `BreakInHeals`; under `Short = {}`, that is with a right
`key_to_uint8_t_array`, also `ChecksSucceed`, `ChainsBelongTogether` and
`MessengerImplementsChannel`. The run `short_number` shows that this assumption is needed.

**The inductive invariant** `IInv` needs no step between the parties to be right. It has five parts:

* `Shape`: the variables have their types, and terms are made as the KDFs make them;
* `Ages`: the terms of a ratchet contain only key pairs that exist. A ratchet step uses a
  new pair, so its chain differs from all that were ever derived;
* `Owners`: a chain on which a message was encrypted belongs to one key pair of one party, the message
  keys used on it lie behind the chain key, and neither party can derive such a chain from its root
  key, unless it is just about to, for the first time. This gives `NoKeyTwice`, and half of `ForwardSecurity`;
* `Progress`: in a chain that lost nothing, the receiver has gone past each key that was used and is no longer
  under way, which is the other half;
* `Reading`: whatever is under way and can still be opened is newer than all that was read. This is the
  order which `SecureChannel` promises whatever comes again.

`SyncInv` adds what holds while nothing is `astray` and conversions are right: `AuthenticData` (every
tag has the bytes the receiver will compute) and `InStep`, which relates the two root keys in each of the
phases of a ratchet: the parties have the same root key, or one is a step ahead and the messages under way
carry the public key by which the other will follow. Where something went astray only the fact is kept that
`gaps` is not empty. The refinement is `IInv`, `SyncInv` and one lemma per action: a `receive_message` is
`Read` if the tag is right, and `Spoil` otherwise, which `SyncInv` allows only after a gap.

The proof corrected the model: `astray` used to become true only for a message of a chain that
had ended, and `InStep` was then not inductive. With two repeated messages, the later chain's before the
earlier one's, a check fails in a chain without a gap; the instances with one repeated message
could not show it.

**Break-in recovery.** `BreakInHeals` states `RecoversFromBreakIn` for a break-in at any moment,
also while messages of earlier key pairs are under way or come back. Its invariant `BreakInInv` adds
two parts to `IInv`:

* `Pairs`: the root key and the sending chain of a party end with the number of its present key
  pair and the last public key it has seen; its receiving chain with that public key and an earlier pair
  of its own. A public key that has been seen or sent is not newer than its owner's pair;
* `Learnt(n)`, where n key pairs existed at the break-in: the known terms are made from these n.
  The victim's pair is the known one or newer than all n, and so are its public keys in messages and
  in the other's ratchet; the other party's pairs are never the known one. The other's receiving chain
  has no number with the known secret key unless its public key is an old one, too.

All steps are those of two kinds (`CalmOrTurn`): nobody ratchets, or one party does, for a
message of the other. With a new key in its number a term is none of the known ones
(`NewIsNotOld`), and without the known secret key it does not follow from them
(`RootNotKnown`, `ChainNotKnown`). The order in `DHRatchet` matters: computing the second number before there
is a new pair would leave the old secret key in it.

### Natural numbers

`BigUnsigned_proofs`, for blocks of any number of bits, ints and primitive types of any width, and numbers
of any length:

* `NaturalsImplemented`: every call of `BigUnsigned` is a step of `Arithmetic` for the numbers that
  the blocks stand for, with the same result, answer or exception;
* `NoLeadingZeros`: no call leaves a leading zero (`Canonical`).

Both assume that zero is not shifted by a block or more (`~ShiftsZero`); the run `shift_zero` shows
that the assumption is needed. `Parameters` says that the program has its three variables and that a
primitive type has no more bits than a block. The inductive invariant is `NumbersNatural`, all variables hold a
`Natural`: an array of blocks whose last one is not zero. The operations need it: that
`len = 0` is the test for zero, that the shorter of two numbers is the smaller (`ShorterIsLess`, on which
subtraction, comparison and division rely before they look at a block), and that
numbers are equal only if their arrays are (`CompareVal`).

The number of an array is a sum over its blocks (`Places`), and the loops of the code are recursive
functions over blocks and bits. The prover has no rule for induction over data, so each of them is led
through a set of numbers that contains 0 and with each number the next (`Inductive`), which is all of Nat by
a least counterexample. The steps are:

* `AddStageVal`, `SubtractStageVal`: finding the carry by comparing is right, with a carry coming in too;
* `RippleVal`: the blocks of a chain of stages and its last carry are the sum or difference of the
  parts above block i, and the blocks below stay. `SumVal`, `DifferenceVal` (the last borrow says which
  number is smaller), `IncrementVal` and `DecrementVal` follow;
* `ShiftedVal`, `OperandVal`: blocks put together by `getShiftedBlock` are those of the shifted
  number, which also gives `ShiftLeftVal` and `ShiftRightVal`;
* `ProductSums`, `DivisionLeaves`: after t bits the product is that of the lowest t bits of a, and the rest and the
  quotient so far satisfy a = q * b + rest with rest < b * 2^t. That the array of the rest is long
  enough, with its extra block, and that the product leaves at most one leading zero, are part of it;
* `BitOf`, `BlockOf`, `BitLengthVal`, `SetBlockVal`, `SetBitVal` for parts of numbers, and `OnBitsVal`,
  `BitAndVal`, `BitOrVal`, `BitXorVal`: the bits of the result are those of the operands combined, and only
  one number has them (`HasBitsOnce`);
* `CastVal`: a cast to a narrower type and back keeps just the values of the type.

### Integers

`Bigint_proofs`, for `BigInteger`, every set of variables and every width of block and type:

* `SignsAgree`: no sequence of calls leaves a zero with a sign or another number without one
  (`NumbersProper` is inductive), whatever the compiler does with the least int;
* `IntegersImplemented`: if least values negate to themselves (`NotWrapped = {}`), every
  call is a step of `Arithmetic`. There is one lemma per operation on values (`SumVal`, `DivisionVal`,
  `ConvertsVal`, ...) and one per kind of call, each for arbitrary receivers and operands, so
  that aliasing is covered. The run `least_int` shows that the assumption is needed.

and for `BigAlgorithms` and all integers: `RowsInvariant`, the two rows that the comment in the code
calls invariants; `ReturnsGcd`, `ReturnsInverse`; and `AnswersAreRight`, all of `AnswerIsRight`. The
last one adds to the divisibility of the first three the signs and sizes, what modinv refuses, and
modexp. It needs three invariants:

* `AlgInv`: the rows, and that the divisors of the two remainders are those of the
  arguments (`DivisorsKept`); one half of the loop's body keeps them because a remainder is a
  combination of the two;
* `SignInv`: in gcd and modinv the remainders are not negative once one division has been made, so
  the last one is the greatest common divisor itself and 1 is recognised. extendedEuclidean by itself
  may return its negative, which `AnswerIsRight` allows;
* `ExpInv`: before bit i of the exponent e, the answer is congruent to the power of e divided by
  2^i rounded down. `PowerSum` and `OneMoreBit` are the step.

That the loops end is model-checked.

For `BigUnsignedInABase`, every base, block width, integer, array of digits and string: `RoundTrips`, what is written is read
again and every string is read as its places say; and `KeepsToRoom`, the comment "we can't run out of
room". `BaseInv` says that the digits found, weighed by their places (`Places`), and what is left times the next
power of the base are the magnitude written, and that this is, while something is left, below the power of
the base that there is room for (`RoomSuffices`: a digit holds at least one bit less than the base has, and a magnitude with l bits is
below 2^l). A digit therefore always fits while something is left. An array of digits has its lowest digit as the
remainder (`LowestDigit`) and means the same without the zeros above. Reading goes from the highest digit down
(`FromTheHighest`), drops the zeros above (`ZapsLeadingZeros`) and finds each digit in its symbol
(`NumeralVal`, `SymbolsAreRead`).

### Hashes, HKDF and GCM

`Primitives_proofs` is about sizes of any kind, lengths of any kind, and what the runs can only sample:
all positions of a byte in a block and all carries. The modules state what is assumed of their
constants: `ShaAssumption` (two words fit in a block, and int is narrower than the counter's
words), `SpongeAssumption` (`buf` has room for a block), `GcmAssumption` (a byte has more than two values,
and int does not count more blocks than the counter has values), `HkdfAssumption` (a hash fits in a
block), `HexAssumption` (an int counts the bits of a text, and a text has fewer parts than a counter block
has values). The code's sizes satisfy each of them.

* `ShaHashesThePaddedMessage`. `ShaInv` says that before the padding the hashed blocks and the first
  `len` bytes of the buffer are what was read, and the counter counts the hashed blocks. The two
  ways through `main_hash` (with and without room for the length) give the last one or two blocks;
  what the buffer held before does not matter.
* `SpongeDigestsWhatWasAdded`. `SpongeInv` says the same of `absorbed` and `buf` between any two calls.
  `add` is three parts (`BufferedHolds`, `AbsorbHolds`, `AbsorbBlocksHolds`). `sha3` may
  write over `buf` as it only touches the bytes behind those that wait.
* `GcmCounterBlocksDiffer` and `GcmOpensOnlyWhatWasSealed`. Counter block b of an IV is the IV followed
  by the digits of b + 1 (`CounterOf`), since incrementing with a carry through all bytes is adding one
  to the number and the number stays below the counter's range. So two that are equal have the same
  number and IV. A tag determines the IV and what was hashed; from the two lengths at
  its end, the parts of what was hashed are recovered.
* `HkdfReturnsStandardOkm`, `HkdfOkmNeverRepeats`. `HkdfInv` says that the output so far consists of the bytes
  of one chain of HMACs, and `previous` is its last element. Up to 255 hashes the counter has not
  wrapped and the chain is that of RFC 5869, whose recursive definition has only one solution. Beyond that the
  counter repeats, but the chain does not: if two of its elements were equal, so would be
  the two before them, as the hash is injective, down to the first, which was made from the empty string
  (a least counterexample).
* `HexWorksOnTheBytesOfTheText`. `ExchangedDigits` says where the digits of a part lie in the integer,
  and `ByteAt` that the byte at address a is the one a places before the end of the part, whether the part is
  full or not. From that, `TakesPart` and the last conjuncts of `HexInv` (where `idx` stands, counted
  from the start of the last part) show that `sha256` takes the bytes in order, and `ReversedPart` that
  `myreverse` restores their order. Counter blocks of two parts differ since their digits are those of
  two numbers less than the counter's range apart.

The hash, the cipher and GHASH are ideal in these proofs as in the model: different inputs, different
terms.

### Enigma

`Enigma_proofs`, for every alphabet of at least three letters, all wirings that are permutations, a
reflector and plugs that are pairings: `Reciprocal`, the second run gives the text back, and
`MiddleMovesOnce`. That a position pairs the letters (`EncryptedTwice`) follows from the rotors
being inverse on the way back. The invariant keeps the history of positions of both runs:
each follows from the one before, so the second run repeats those of the first.

`PairedLoops` (the property `LoopsInPairs`): for every setting, the sorted lengths of the loops that `decrypt` finds in each of its
three maps are equal two by two and add up to the size of the alphabet. It needs no assumption
beyond those of the machine. The invariant of the search says that what was found are cycles of
the map without a letter in common, that the loop being followed is a path apart from them, and that
the letters already passed over are on one of these. A map is one pairing `a` of the letters after
another, and no letter is turned into itself; so `a` takes each cycle to one of the same length
(`LoopToLoop`, `LoopFits`), never to itself (`LoopApart`: in the middle between a letter and its
partner would be a letter that one of the pairings leaves alone). The rest is counting: a set whose
elements are paired is even (`PairedIsEven`), hence equal entries of a sorted list with such a pairing
are neighbours two by two (`SortedPairs`), and each letter is at exactly one place of one loop.
`Ascending` chooses a sorted order; `SortingExists` shows there is one.

`Division` holds the facts about numbers that several of these modules use.

## 6. Only model-checked

* Liveness (`EveryCoroutineResumed`, `ReturnsWhenAllEnd`, `ProgramsEnd`, `CallsEnd`): fairness is
  beyond the prover.
* Everything about `MdriverRanges` by itself.
* `SavedStacks` and `PassFlag` of `CoroutinePool` are the other way round: they are proved and no run
  checks them by themselves.

## 7. What the violated runs show

1. `realloc_overlap` (mm.c:492): `mm_realloc` uses memcpy for regions that overlap;
   it works with an implementation that copies upwards, and the C standard
   promises nothing. memmove would be right.
2. `driver_overlap` (mdriver.c:401): the driver does not notice a payload that
   encloses an older one. `Malloc` never produces one: all of its payloads are accepted and
   `BlocksAreLive` shows them in distinct blocks.
3. `sleep_clock` (common.h:53): "at least ms milliseconds" does not survive a change
   of the system clock. A steady clock would keep it.
4. `sleep_sort_slow` (coroutine_pool.h:66): order of output is order of polling
   for numbers that become due in one round.
5. `short_number` (diffie-hellman.cpp:48): the conversion pads to 256 digits
   instead of 512. A number of fewer than 511 digits, about one in 256, can end a
   conversation with failed checks. (With `srand(41)` the test program prints "check res is 0" twice.)
6. `shift_zero` (BigUnsigned.cc:617): a zero shifted left by a block or more
   keeps leading zero blocks, so it is no longer equal to zero and `isZero` denies it.
7. `least_int` (BigInteger.cc:67): negating the least int overflows. Built with -O2, as by the
   makefile of homework 3, `BigInteger(-2147483648)` is another number, and `toInt` refuses the
   right one; without optimisation both work. Programs that never use the least int or long
   are not concerned.

A deviation that is no finding: modexp returns 1 for exponent 0 and modulus 1, where the residue is 0;
`AnswerIsRight` states it as an exception.

## 8. Not modelled, and the plan

Not modelled, and why:

* measuring (fcyc.c and the like), reading and writing of files and traces, options, printing:
  input and output, with no state that the rest depends on;
* the arithmetic of ciphers and hashes on words, `GF_Multiply` and the random choice of keys: ideal, as
  their properties are not ones a model checker can show;
* registers and the size of a stack in context.S and context.h; pools within pools;
* Bob sending first, for which the constructor leaves his chain keys uninitialised
  (double-ratchet.cpp:50): the programs never do it;
* negative numbers in sleep_sort.cpp, which become sleeps of more than 500 million years;
* texts of an odd number of digits, or ending with a newline, in homework 2;
* the frequency analyses of homework 1 (task1.py to task3.py), and the table that `decrypt` of
  enigma.py fills from the lengths of loops: single passes over fixed data;
* bigint's own tests, which print results of single calls.

What could come next:

1. `ContextSwitch`: the registers that context.S saves, implementing `SwitchBack`
   of `CoroutinePool`; pools within pools, and their global `g_pool`.
2. mdriver's reading of traces and the K-best search of fcyc.c.
3. Bob sending first.
