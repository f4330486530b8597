# Doochi-Core in TLA+

Doochi-Core is a port of the core of a text search library to C++: a store of
index files (directories, outputs, inputs, locks), the analysis chain that turns
text into tokens (analyzers, tokenizers, filters, attributes), documents and
their fields, and the utilities below them. This directory holds TLA+ models of
its stateful parts, the TLC configurations that check them and TLAPS proofs
about them. Paths are relative to the repository, whose code is in `src/`.

## 1. Inventory

| component | state | operations | hard about it |
| --- | --- | --- | --- |
| `FSDirectory`, `MMapDirectory` (`Store/Directory.*`) | `is_open`, `pending_deletes`, `next_temp_file_counter`, and the POSIX directory | create, temp, rename, delete, sync, list, open for reading, close | deletes that fail are deferred and retried inside almost every other operation; several objects may sit on one path; crashes |
| `FileUtil` (`Util/File.h`) | none | one system call each | which errors are taken for success, which throw |
| `FileIndexOutput` (`Store/DataOutput.h`) | buffer, index, CRC, descriptor | write, checksum, close | three paths through `WriteBytes`, results of `write` and `fsync` that nobody reads, crash and loss of power |
| other `DataOutput`s, `BytesOutput`, rate limiter | buffers | encoders | numeric edges of variable-length integers |
| `NativeFSLockFactory`, `NativeFSLock` (`Store/Lock.*`) | lock file, descriptor, `closed`, `close_mutex` | obtain, close | processes and threads racing through five system calls, closes that race, reuse of descriptor numbers, crashes |
| mapped inputs (`ByteBufferIndexInput`) | mapping, position, a `closed` flag shared by clones | read, seek, clone, slice, close | lifetimes: who unmaps, who may still read |
| `BufferedIndexInput`, slices, checksum inputs | window over the file | read, seek, random access | window boundaries, slices that share the position of their base |
| `CloseableThreadLocal` (`Util/Concurrency.h`) | a map per thread, keyed by address | get, set, close, exit of a thread | threads that exit, addresses used again |
| `Analyzer`, reuse strategies (`Analysis/Analyzer.*`) | per-thread components | get a stream, normalize, close | reuse: what a stream handed out sees of the next call |
| `Tokenizer`, filters (`Analysis/TokenStream.*`) | `input`, `pending`, caches, positions | set reader, reset, increment, end, close | the workflow contract, exceptions in the middle of it |
| `AttributeSource` (`Util/Attribute.*`) | maps of shared attributes, cached state list | add, clear, capture, restore, copy | sharing between filters, stale states |
| readers, `CharacterUtil`, `CharacterBuffer` | position, mark, buffer | read, fill, reset | surrogate pairs at the end of a buffer |
| `Document`, fields | vector of fields | add, remove, get | removal |
| numeric, bit, array, byte utilities, `Version` | none | pure functions | overflow, ordering of encodings |

How they interact. `FSDirectory` calls `FileUtil`, hands out `FileIndexOutput`s
(created with `O_EXCL`), mapped inputs and locks, and shares the POSIX directory
with every other object on the same path; a lock is nothing but a file of that
directory and an flock on it. An `Analyzer` keeps one set of stream components
per thread (or per field and thread) in a `CloseableThreadLocal`, gives the
tokenizer a reader before every use, and hands the caller a reference to the
stream; filters share the `AttributeSource` of the stream they wrap.

What makes the parts correct, in a sentence each:

- Directory: an accepted delete is carried out, or its name stays pending, or the
  caller took the name back; a retry removes nothing else; no file is written by
  two outputs, none is read that is owed a delete; calls return.
- Output: the file is, in order and without gaps, what was written.
- Lock: at most one owner; nobody loses a lock that is his; nothing leaks.
- Inputs: a read returns the bytes of the file at the position, and touches no
  memory that was unmapped.
- Thread locals and analyzers: a thread gets what it set, never what somebody
  else did, and a stream is not changed under its consumer.
- Tokenizer: a consumer that keeps the contract gets its tokens, one that breaks
  it gets an exception and does no lasting harm.
- Codecs: decoding inverts encoding, and encodings keep the order.

## 2. Plan

Order, most important first. "done" means modelled, checked and proved as
sections 3 to 5 say.

1. `FSDirectory` - deletes, temp names, several objects, crashes; with one object
   it implements `DeferredDeletes`. *done*
2. `AppendLog` and `FileIndexOutput`, which implements it. *done*
3. `FileLocks` and `NativeFSLock`, which implements it. *done*
4. `MappedInput` - a mapping, its copies and slices, with threads that close and
   destroy them. *done*
5. `BufferedIndexInput` and slices of a file, against the file itself. *done*;
   left: checksum inputs, slices of slices, errors of the device.
6. `CloseableThreadLocal`, which implements `PrivateValues`. *done*
7. `Analyzer` over `StringReader` - the whole of `GetTokenStream` with both reuse
   strategies, a tokenizer and a `StopFilter`; implements `TokenStreams`. *done*; left: `Normalize` and
   `StringTokenStream`, `WordlistLoader`, lines and marks of readers, the
   caching filter.
8. `AttributeSource` and the filters' sharing of it. *done*; left: the values of
   attributes and `RestoreState`.
9. `Encodings` - numbers and strings to bytes and back, growth of the array below,
   sortable numbers and the comparison of bytes. *done*; left: `CharacterUtil`,
   `Document`, `Add` and `Substract`, blocks and copies of byte references.

Theorems: for all nine, types, every safety invariant and action property the runs
check, and the five refinements. All are proved.

A run has its own question; what is left under 7 to 9 is sequential code over
the contents of strings, where a test reaches as much as a model would.

## 3. Modules and runs

Each component has a module with its state, one action per operation or system
call, and its properties; `MC*` modules only give a few constants their values;
`*Proofs` modules hold the theorems. Five modules say what a component promises
to its users and nothing of how (`DeferredDeletes`, `AppendLog`, `FileLocks`,
`PrivateValues`, `TokenStreams`); the component's module instantiates it, and the run
of the component checks that it is implemented. Definitions named "Mutant" in a comment are
faulty variants of the action below them, used to see that a property notices
such a fault; no specification uses them.

### FSDirectory

`Dirs` is the set of directory objects, each used by one thread at a time
(`Directory.h:130` says that `pending_deletes` is not thread safe). They share
one POSIX directory, `here`, `files`, `nfiles`: names linked to numbered files,
so that a file and a later one of the same name differ. An action makes at most
one system call, so operations of different objects interleave between system
calls; `pc[d]` says where an object is inside an operation, `cur[d]` which name
the next system call is about, `todo[d]` what the loop has left. `outs` and
`ins` are the files its outputs and inputs have open. `deleted[d]` is history:
the files whose deletion was accepted and is still owed.

| operation in `Directory.cpp` | actions |
| --- | --- |
| constructor, 92-123 | `Construct` (`IsDirectory` may answer anything for a missing path), `MakeDirectory`, `Constructed` |
| `DeleteFile`, 267 | `DeleteFile` (guards, `ToRealPath`), `RemoveFirst` (`remove`, defers on an error), then the drain |
| `DeletePendingFiles`, 283 | `Drain` per name, `RetrySucceeds`, `RetryFails`, `RetryDies`, `DrainEnd`; after a retry that succeeds the range-for walks an erased element, so it may go on, end, or end the process |
| `CreateOutput`, 193 | `CreateOutput`: forgets the pending delete, then `O_EXCL` |
| `CreateTempOutput`, 203 | `CreateTempOutput`, drain, `Probe` per turn of the loop, `CreateTemp` |
| `Rename`, 241; `Sync`, 232 | `Rename`; `Sync`, `FsyncOne` per name (creates a missing one), `SyncEnd`; then the drain |
| `OpenInput`, 304 | `OpenInput` (guards), `MapInput` |
| `CheckPendingDeletions`, `Close` | the same names, then the drain |
| crash, destruction without `Close` | `Crash` |

Left out: reads that change nothing (`ListAll`, `FileLength`), `SyncMetaData`
(opens a directory for writing, which always fails), which exception is thrown,
and the prefix and suffix of temp names. `CopyFrom` and
`DeleteFilesIgnoringExceptions` are sequences of the operations above.

- `directory_sole` (`FSDirectory_sole.cfg`): one object, two plain and two temp
  names, up to three files ever, `Sync` of one name.
  `NoForgottenDelete`: a file whose deletion was accepted is unlinked, pending
  or taken back; `RetriesHitOwedFiles`: a retry never removes a file that got
  the name later; `DeletedStaysUnread`: no input is mapped on an owed file.
  `KeepsDeletePromise`: the three together implement `DeferredDeletes`, in which
  a name loses its file by a rename or an accepted deletion only, a deletion that was
  accepted is carried out, taken back with its name or lost with the process, and
  nothing owed is read. There are no pending names, loops or retries in it.
- `directory_shared` (`FSDirectory_shared.cfg`): two objects, two names, both of
  them temp names and free for callers to use as well, up to two files ever.
  `SingleWriter`: never two outputs of two objects on one file; `CallsReturn`: every
  call returns or throws, but for a `CreateTempOutput` that finds each of the names
  taken, again and again.

Bounds. In the first run two temp names make the counter wrap, two plain names
make a rename, and a third file is the one that gets a name again while the first
is owed. In the shared run two files fill both temp names, so the search really
goes round for ever in it: because both names stay taken, and also because the
other object keeps renaming its one file from the name that is asked next to the
other. `CallsReturn` says that nothing less does this: one name that is free for
good ends the search. With 2^32 names and a file system that holds fewer files
neither happens by itself, but the code has no bound on its loop.
The view of this run, `SharedView`, has names for file identities, and leaves out
what is mapped and what is owed: neither property, and no step but the closing of
an input, depends on them; that step fires in the first run.
When `MaxFiles` is reached the open fails as with a full disk.

Two objects on one path do not keep the three delete properties: a retry of one
removes a file the other has made since, and `ToRealPath`, which stands before
the `try` (142), throws for a pending file the other has removed. `pending_deletes` is per
object, so the model states these properties for an object that is alone.

### FileIndexOutput and AppendLog

A byte is its position in the stream, so `file`, `buffer` and `chunk` are
sequences of positions and a byte lost, doubled or moved shows. `BUF_SIZE` is
8192 in the code. `Write` is `write(2)`: it may store less than it is given, and
`ignored` records that the code looked away (the results at 352, 401, 431 and 432 are not read).
`WriteBytes` has the three branches of the code; its long one is two system
calls, so `WriteDirect` finishes it and a crash can come between; so is
`GetChecksum` of an open output, which `SyncChecksummed` finishes with the fsync and
only then resets the buffer (`syncing` in between). `SyncFile` is
`Directory::Sync`, which uses another descriptor and does not see the buffer.
`durable` is what an fsync has secured, `promised` what a caller may think
secured, `touched` how much of the array was ever stored to.

`AppendLog` is the promise: a log that grows, of which the file holds a prefix;
all of it after `Finish`; a crash cuts back to nothing shorter than what was
secured; no promise after an error nobody noticed.

- `output` (`FileIndexOutput.cfg`): a buffer of 3, chunks up to 4, 8 bytes.
  `InOrder`, `ClosedIsComplete`, `CrashLeavesPrefix`, `ImplementsLog` and
  `OverrunIsOneByte`: `WriteBytes` may fill the buffer to the brim without a
  flush, and the next `WriteByte` (385) then stores one byte behind the array,
  into the padding of the object, before the flush. The run reaches it, and
  shows that it is never more than that byte.

Bounds: chunks shorter than, as long as and longer than the buffer and than the
room left in it, over more than two buffers' worth of bytes. The proofs need none.

### NativeFSLock and FileLocks

Threads of several processes call `ObtainLock` and `Close` for one name.
`ObtainFSLock` is cut at its system calls: `Create` (`O_EXCL`, result unimportant),
`CloseCreated`, `RealPath`, `Open`, then `Grant` or `Refuse` (`flock` may fail though
nobody holds the lock) and `GiveUp`;
`Close` at the acquisition of `close_mutex` (`Enter`, with the test of `closed`),
`Unlock`, `CloseFile`, `Mark`. `open` and `flocked` are the system's tables; any
free descriptor number may be handed out again at once. `Crash` closes what a
process has. `DeleteLockFile`, allowed by `MayDelete`, is `FSDirectory::DeleteFile`
of the lock's name. A lock is `Owned` from the return of `ObtainLock` until a
`Close` of it reaches `flock(LOCK_UN)`.

`FileLocks` is the promise that holds in any case: exclusion per lock *file*.

- `lock` (`NativeFSLock.cfg`): three threads in two processes; the file may be
  deleted and made again. `SingleOwner`: never two owners while there has been
  one lock file only (`OneLockFile` proves that nobody but a delete brings a
  second one; after it two processes hold a lock of one name, on two files);
  `OwnerHoldsFlock`: an owner's descriptor is open on its file and holds the
  flock, through double closes and descriptor reuse; `NothingLeaks`;
  `ImplementsFileLocks`; `CallsReturn`, deletes or not.

Bounds: two threads in one process are what a double close and a reused
descriptor need, a third in another process is the competitor; two lock files
are the old one and the one after a delete; two objects are two owners, or an
owner and a competitor, and the proofs hold for any number; a descriptor per
thread and process.

### CloseableThreadLocal

Each thread keeps one map from addresses of objects to a value and to the object's
`closed` flag (`reference`); an address is used again after `Destroy`. `Set`,
`Get`, `Close` and `Destroy` are the member functions, `Exit` is the destructor of
a thread's map, which sets the flag of every entry it has, through a pointer
to wherever the object was. `CloseableThreadLocal::Get` lacks its `return` (174-177): the
model gives the caller the item that was found (`Lookup`), as the unoptimised
build of `CMakeLists.txt` does, on which the tests rely
(`ConcurrencyTests.cpp:35`); in an optimised build its result is undefined. `mine` records what a thread set and has
not closed, `misused` that two running threads used one object, which the comment
on the class (144) excludes, and `stray` that `Exit` wrote to memory that
held no object of that thread.

- `local_confined` (`CloseableThreadLocal.cfg`): two threads, two addresses, two
  values. `GetIsMine`: unless an object is shared, `Get` returns a value the
  thread set on this very object, and nothing that somebody left at its
  address; `NoStrayWrite`: the end of a thread writes to its own objects only.
  `ImplementsPrivateValues`: as long as no object is shared, what `Get` gives each
  thread of each object behaves as in `PrivateValues`, which has neither maps nor
  flags: an object is born without values, and a thread's value changes when that
  thread sets its first, closes the object or ends, or when the object is destroyed.
- `local_shared` refutes `ThreadsInvisible`, what the tests of the reuse
  strategies say of an object that threads do share: when one thread ends,
  `Get` of the other throws.

Bounds: a second thread to share, end and start again with an empty map, a
second address so that one object outlives the other, and two values so that
one that somebody else set can be told from one's own. Threads, addresses and
values are symmetric.

### AttributeSource

Stream 1 is a tokenizer, stream `s + 1` a filter over stream `s`. `impls[s]` is
the map of `s` from types to instances; `holder[s]` is the cell its
`state_holder` points to and `state` what the cells hold, a list of instances
that is computed once (`GetCurrentState`, which `ClearAttributes`,
`EndAttributes` and `CaptureState` call) and forgotten when an instance is added.
`NewFilter` clones: the base-class initialiser of `TokenFilter` is the copy
constructor. `FilterAddAttribute` adds to the input and takes over its maps and
its cell. `AddAttribute` is what a tokenizer, or a consumer who knows a stream
only as a `TokenStream`, calls. `orderly` records that nothing but constructors
added attributes, each before the next stream was built.

- `attr_chain` (`AttributeSource.cfg`): a tokenizer and two filters, two types, six
  instances. While `orderly`: `TokenizerIsShared`, filters read what the
  tokenizer writes; `ListsAreLiving`, no list points to an instance that is gone;
  `TokenizerClearsAll`, the tokenizer's `ClearAttributes` reaches all it has.
- `attr_removed` refutes `RemovedIsEmpty`, what the test of `RemoveAllAttributes`
  says (`AttributeSourceTests.cpp:219`): the list stays when the maps are emptied.

Bounds: three streams are the shortest chain in which a filter has a filter
below it; two types, so that streams can differ in one and share the other.

### BufferedIndexInput

An input (the `File`, or a slice) is a window `win[i]`: the fields `size`,
`start`, `length` and `position` of the class, and `buffer`, empty while it is
`nullptr`. A byte is its position in the file, so a read that returns others
is seen. A slice reads through the object it was taken from, whose window and
position it moves; below that is the descriptor, at `device`. The file itself
is a subclass that the repository leaves to its users, so `FromDevice` is
external. `ReadInternal` and what it changes is a *supply*.

| operation in `DataInput.h` | actions |
| --- | --- |
| `ReadBytes`, 490 | `ReadBytes`: from the window, by way of `Refill`, or past the buffer |
| `ReadByte`, `ReadInt16`, ..., `ReadVInt32`, ... | `ReadValueHere` when the window holds the longest such value, else `ReadValueBytewise` |
| `ReadByte(pos)`, `ReadInt16(pos)`, ... | `ReadAt`, with the unsigned `buffer_length - (n - 1)` of the code; `pos` is relative to the input |
| `Seek`; `SetBufferSize`, 793; taking a slice | `Seek`; `SetBufferSize`; `Slice` |

When an access leaves an array, nothing is known of the program any more: `wild`
is set and the model stops, for which the run switches off the check for
deadlock. `torn` names the slices whose window was filled by a read that
the code split over the file's window, `faults` the promises that reads have
broken.

- `window` (`BufferedIndexInput.cfg`): after any sequence of reads, seeks, resizes
  and new slices, `WindowIsFile`: a window that is not torn holds the bytes of
  the file; `DeviceFollows`: the descriptor is where a refill, which does
  not seek, has to begin; `ReadsAreRight`; `EndIsExact`: a read from the position throws
  exactly when the input ends before its last byte, one at a position exactly when
  it ends before its first; `ReadsMoveOn`; `OverrunIsKnown`: an array is
  left only in the two ways known.
Three things in the code limit these properties, and their definitions name them:
a `ReadBytes` that needs the window and more stores the second part over the first
(515, 525), so it is exempt from `ReadsAreRight`; `SetBufferSize` enlarges the size
of a window but not its array (799); `buffer_length - (n - 1)`
is unsigned and wraps when the window has fewer bytes than that (682, 707, 736), so that
a value of two bytes or more at any position behind the window's start is read without
a refill: stale bytes of the array, or what is behind it, and no exception at the
end of the input. `TooShort` names these reads; `ReadsAreRight` and `EndIsExact` exempt them.
And a value at a position that begins in the input and ends behind it is given without an
exception even after a refill; its bytes count as far as the input has them.

Bounds: a file of six bytes, a slice of the four in the middle, buffers of three
bytes and after `SetBufferSize` four, values of up to four bytes (at a position up to
three: a value read there has at most the eight bytes of `MIN_BUFFER_SIZE`), reads of up to
four. So a read is shorter than, as long as and longer than a window, and ends before, at and
behind the end of the input, the slice ends where the file does not, and their
windows overlap at different offsets. `MCView` identifies states that differ
only in bytes of an array behind its window, which no property depends on. `Word` is 2^32 in the code; 256 wraps in the same place
because every length is far below it. The proofs need no such bound.

Left out: errors of the device, slices of slices, `Close` (it passes on to the
base), and the byte order of values, which is in `Encodings`.

### MappedInput

An input owns a mapping or is a clone: `isClone`, `isClosed` (a pointer to a
flag on the heap, shared by copies, null for slices) and `base` are the fields.
`mem` says which mapping is at an address, `cells` what is in the flags; both
addresses and flags are handed out again as soon as they are free, so that an
`munmap` or a `delete` too many hits somebody else. `of` is history: the mapping
an input was made for.

| `ByteBufferIndexInput` in `DataInput.h`, `MMapDirectory::OpenInput` | actions |
| --- | --- |
| `OpenInput` | `OpenInput`, or `OpenInputThrows` |
| copy constructor, `Slice`, move constructor | `Copy`, `Slice`, `Move` (what is left behind becomes a clone) |
| `Close`, 1343 | `Close`, then `Test` of the flag, `Unmap`, which may fail, `Mark` |
| destructor | the same with `dying`, then `Delete` |

A read checks nothing (`EnsureValid` has no caller) and changes a position only,
so it is a state predicate and not an action. An input is used by one thread at a
time, its copies and slices by others meanwhile.

- `mapped` (`MappedInput.cfg`): `ReadsFindTheirFile`: as long as the owner is open,
  whoever that is after moves, everything taken from it finds its own file under
  its base. `CallsHitTheirOwn`: every `munmap` hits the mapping of the input
  that is closed, every flag tested, set or deleted is that of one living
  owner. `NothingLeaks`: what is mapped or allocated has an owner that will free it,
  but for a mapping whose `munmap` failed: `Close` sets the flag before it throws, so
  that nobody tries again (`stuck` records these).

Bounds: two threads, one to close while the other copies or closes; three inputs,
an owner, one taken from it and one taken from that, or the owner of another
file; two addresses and two flags, so that one is free and may be used again;
three mappings, so that an address is used twice while another is taken.
Threads, inputs and flags are symmetric.

After the owner is closed a clone reads memory that is gone or another
file's; nothing in the code prevents it, and no property says otherwise.

### Analyzer and StringReader

`Users` are those in a thread who analyse something, and `comp[t][k]` the
components thread `t` keeps under name `k`, which is the field of the user with the
per-field strategy and one name for all with the global one. `key`, chosen in `Init`, is
any map from users to names: with the per-field strategy too two users may analyse the
same field. Of a tokenizer its `input` and `pending` reader count, of the
filter its `skipped_positions`. Readers are `StringReader`s: the reusable one of the components
and those the callers bring along. A text is a sequence of words; the tokenizer
itself, which the repository leaves to its users, takes one word per token.
`use[t][p]` is the caller's side: the text asked for, what was taken at which
position, and `harmed`, which says that another user of the same components in the
same thread has made a call on them meanwhile. That can be as little as a second
`GetTokenStream` before the stream is closed: nothing in it asks whether the
components are in use, the reusable reader gets the new text
(`Analyzer.cpp:268`), and only then `SetReader` throws.

| code | actions |
| --- | --- |
| `Analyzer::GetTokenStream` (`Analyzer.cpp`), `GetReusableComponents` | `Look` |
| `SetReusableComponents` after a close in between | `StoreThrows` |
| the reader's new text, `Tokenizer::SetReader` | `Provide`, which is refused when somebody has yet to close |
| `Tokenizer::Reset`, `FilteringTokenFilter::Reset` | `ResetStream` |
| `FilteringTokenFilter::IncrementToken` | `IncrementToken`, `NoToken`, `IncrementThrows` (illegal reader) |
| `End`; `Close` | `End`; `Close`, `CloseThrows` (a stream never reset) |
| `Analyzer::Close`; end of a thread | `CloseAnalyzer`; `Exit`, as in `CloseableThreadLocal` |

- `analyzer` (`Analyzer.cfg`): `TypeOK`; `TokensAreAsked`: whoever is not harmed takes the
  words of their own text, each at its place, and ends behind the last, whatever
  earlier users left; and only another user of the same components in the same
  thread can harm, under the per-field strategy only one of the same field. `LeftUsable`: components nobody uses accept the next
  reader, and nobody's input is a reader that is destroyed.
  `ImplementsTokenStreams`: nothing but the uses is left in `TokenStreams`, no
  components, readers or reuse. Each step is one move of one use: it asks, is
  given a stream, takes the next accepted word of its text, comes to the end,
  or leaves; that step may harm other uses of the same thread.

A caller may stop anywhere and close, close without a reset, or be refused; what
they may not do is go on with a reader they have destroyed, which would be
undefined. Once all threads have ended nothing moves, which is why the run does not look for
deadlock.

Bounds: two threads, two users and two fields, so that components are shared within
a thread or not; a text that begins and ends with a stop word, and an empty one;
`Bound`: two streams in use at a time, of one thread or of two.
`View` drops what is written before it is read again: readers no tokenizer points to,
and skipped positions before the end. The proofs need none of these.

### Encodings

A number is the set of the places of its ones, so a shift moves a set, a byte is
cut out of it, and 64 bits need no large integers. `out` is the array of a
`GrowableByteArrayDataOutput`, with `Junk` where nothing was written; `Write` and `Read`
are the encoders of `DataOutput` and the decoders of `DataInput`, `Oversize`, `Grow`
and `CopyOf` are `ArrayUtil`'s. `ToBits`, which gives all NaNs the bits of one (`FloatToIntBits`,
`DoubleToLongBits`), `SortableBits` and `Flipped` are the conversions of
`Numeric.h`, `CompareTo` is `BytesRef`'s, `ReadPositional` the reads at a position of
`BufferedIndexInput`. `WriteForever` is the loop of `WriteSignedVInt64`, which does not
end for a negative number. A `Reset` of an output that has grown is a new output with
a capacity. Lengths are `uint32_t` and nothing checks them, so the specification ends
(`Fits`) before a sum of them reaches `Word`, 2^32 in the code: behind it they wrap and stores
leave the array. `Oversize` adds an eighth, so that is at some 3.8 GiB.

- `encodings` (`Encodings.cfg`): `ReadsGiveBack`: values of any kinds, one after the
  other, come back as they were (a NaN as a NaN, as `NumericTests.cpp:32,43` say), taking the bytes that were written, however the array
  grew; the exceptions are what `Kept` excludes (a negative `VInt32`, and zigzag
  numbers of more than 31 bits, because `ZigZagEncode` has 32) and the values of four and eight bytes read at
  a position, which come reversed (a misspelt macro, `DataInput.h:716`).
  `OrderIsKept`: the bytes of sortable numbers compare as the numbers do, all NaNs alike
  and above the rest, until
  bytes are 128 apart, where the difference, kept in a `char`, changes its sign.

Bounds: per width all numbers whose ones are one run between places where an
encoding changes (the ends of a byte, of the mantissa, of 31 bits, of the number): 0, 1,
-1, powers of two, one less, the extremes, infinities and NaNs of both signs; strings whose length takes one and two
bytes; two values, which is what growth, a joined value and an order need; an
empty array and one of eight, so that a value ends before, at and behind its
end. Reading ends, so the run does not look for deadlock.

## 4. Fairness

`FairSpec` of `FSDirectory` and `NativeFSLock` asks for weak fairness of the steps of a call already
entered (`Continue(d)`, `Step(t)`), per thread: the operating system goes on
running a thread, and none of the calls waits for anything but a system call or
`close_mutex`. Callers owe nothing: they need not call, close or delete. A
`remove` may fail for ever, and still every retry loop ends, because it visits
what it found at its start; the search for a temp name ends if one name is free
for good. Since another thread cannot keep `close_mutex`
without being inside `Close` itself, weak fairness is enough for it.

## 5. Proofs

The proofs hold for every value of the constants under the ASSUMEs of the
modules (which TLC evaluates on its instances).

`FSDirectoryProofs`: `TypeCorrect`. `OneWriterPerFile`, for any number of
objects: a file is only ever opened for writing when it is made, and each is made
once; the inductive part is that outputs are files that exist. Under
`SoleOwner` (one object on the path) `DeletesNotForgotten`, `RetriesAreSafe` and
`OwedFilesAreNotRead`. Neither of the delete properties is inductive:
`SoleInv` adds that a loop visits only names that are still pending, that the
name under retry is not visited again, that no file has two names, and that a
file about to be mapped is not owed. `SoleInv` also carries
`DirectoryKeepsDeletePromise`: with one owner the files owed are those of this
owner (`OwnersUnion`), and `PromiseStep` finds for each system call the step of
`DeferredDeletes` it is, which for an `unlink` in the middle of a loop is the
deletion of a file known to be owed.

`FileIndexOutputProofs`: one inductive invariant `OutInv` of lengths and of
the form "file, buffer and rest are the stream", stated position by position so
that the solver sees arithmetic and not concatenation. From it `TypeCorrect`,
`NothingLostOrMoved`, `OverrunBounded`, `CloseCompletes`, `CrashSafe`, and
`OutputImplementsLog`, each step of the output mapped to one of the log.

`NativeFSLockProofs`: one inductive invariant `LockInv`. It says that every
descriptor in use has exactly one user, a thread in `ObtainFSLock` or a lock
object, in its own process (`OneUser`, `ThreadsInv`, `LocksInv`), and that only
the owner of `close_mutex` is past the test of `closed`: that is why a
second close never hits a descriptor that was reused. From it `TypeCorrect`, `MutualExclusion`,
`OwnersHoldTheFlock`, `NothingLeaksEver` and `LocksImplementFileLocks`.
`MutualExclusion` contains its own condition, one lock file so far, and
`OneLockFile` says that it is met where nobody deletes the file.

`UtilProofs`, first half, about `CloseableThreadLocal`: `LocalInv` says that an object has one user, who
alone has an entry for it as long as a value is set and none after. From it
`TypeCorrect`, `ValuesStayWithTheirThread` and `ExitsAreClean`, under their own
condition `~misused`, and `LocalsArePrivate`, the refinement: by `LocalInv` a thread's
entry is there only while its value is, so what `Get` gives is the entry itself, and
an end or a destruction takes the values of one thread only (`PrivateStep`).

`UtilProofs`, second half, about `Encodings`, for every number of every width, every
string whose length an `int32_t` holds, any number of entries and any `Word`:
`EncodingsInv` says that the array has no junk below its length, that the
bytes of each entry begin where those before it end and are the `Code` of its value, and that
the input is at the start of an entry. That is what makes `ReadsGiveBack`
inductive: a read is right only if what is ahead begins with the very bytes
written, and it stays that way only if growing and storing leave them alone. Two
groups of lemmas stand below it. One shows for each encoding that its decoder takes
its bytes, and no more, from whatever they are followed by (`ReadEntry`, from
`BigEndianInverse`, `ReadGroupsInverse`, `ZigZagInverse`, `ReadStringInverse`
and so on). The other shows that a write appends its bytes and changes none
before, whether the array grows or not (`WriteAppends`). Loops and digits are induction
over data; it is done without the library's induction theorems, by least
counterexample: `Least` says that a set of numbers that is not empty has a least
element, and follows from the well-foundedness of `<`. The one induction over a
recursive function, `WriteEach`, is an induction on the set of indices for which the
claim holds. From the invariant `EncodingsInvariant`,
`ReadsGiveBackAlways` and `OrderIsKeptAlways`. The last one adds the order of
bytes: the first unlike byte of two big-endian numbers has the top place where the
numbers differ (`BytesBelow`), the one NaN lies above the bits of every number
(`NaNIsAbove`), and flipping the sign, and the magnitude of what
is negative, turns the order of numbers into that of their bits (`SortedOrder`).

`AttributeSourceProofs`, for chains of any length: `SharingInv` says that a
stream's cell is its own or that of the stream below, that a list names only
instances of streams that use it, and that the tokenizer's list is complete.
From it `TypeCorrect`, `FiltersReadTheTokenizer`, `NoListDangles` and
`ClearReachesAll`. That the topmost stream, if it shares, has exactly the
attributes of the stream below is what makes the step of a filter inductive: its
old maps may then be dropped.

`BufferedIndexInputProofs`, for files, slices and buffers of any size: `Inv` says
that windows are sane, that untorn ones hold the file's bytes, that the
descriptor is at the end of the file's window, and that nothing was broken.
The parts need each other: a refill reads the right bytes only because the
descriptor is where the window ends, and a slice's window is filled by what the
file's window gives. The lemmas follow the code: what `Refill` leaves, the four outcomes of
`ReadBytes` (in the window, at the end, past the buffer, refilled), what
`ReadInternal` of a slice gives. From it `TypeCorrect`, `WindowsHoldTheFile`,
`DeviceStays`, `RightBytes`, `RightEnd`, `RightPosition` and `OverrunsKnown`.

`MappedInputProofs`, for any number of threads, inputs, addresses and flags:
`MappedInv` says that a thread inside `Close` has its input for itself, that owners
have a flag and a mapping of their own, that all inputs of an owner's mapping share
its base, and that what is there has an owner. From it `TypeCorrect`,
`ReadsAreSafe`, `CallsAreSafe` and `NothingLeaksEver`. It needs all four parts: an
`munmap` is harmless only because no other owner has the address, and that only because
an address with a mapping is not handed out.

`AnalyzerProofs`, for any threads, users, fields, texts and stop words, and both
strategies: `AnalyzerInv` says of each thread that components nobody uses have the
illegal reader, that at most one unharmed user has a set of components, and (`InStep`) that
this user's position, the tokens taken, the reader and the skipped positions agree. The lemma
about a call says what a step of one user has to leave for it to hold, so that
each action is one application of it. From it `TypeCorrect`, `TokensAreRight`,
`StreamsAreLeftUsable` and `AnalyzerImplementsTokenStreams`, which has one lemma per kind of
move (`BeginMoves`, `TokenMoves`, `ExhaustMoves`, `EndMoves`, `ThrowMoves`); by `InStep` the
word the filter lets through is the next accepted one of the user's text.

Only model-checked: the two `CallsReturn`, since liveness under fairness is out
of the prover's reach. Of `FSDirectory`, `FileIndexOutput`, `NativeFSLock`, `CloseableThreadLocal`,
`MappedInput` and `AttributeSource`, `TypeOK` is proved and not checked by a run.

## 6. Not modelled

`PROJECT.json` lists every component with the reason.

- The standard tokenizer and most of `IndexFileNames` are stubs at this commit;
  exceptions, contexts and field descriptions have no behaviour.
- `Document` and its fields, `CharacterUtil` and `CharacterBuffer`, `Normalize`,
  `WordlistLoader`, `Version` and the attributes' values are sequential code over
  contents that the models leave abstract.
- Nothing constructs a `CachingTokenFilter`; filling its cache invalidates the
  iterator that walks it, so there is no defined behaviour to model.
- zlib's CRC32 and Google Test are third-party code. With their tables and
  generated headers they are more than half of the lines of C++ in `src/`.

Some hazards in `PROJECT.json` have no property; each has a note. They are two directory objects
whose pending deletes concern one name, deferred deletes that a crash forgets, a short `write` that nobody notices,
a second value of a thread local, and the caching filter.
