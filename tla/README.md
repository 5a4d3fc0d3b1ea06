# A TLA+ model of ImageMagick with OpenJPEG in a sandbox

The repository is three programs that work together:

- **ImageMagick** (`src/ImageMagick`): MagickCore, the wands and bindings above
  it, and the coders that read and write image formats;
- **OpenJPEG** (`src/openjpeg`): the JPEG 2000 library;
- **RLBox for wasm2c** (`src/rlbox_wasm2c_sandbox`): the sandbox in which the JP2
  coder of ImageMagick (`ImageMagick/coders/jp2.cpp`) runs OpenJPEG.

A read of a JPEG 2000 file goes through all of them. `ReadImage` chooses the
coder; `ReadJP2Image` opens the blob, calls the library in the sandbox and serves
its callbacks from the blob; the library pulls the file through its buffered
stream and may decode code blocks on its thread pool; the coder then writes the
pixels into the image's pixel cache, which obtains memory, a map or a file under
the process's resource limits, and which later copies of the image share until
one of them is written.

The modelled parts are the places on that way where several threads meet, where a
call is made of many steps that can fail, or where one part relies on what
another promises.

| Part of the system | Module | Promises (abstract module) | Proofs |
|---|---|---|---|
| OpenJPEG thread pool, `thread.c` | `ThreadPool` | `JobPool` | `ThreadPoolProofs` |
| Copy-on-write of images and pixel caches, `cache.c`, `image.c`, `cache-view.c` | `PixelCache` | `ImageValues` | `PixelCacheProofs` |
| Resource limits, opening of pixel caches and matrices, `resource.c`, `cache.c`, `matrix.c` | `MagickResources` | (properties only) | `MagickResourcesProofs` |
| Distributed pixel cache, `distribute-cache.c`, `cache.c` | `DistributeCache` | (properties only) | `DistributeCacheProofs` |
| OpenJPEG buffered byte stream, `cio.c` | `Stream` | `ByteFile` | `StreamProofs` |
| JPEG 2000 codestream decoder, `j2k.c` | `J2KDecoder` | (properties only) | `J2KDecoderProofs` |
| Tier-2 coding of a precinct, `t2.c`, `tgt.c`, `bio.c`, parts of `tcd.c` and `t1.c` | `Tier2` over `TagTree` | (properties only) | model-checked only |
| JP2 coder and its callbacks, `jp2.cpp` | `JP2Coder` | (properties only) | `JP2CoderProofs` |
| RLBox wasm2c sandbox, `rlbox_wasm2c_sandbox.hpp` | `Sandbox` | `CallbackTable` | `SandboxProofs` |

Each `MC...` module extends the module it is named after with what TLC needs:
symmetry sets, the inputs to enumerate, numbers that a configuration cannot write.
`PROJECT.json` maps each definition to the lines of the source it stands for.

How to run: `tlc -config <X>.cfg <MC module>.tla`, `tlapm <Proofs module>.tla`.


## 1. Inventory

### Components that keep shared or long-lived state

**OpenJPEG thread pool** (`openjpeg/src/lib/openjp2/thread.c`).
*State:* per pool a mutex and cond, a LIFO list of jobs, the count of pending
jobs, the LIFO list of waiting workers with its count, the threshold below which a
worker signals the client; per worker a mutex, a cond and a mark.
*Operations:* `opj_thread_pool_create`, `_submit_job`, `_wait_completion`,
`_destroy`, and the workers' loop.
*Interaction:* called by the tile coder and the wavelet transform; jobs are
callbacks.
*Hard:* two levels of mutexes, signals to one chosen worker, waits that return
spuriously, allocations that fail in a worker.
*Correct when* each job runs once, waits return when they should and not before,
destruction waits for everybody.

**Pixel cache** (`MagickCore/cache.c`, `cache-view.c`; `image.c` for the images).
*State:* `Image.reference_count`, `Image.cache`, `Image.semaphore`;
`CacheInfo.reference_count`, mode, pixels, semaphore.
*Operations:* `GetImagePixelCache` and what is built on it (get, queue and sync of
authentic pixels), virtual reads, `CloneImage`, `ReferenceImage`, `ModifyImage`,
`DestroyImage`, cache views, persistent caches.
*Interaction:* every image operator works on it from an OpenMP team.
*Hard:* two stacked reference counts, a semaphore held over several steps while
another is taken, reads that take no lock at all, failures half-way.
*Correct when* sharing cannot be noticed and nothing is freed early, twice or
never.

**Resource limits** (`MagickCore/resource.c`) and **opening of caches and matrices**
(`cache.c`, `matrix.c`).
*State:* process-wide counters and limits for area, memory, map, disk, file;
what each cache or matrix holds.
*Operations:* `AcquireMagickResource`, `RelinquishMagickResource`,
`OpenPixelCache` with its attempts, `ClosePixelCacheOnDisk`,
`RelinquishPixelCachePixels`, `PersistPixelCache`, `AcquireMatrixInfo`,
`DestroyMatrixInfo`.
*Hard:* each attempt is a check and a grant of its own, between which other
threads take the rest; many failure paths, each with its own clean-up.
*Correct when* the counters say what is held and the limits hold.

**OpenJPEG byte stream** (`openjpeg/src/lib/openjp2/cio.c`).
*State:* the buffer, its pointer and count, the byte offset, status flags; the
media behind the callbacks.
*Operations:* read, skip, seek of an input stream; write, flush, skip, seek of an
output stream.
*Interaction:* the codec calls it, it calls read, write, skip and seek callbacks
of the program.
*Hard:* callbacks move fewer bytes than asked, fail, or take nothing at all.
*Correct when* it behaves like a file with a position.

**JP2 coder** (`ImageMagick/coders/jp2.cpp`).
*State:* the sandbox (one per process), the callbacks registered in it, two
variables of the process that the verifiers look at, per call the library's
objects, tokens of app pointers, the blob.
*Operations:* `ReadJP2Image`, `WriteJP2Image`, the callbacks and verifiers.
*Hard:* state of the process that survives a call, ten library calls with an error
path each, requests of the library that the verifiers must let pass.
*Correct when* whatever OpenJPEG legitimately asks is answered, and each path
gives back what it took.

**RLBox wasm2c sandbox** (`rlbox_wasm2c_sandbox.hpp`).
*State:* per object the table of 128 callback slots with keys and slot assignments
under a shared mutex, the pointers of library functions handed out, the slot for
returned structures; per thread the current sandbox and the last callback.
*Operations:* create, destroy, register, unregister, take a pointer, invoke with and
without a returned structure, the interceptor of callbacks.
*Interaction:* every call of the JP2 coder into OpenJPEG and every callback out of it
goes through here.
*Hard:* nested invocations and callbacks, several threads, exhaustion of the
slots, keys that are read without the lock, objects created again.
*Correct when* a call of a registered index runs the function that was registered, in
the context of the sandbox that called it.

**Distributed pixel cache** (`distribute-cache.c`, and the loops of `cache.c` above it).
*State:* per cache a connection, its session key and `file_semaphore`; in the server
one variable for the accepted socket, and per connection a thread with an image.
*Operations:* connect and nonce, open, read and write of pixels and metacontent,
relinquish; the accept loop, the server thread's loop of commands.
*Hard:* requests without answers, replies that do not say what they answer, reads that
return a part, interrupted calls, a peer that dies, a variable shared by all server
threads.
*Correct when* what is read back is what was written, and every session ends.

**JPEG 2000 codestream** (`j2k.c`).
*State:* the decoder's state, the current tile, per tile the number of tile-parts
and the data collected, the index of tile-parts, the position of the stream.
*Operations:* read the header, decode the image or an area, decode one tile, read tile by tile.
*Interaction:* called by `jp2.c` for the coder; reads the byte stream.
*Hard:* tile-parts in any order, missing, twice, or counted wrongly; calls that jump
back; three nested loops with many ways out.
*Correct when* a tile is only decoded from its tile-parts in order, what is whole is
decoded whole, and every call ends.

**Semaphores** (`semaphore.c`): lazy activation by several threads. Not modelled; the
other modules take `LockSemaphoreInfo` as mutual exclusion.

**Blobs** (`blob.c`): reference count, growth of blobs in memory. Not modelled;
`JP2Coder` keeps whether a blob is open, its size and position.

**Registry, policy, configure and other lazily loaded tables; splay trees, linked
lists and hash maps**: tables under a semaphore, created when first used. Not
modelled.

### Components that compute

**Tier-2 coding** (`t2.c`, `tgt.c`, `bio.c`). *State:* on both sides tag trees, counts of
passes, length bits and segments per code block, carried from packet to packet.
*Operations:* the trials of the layer allocation, encoding, decoding and skipping of
packets. *Hard:* nothing in the stream says where a codeword segment ends but that
state, and the encoder runs the same code again and again before it writes. *Correct
when* the decoder reads back what the encoder wrote.

**JP2 boxes** (`jp2.c`), **tile coder** (`tcd.c`), **entropy coding** (`mqc.c`, `t1.c`,
`pi.c`, `ht_dec.c`), **wavelet and component transforms** (`dwt.c`, `mct.c`), **sparse arrays**
(`sparse_array.c`): candidates for pure algorithms over bounded inputs (packet
progression, the 5/3 lifting, sparse arrays). **JPIP** (`openjpip`): sessions, channels
and the model of what a client holds. Not modelled.

**Image operators, coders, MagickWand, Magick++, PerlMagick, display, OpenCL,
filters, utilities, tests, bindings, third-party libraries**: not modelled.
Operators are numeric and meet in the pixel cache only, which is modelled; the
coders other than JP2 parse formats; the rest wraps, displays, tests or is
vendored. `PROJECT.json` lists each of them with its reason.


## 2. What is modelled, and how it corresponds to the code

### ThreadPool

One client thread (the owner of the pool) and `NumThreads` workers. A critical
section of `tp->mutex` is one step, except where the code takes a worker's mutex
inside it: then `tp_mutex` stays owned between the steps, so lock order is part of
the model. The workers' program counters are the lines of
`opj_worker_thread_function` and `opj_thread_pool_get_next_job`: `get` (before the
fetch), `own_lock` (wants its own mutex), `cond_wait` (holds it), `asleep`,
`woken`, `run`, `exited`. `cpc` is the client's place in create, submit, wait,
destroy. The job list is the code's LIFO. `opj_cond_wait` may return spuriously
(`MaxSpurious`), allocations and thread creation may fail (`MaxFailures`).

`JobPool` is what `thread.h` promises: a job is new, queued, running or done; a
wait returns only when few enough jobs are left; destruction ends with none.

### PixelCache

Owners hold image handles and may share an image (`ReferenceImage`, cache views);
images may share a cache (`CloneImage`). An owner with a cache view open works
with a team of `NumLanes` threads. Each critical section of one semaphore is a
step; `GetImagePixelCache` keeps `image->semaphore` over the check, the copy, the
drop of the old cache and the validation, and takes `cache_info->semaphore`
inside. Virtual reads take `image->cache` without a lock, as the code does. Pixels
are one value per cache; opening or copying may fail (`MaxFailures`).

`ImageValues` is value semantics: each owner has a value of its own that only its
own calls change.

Left out: the OpenCL buffer, pixels on disk under `file_semaphore`, the nexus of
each thread, and threads of *different* owners calling into the *same* image
without a reference of their own (the library does not allow it).

### MagickResources

`used` is the process's counters; `real` is what the threads really hold, kept by
the actions that allocate, map, create and free. `OpenPixelCache` is its sequence
of attempts: memory, then a file or a server, then a map of the file, each with
its own grant, so that two threads interleave between them; a cache may be
reopened in place, persisted or attached to a given file; matrices go the same
way in `AcquireMatrixInfo`. Each kind of failing system call is in
`FailureKinds`, and `failed` records which have failed or been refused.

### Stream

The buffer, its pointer and count, the byte offset and the flags are those of
`opj_stream_private`. Each callback is a step of its own that may move fewer bytes,
fail, or (for writes) take nothing because the disk is full. The media is a
sequence of numbered bytes, so that a byte delivered at the wrong place is seen.

`ByteFile` is a file with a position.

### JP2Coder

`pc` is the stage of a read (`setup_decoder`, `header`, `area`, `tile`, `decode`,
`end_decompress`, `convert`) or of a write (`setup_encoder`, `start`, `encode`,
`end_compress`, `finish`). A stage of the library is any number of callbacks, a
step each, and a step that returns. What the library asks follows its source: it
reads the buffer's size, or, past the buffer, no more than the file has left; it
skips within the file and seeks to its end instead of beyond; it goes back only to
places it has been at; a write skips and seeks after a flush. `use_length` and
`initial_length` are the two `global__` variables of the process. Each library
object is unset, null, live, destroyed, or *misused* (destroyed when it was none).

Left out: the verifiers of single values, the conversion of pixels and options,
and calls made by several threads at once.

### Sandbox

A frame of `stack` is an invocation of a sandboxed function or a callback that was
`entered`, has read its callback (`looked_up`), or is `running`; frames nest up to `MaxDepth`. A
section under `callback_mutex` is one step. The interceptor reads the callback in one
step, and the wrapper reads the key without the mutex in another, as the code does.
`table` is the function table of the wasm2c module, `slot_assignments` and
`callback_slot_assignment` are the object's. An object may be destroyed and created
again. `aborted` is a `dynamic_check` that has failed. Outside of the repository, and
modelled from how it is used: the module's function table (any free index), and the
front end of RLBox (one handle for each registered function, dropped before the sandbox
goes and not while the function is being entered).

`CallbackTable` is what a program relies on: functions bound to indices, and per thread
a stack of calls in which a call of an index runs the function bound to it.

Left out: the conversion of arguments and pointers, the heap as data, loading.

### J2KDecoder

A codestream is a sequence of tokens: the main header, then per tile-part the SOT
marker, its segment, SOD and the data, then EOC. It may be cut after any token or within one. A
step is one round of a loop of `opj_j2k_read_tile_header`, what follows that
loop, or the decoding of a tile. `m_decoder`, `tcps` and `tile_index` keep the
fields of the same names; `m_data` is the sequence of tile-parts it was put together from
(whole, cut, or running on into what follows). The three ways of decoding are the calls of
the program: `opj_decode` with or without an area, `opj_get_decoded_tile`, and
`opj_read_tile_header` with `opj_decode_tile_data`.

Left out: the parameters in other marker segments, failing allocations, non-strict mode
(`coders/jp2.cpp` keeps the default), the encoder.

### Tier2 and TagTree

`TagTree` has the quad tree of `tgt.c` and its encoder; `Tier2` the decoder, bit
stuffing (`opj_bio_*`), the packets of one precinct and the layer allocation that calls
the packet encoder for its trials. A tile (`Tiles`) is what tier 1 leaves: per code block
the bit planes, the bytes up to the end of each pass and the passes a threshold may cut
after. A step is one trial, one layer made, one packet written, read or skipped; the
operators under it are the code's loops over blocks, segments and bits, so headers are really
coded bit by bit. The bytes of code blocks are numbers that name their block and
position, so a byte given to the wrong block is seen.

Left out: several precincts and the packet iterator, packed packet headers, HT blocks,
truncated packets (in strict mode `opj_j2k_read_tile_header` refuses a short tile-part
first), the choice of thresholds (any cut may be tried).

### DistributeCache

A connection is two streams of units: a request is three (command, key, region), a
status one word, a nonce two words, a row `RowWords` words. `dpc_send` and `dpc_read`
move one unit per step, so the connection may break between any two (`Break`), and a
program may die (`Crash`). `handler` is `DistributePixelCacheClient`, one thread per
connection, which takes its socket through a pointer to `slot`, the variable of the accept
loop. `thread` is a call of the loops of `cache.c`, row by row or whole, with
`file_semaphore` held. `eintr` are the agents whose `errno` is `EINTR`: `dpc_read` then
takes a `recv()` of 0 for an interrupted one.

Left out: the choice of a host, the listening socket's set-up, the shared secret (a key is the
nonce it was made of), other errors of `recv`, a descriptor that is used again by another
file.

## 3. What each run checks

Bounds are in the `.cfg` files; every one is named by a constant.

| Run | Shows | States |
|---|---|---|
| `pool` | Every interleaving of a client and up to two workers over three jobs, with one failing allocation and one spurious wakeup. The pending count, the waiting list and the place of each job are exact (`PendingExact`, `WaitingListExact`, `JobsConserved`); no job waits for a busy worker while another sleeps; nothing is freed in use; the pool implements `JobPool`; with fair threads every job runs and every call returns unless a worker has failed. | 131 thousand |
| `pool_lost_job` | *Violated:* a worker that cannot allocate its list item ends, and a job accepted later never runs. | |
| `cache_sharing` | Three owners, five calls, one failure. Both reference counts are exact, an unused cache is freed by one thread, a shared cache is never written, and sharing implements `ImageValues`. | 443 thousand |
| `cache_teams` | Two owners with teams of two threads. A thread that writes owns its cache, readers see no change, no pointer dangles, calls return and semaphores with them. | 114 thousand |
| `dist_session` | Two threads on one distributed cache, two calls of two rows, one fault at any unit, one interrupted call. What is read was written; the quiet server is up to date; calls return and sessions end. | 395 thousand |
| `dist_race` | *Violated:* two caches that connect at nearly the same time: both server threads take the second socket, and a client takes a nonce for pixels. | |
| `res_account` | Two threads under tight limits on everything, four calls, two kinds of failures. The counters never fall below what is held; limits hold; between calls the account is exact. | 1.1 million |
| `stream_file` | Five calls with media that move bytes in pieces, end, fail twice or become full. Reads are complete, skips honest, the offset stays within the data, calls return, and the stream implements `ByteFile`. | 213 thousand |
| `codestream` | Up to three tiles and four tile-parts in every order, with every way to count them, an unknown length of the last, cut behind any token or behind the last SOT marker, with a tile-part missing or twice; three calls. A tile is decoded from its tile-parts in order, what is whole is decoded whole, calls end. | 828 thousand |
| `packets` | Five tiles of three by two code blocks with up to 37 passes, plain, lazy and termall, with and without markers, in three layers of up to two trials. What is read back, in full, in part or skipped, is what was written; layers keep the lengths their trials measured. | 6 thousand |
| `jp2_calls` | Three reads and writes of files smaller than, equal to and larger than the buffer. No request is refused but the one of section 5; the verifiers know the size of the file that is read; every path gives back objects and blob. | 37 thousand |
| `sandbox_callbacks` | Two threads, two sandboxes, three functions in two slots, a library function's pointer, calls nested three deep. The tables of an object agree in every life of it, slots are given back, and the sandbox implements `CallbackTable`. | 265 thousand |

### Why the bounds are enough

- *Pool.* Two workers are needed for a signal to reach the wrong one; a queue
  factor of 1 makes the throttle of `submit_job` (100 per worker in the code) bite
  at the third job. One failure and one spurious wakeup at any moment show what
  each of them does; their combination is included.
- *Pixel cache.* The longest races need a shared cache, two writers and an owner
  that leaves: three owners in `cache_sharing`. Five calls are: make, share, open a
  view, and one call of each thread of the team. Images and caches outnumber what
  five calls can make, so memory is never the reason why a case does not happen.
- *Resources.* Limits are small multiples of the sizes 1 and 2, so that a grant
  may fit, reach the limit exactly, or pass it, for one thread and for two
  together. Four calls let a cache go from memory to disk to map and be reopened
  while the other thread holds the rest.
- *Stream.* A buffer of three bytes and requests of 0, 1, 2 and 4 bytes are below,
  above and across the buffer; five bytes of media are more than one buffer and
  less than two.
- *Coder.* A file below, at and above the buffer's size, and three calls: a read,
  a write after it, a read after that.
- *Sandbox.* Two slots for three functions, so that the table is full and a slot
  changes its function; two objects, so that a callback can find the wrong one; three
  calls deep is out, back and out again. Three changes and two creations let a
  registration be undone and made again, in the next life of the object too.
- *Codestream.* Two tiles interleave, and four tile-parts give one of them a
  count that may be one too few, with a part of the other in between. Three calls: decode,
  decode again, and once more after the end.
- *Packets.* Three by two blocks make a tag tree of three levels that is not
  square; 37 passes reach every length of the code for pass counts and the switch of lazy
  coding after the tenth pass; three layers carry state over a layer that leaves a block out.
- *Distributed cache.* Two rows distinguish a whole region from row by row, two words
  per row exceed a status of one; one fault at each unit is each way to be cut off.

Deadlock is checked in the runs of `PixelCache`, `MagickResources`, `Stream`,
`JP2Coder` and `Tier2`. In `pool` a failing allocation really stops the pool (finding
`pool_lost_job`) and the client waits for ever; `dist_session`, `dist_race`,
`sandbox_callbacks` and `codestream` simply end, when the bounded calls are made or the
program has aborted. There, liveness properties say what must not stop before
that.

### Fairness

- *Pool:* weak fairness of each worker and of the client *inside* a call: the
  operating system runs a thread that can run. Nothing obliges the client to make
  a call, an allocation to fail or a wait to return spuriously. A mutex is free
  infinitely often for others only because its owner moves on; weak fairness is
  enough since TLC shows that the waits end.
- *Pixel cache:* weak fairness of each step of a call in progress, and of
  `DestroyCacheView`: a parallel region that has finished is joined.
- *Stream:* weak fairness of the loops inside a call; a callback that answers
  again and again is what the C loops do. `CallsReturn` excepts a full disk.
- *Codestream:* weak fairness of the steps inside a call: one thread runs on.
- *Distributed cache:* weak fairness of all steps that are not faults and not new
  calls, taken together: some thread that can run does. Threads that are stuck in
  `dpc_read` with an old `EINTR` go round without a step; the properties except them.
- *Resources, coder, sandbox, packets:* no liveness is claimed.


## 4. What is proved

The theorems hold for every value of the constants that satisfies the assumptions
in the modules (finite sets, natural-number bounds, a positive buffer). They use
nothing else, except that some of `DistributeCacheProofs` have two hypotheses, explained
there.

**ThreadPoolProofs** — `TypeCorrect`, `PendingCorrect` (`[]PendingExact`),
`JobsNeverLost` (`[]JobsConserved`), for any number of workers, jobs, failures
and spurious wakeups. `PendingExact` relates a counter to the length of a list and
to two sets of workers, so it is not inductive: a worker's `wjob` must be set
exactly while it runs (`WorkerLocalsMatch`), the client's `cjob` exactly while it
submits (`ClientLocalsMatch`), and a worker that has not been started must have no
thread (`Unstarted`). With these, each action changes the counter and one of the
three terms by the same amount; the lemmas on cardinalities carry that. A job's
place is then a matter of the list without duplicates, the workers and `runs`.

In the same module: `WaitingListCorrect` (`[]WaitingListExact`), `NobodyStranded`
(`[]NoStrandedJob`), `FreedCorrect` (`[]FreedUnused`) and `PoolImplemented` (the refinement
of `JobPool`), under the same assumptions. The invariant `IInv` adds to the one above who holds
each mutex (`LocksMatch`) and which workers have a thread (`Started`); what the client's
stage implies, and that a pool that is past its last wait has no job left (`StagesMatch`,
`QueueMatch`); that the workers already joined have ended (`JoinedMatch`, which gives
`FreedUnused`); and that the waiting list, the marks and the count agree (`WaitingInv`).
`NoStrandedJob` needs two parts that hold only while no wait has returned spuriously and no
worker has failed: a worker sleeps exactly while it is marked or the client is signalling it
(`MarksMatch`), and the jobs queued are at most the workers coming while a worker is
listed (`EnoughComing`). The refinement maps each step to `Enter`, `RunInCall`,
`Start`, `Finish`, `Wait`, `WaitReturns`, `Close` or `Closed`, or to a stutter; a wait
returns with few enough unfinished jobs because by `PendingExact` these are never more than
the pending count.

**StreamProofs** — `TypeCorrect`, `OffsetCorrect` (`[]OffsetWithinData`, the assertion in
`opj_stream_get_number_byte_left`) and `SkipsCorrect` (`[]SkipHonest`), for any
buffer, media, request sizes, calls and failures. The invariant that carries them
is `InputInv`: the offset plus what the buffer holds is the media's position. It
is not true after a seek that failed, for the seek has thrown the buffer away; then
END is set, and END keeps every read and skip away from the media. On the output
side the media's position plus the buffer is the offset, unless a write has
failed.

`ReadsCorrect` (`[]ReadsComplete`) needs `ReadInv` on top: the offset is where the read began
plus what it has got, and as long as no callback has failed the end is only reached when
every byte of the media has been read, skipped or buffered. `FileImplemented` (the refinement
of `ByteFile`) needs `BufferHolds`: the buffer of an input stream holds the bytes of the media
from the offset on. On the output side the file is the media with the buffer put behind it;
`PutBehind` and `PutInPieces` show that buffering bytes, and flushing them in pieces, comes
to the same file. A step then maps to a begin, read, write, skip or seek of `ByteFile`, or to
a stutter while the call is still moving bytes; after a callback has failed nothing more is
promised.

**MagickResourcesProofs** — `UsageCorrect` (`[]UsageCounted`), `LimitsKept` (`[]LimitsHold`)
and `AccountCorrect` (`[]AccountExact`), for any number of threads, any limits, lengths,
calls and failures. The properties compare sums over all threads, which change only by what
one step of one thread changes. So the invariant keeps books: for each thread and resource,
what the counters hold for its cache, its source and its matrix, and what these really own,
each as a function of where the thread is in its call (`CacheCounted`, `CacheOwned` and the
like). `PartsBalance` splits what a step does to counter and books into these three parts,
so an action has to show only what it does to each (`ThreadStep`). A sum over the
threads is the size of a set of numbered units, so the library's facts about finite sets
suffice. What is really held stays below its limit because every grant is checked where
it is made (`BoundedAt`) and given back in full; unless something has failed that the code
does not clean up after (`Clean`), the counters are exactly the books (`ExactInv`).

**J2KDecoderProofs** — `DataCorrect` (`[]DataInOrder`), for codestreams of any number of
tiles and tile-parts, in any order, missing or repeated, cut anywhere, and any sequence of
calls. The assumption is that of the module: only the last tile-part may leave its length open,
and a codestream ends within itself. The parts of the invariant `IInv`: what is left of the
stream is tokens of the codestream and never has SOD behind data (`StreamOK`);
the state of the decoder at each place of a call (`StateInv`); a tile is taken for complete
only when the tile-part read last is its last, and then only up to the decoding of it
(`CompleteInv`); once a tile-part of open length has been read at most one token is left
(`LastInv`); a program that asks for single tiles holds no data of others (`OthersInv`).
`DataInv` then says what has been collected of a tile that is wanted: its tile-parts up to the
number read last, in order, or nothing, and then the tile is closed: no tile-part of it is
accepted any more, as its count has been reached or the end has been. That a decoded tile
stays closed needs `correction_checked`: the repair that raises all counts happens before
the first tile is decoded or never. `Sound` leaves out the codestreams whose last tile-part
is of open length while tiles are passed over, of which `DataInOrder` promises nothing.

`WholeDecoded` (`[]WholeCodestreamsDecode`) is the counterpart, for codestreams of any number
of tiles and tile-parts in any order that count their tile-parts rightly, or one too few. Its
invariant `WInv`, on top of `IInv`, is a walk: some first `n` tile-parts have been read, and
everything follows from `n` (`WalkInv`). What is left of the stream begins behind the SOT
marker of tile-part `n + 1`, the state is `EOC` exactly when `n` is the last (`PlaceInv`). Of
a tile that is wanted the tile-parts among the first `n` have been collected, or all of them
have, and the tile has been decoded from them (`TileInv`). The numbers the decoder goes by
are the true ones, or one too low until the repair (`NumbersInv`); then the tile-part that
reaches a false number is the one just read, so the repair comes before the next
tile-part of that tile could be refused (`RepairInv`). At the end of the codestream tiles are
decoded in ascending order, so none is left behind (`EndInv`). Going back to a tile
is sound because the index knows the tiles of the tile-parts up to `last_sot_read_pos` and the
first tile-part of each (`IndexInv`); it carries over from one call for a single tile to the
next (`BetweenInv`). The library of facts is small: which token is where (`TokensAre`,
`BehindSOT`, `BehindSOD`, `SegmentsBehind`), and how the count of the tile-parts read grows
(`Counting`). The proof made the property state what a whole codestream is: nothing follows EOC,
and no tile-part names a tile there is none of. The decoder refuses the second, and takes
what follows EOC for data when the last tile-part is of open length; the run had neither
among its codestreams.

**JP2CoderProofs** — `TypeCorrect`, `AcceptCorrect` (`[]VerifiersAccept`),
`ForceCorrect`, `HandlesCorrect`, `BlobCorrect`, for files and a buffer of any size
and any number of calls. The invariant says, stage by stage, which objects are
live (`HandlesInv`) and which tokens are registered (`TokensInv`); that a read
has put the size of its file into the verifiers and stays within it
(`ReadInv`); and that a write that has reached the blob has ended the use of that
size (`WriteInv`). The last one is the reason why a write that seeks is never judged
by an older file: every seek and skip of the library comes after a flush.

**PixelCacheProofs** — for any number of owners, threads in a team, images, caches, calls
and failures: `CountsCorrect` (`[]CountsExact`),
`CachesReclaimed`, `WritersAlone` (`[]WriterOwnsCache`), `NothingDangles`
(`[]NoDanglingPointer`), `ReadsUndisturbed`, `SharedFrozen`, and `ValuesImplemented` (the
refinement of `ImageValues`). None of the properties is inductive. The invariant `IInv`
adds who is where: which lane holds which semaphore (`LocksInv`, `HoldInv`); which
lane is freeing what, and that only one is (`KillInv`, `FreeInv`); that a clone under way
goes to an owner who waits for it (`CloneInv`) and that the clone inside `ModifyImage` is
nobody else's yet (`ModifyInv`); that an owner who may write is alone with its image
(`ExclInv`); that from the drop of the old cache to the last written pixel the image's
cache has one reference and is not mapped read-only (`OwnedInv`); and that each owner's
image holds what the owner is entitled to see (`ContentInv`). The counts are exact
because each action adds or removes one element of one of the sets they count
(`AddOne`, `RemoveOne`). A count of one then means a sole user (`SoleUser`, `Alone`), which
carries `OwnedInv` over every action of the others. With `ContentInv` the refinement is
short: a step is seen through the entitlements, and each step changes those of one owner
at most (`Same`, `Gets`, `Keeps`, `Leaves`).

**SandboxProofs** — for any number of threads, objects, functions, slots, nested calls and
lives of an object: `TablesCorrect` (`[]TablesExact`),
`SlotsGivenBack` (`[]AbortsOnlyWhenFull`) and `TableImplemented` (the refinement of
`CallbackTable`). The invariant has three parts besides types. `TablesInv`: a slot in use
names a key, an index and an assignment that name it in turn, no key has two slots, and an
object that is not created has no callbacks. `CallsInv`: calls into sandboxes and callbacks
alternate, each invocation has saved the sandbox around it, and nobody runs in a sandbox
that is gone (`AliveInv`). `EnteringInv`: the slot of a callback that is being entered keeps
its key. The refinement maps a step to `Rebind`,
`Invoke`, `Return`, `Call`, `Run` or `Finish`, or to a stutter for creation and for the
interceptor's own steps; what it needs of the state is that `thread_data` names the
sandbox of the innermost invocation.

**DistributeCacheProofs** — `ReadsCorrect` (`[]ReadsReturnWritten`), `ServerCorrect`
(`[]ServerUpToDate`) and `OneCacheCorrect` (both), for any number of caches, threads, rows,
words, regions, calls, interrupts, breaks and crashes. Two hypotheses are needed. One is
`FetchedInTime`: a server thread reads `client_socket` before the next connection is accepted.
The code relies on it and does not ensure it (`dist_race`), so `ReadsCorrect` and
`ServerCorrect` say `[]FetchedInTime => ...`; `OneCacheCorrect` proves it for a server of one
cache and has no such condition. The other, for `ReadsReturnWritten`, is that a row has more
than one word: the last status passes for a row of one (section 5).

Nothing in a reply says which call it answers, so neither property is inductive. The
invariant `IInv` says for each cache: who is in a call (`Held`, `Calling`), where its server
thread is (`Serving`), and what is under way. On a connection that stands (`Standing`) one of
four things is true. The nonce is on its way (`Greets`). Or the reply to the message
under way is what the client has received, what is under way to it and what the server thread
has yet to send, and the units on their way to the server lead it, one place of its loop
after the other, to the image that the calls wrote (`Follows`; `Path` is a witness for the places,
which each step of the server shortens and each message of the client extends). Or the
client took a part of the nonce for the key, and all keys it sends are refused (`Misled`). Or the
server thread has failed a command and leaves (`Fails`). In the last two cases at most
one status is to come, so no later call can complete. When the connection has
gone nothing is added to what was under way, which is a beginning of what was right or
too short (`Answered`); `Break`, which cuts it anywhere, is the step that needs this.

Only model-checked: `Tier2` (`PacketsReadBack`, `RatesKept`), whose operators are recursive (the
prover has no induction over data and no recursive operators), and all liveness (the
prover handles neither fairness nor ENABLED). Every other property of the passing runs is
stated by a theorem.


## 5. Findings and observations

The two runs marked *violated* are disagreements between the code and what a
comment or a header says; `PROJECT.json` quotes both sides.

1. `thread.c:799`: a worker that cannot allocate its list item leaves, and the pool
   goes on accepting jobs (`pool_lost_job`).
2. `distribute-cache.c:975`: each server thread gets the address of the accept loop's one
   variable; the next connection overwrites it (`dist_race`).

TLC finds these when the definition named is checked; no run does, to keep the runs to
distinct questions:

- `UnusedImageDestroyed` (`image.c:2012`): `ModifyImage` looks at the count, clones and
  decrements in three critical sections and ignores that the count may have reached zero;
  the image is then destroyed by nobody.
- `FlushReturns` (`cio.c:441`): a write callback that returns 0, as `openjpeg.c:115` does on
  a full disk, is called for ever.
- `CountersNotNegative` (`matrix.c:234`): a matrix that is refused gives back memory it
  never had.
- `ReturnSlotInHeap`, `InternalsTrue` (`rlbox_wasm2c_sandbox.hpp:600`): an object that is
  destroyed and created again keeps the return slot and the pointers of library functions of
  its earlier life. The coder never destroys its sandbox.
- `PartialRefused`, `OnlyWantedTiles` (`J2KDecoder`): `openjpeg.h:1349` says that partial
  streams fail to decode in strict mode; a codestream without EOC whose tiles are all
  there does not. A tile outside of the area is collected, and skipped only in
  `tcd.c:1596`.
- With `RowWords = 1` a status has the size of a row, and `ReadsReturnWritten` of
  `DistributeCache` fails: nothing else tells them apart.

The passing properties that had to be conditional say where the code is weak:

- `NoStrandedJob` holds until a wait returns spuriously: the worker then runs jobs
  while still listed as waiting, and a job may be announced to it although another
  worker sleeps. The job runs later; it is never lost.
- `UsageCounted` and `LimitsHold` except the refused matrix above. The file
  counter is not rolled back when it is refused (`resource.c:258`), so `LimitsHold`
  leaves it out.
- `AccountExact` excepts failures the code does not clean up after: memory granted
  and then not allocated (`cache.c:3759`), a cache file that cannot be created or
  extended, old pixels that cannot be copied.
- `VerifiersAccept` excepts the read length. A request larger than the stream's
  buffer is passed to the read callback whole (`cio.c:354`), and
  `opj_j2k_read_sod` asks for a whole tile part (`j2k.c:5051`); but
  `read_length__verifier` (`jp2.cpp:752`) ends the process for more than
  `OPJ_J2K_STREAM_CHUNK_SIZE`. A file with a tile part of more than 1 MB cannot be
  read.

- `DataInOrder` and `WholeCodestreamsDecode` except a last tile-part of unknown
  length (Psot = 0) when a tile before it is passed over or only one tile is wanted;
  `opj_get_decoded_tile` also needs the counts in the first tile-parts (with TNsot = 0 it
  goes back to the tile-part that was read last).
- `CallsReturn` and `SessionsEnd` of `DistributeCache` except an agent that was
  interrupted: `recv()` returning 0 leaves `errno` at `EINTR`, and `dpc_read` never ends.

Seen while reading, and not part of a run.
*JP2 coder:* the options `jp2:reduce-factor` and `jp2:quality-layers` are stored in a
structure the library never sees (`jp2.cpp:1177`-`1182`); `opj_encode` and
`opj_end_compress` are called although `opj_start_compress` has failed (`jp2.cpp:2316`);
memory allocated in the sandbox for parameters and pointers is never freed
(`jp2.cpp:1170`); `GetMagickEncoderThreadSupport` tests the flag of the decoder
(`magick.c:550`).
*Pixel cache:* a cache reopened in place that is refused the disk forgets its old pixels
(`cache.c:3881`).
*Distributed cache:* a nonce received in two parts leaves a key that the server refuses,
and `OpenDistributePixelCache` takes any status but zero for success; a failed
`OpenDistributeCache` leaks its image; the result of `pthread_create` is compared with
-1; a second open of a session never destroys the first's server information.
*Codestream:* `m_last_tile_part` is not reset when a call goes back in the stream.
*Tier 2:* the results of `opj_bio_bytein` and `opj_bio_byteout` are ignored, so that a
header that is cut reads as zeros (the loop over bit planes then ends only at 1000);
`opj_t2_encode_packet` leaks its `bio` on one error path and leaves changed counts
behind, harmless since layer 0 resets them; a layer of which every trial fails gets the last
failing threshold (`tcd.c:624`), and a threshold of 0 means that there is none.

Hazards that no property covers: two threads that read or write at once through the coder
(`jp2.cpp:1228`, with `magick.c:196`); a thread of a team that reads virtual pixels of the
very image another thread of the team is detaching (`cache.c:2771`; the model keeps to
teams that read or write); the shared file that `ClonePixelCacheOnDisk` reopens for
reading (`cache.c:618`); an output stream that is used on after a failed partial
flush (`cio.c:623`); integer overflow in `AcquireMagickResource` (`resource.c:239`).


## 6. Not modelled, and what comes next

Not modelled because there is nothing for a model checker in it: image operators
(numeric, and meeting only in the pixel cache), the coders other than JP2 (parsing and I/O over
the blob interface), wands and bindings (wrappers), display and animation, OpenCL (an
external runtime), utilities, tests, build files, vendored libraries. They are most of the lines
of the repository; `PROJECT.json` lists each with its reason.

Worth modelling next, in this order:

1. **Several threads in the JP2 coder**: `JP2Coder` with threads, the dispatch of
   `constitute.c` (a semaphore only if the coder is not thread safe), composed with
   `Sandbox`.
2. **Semaphores, registry, configure**: one module for the double-checked creation
   of a table, instantiated for each of them; **blob** reference counts; splay trees.
3. **The encoder of the codestream** and **JP2 boxes**; non-strict decoding; the
   composition of `J2KDecoder` with `Stream`.
4. **Pure algorithms**: the packet iterator (and with it several precincts in `Tier2`),
   5/3 lifting, sparse arrays, and `AcquireMagickResource` with integers of their real
   width.
5. **JPIP**: sessions, channels, and the model of what a client holds.
6. **Proofs**: the bit stuffing and the tag tree of `Tier2`, with a prover that has
   induction over data.
