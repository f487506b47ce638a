# A TLA+ model of ssx-vita

`src/` is a so-loader: it loads the Android build of a game (an ARM ELF shared
object) on the PS Vita, gives it the libc, pthread, OpenGL, JNI and audio it
expects, and runs its frame loop.  The game itself is not part of the
repository.  Almost everything that can go wrong between the loader's parts is
a matter of *who else runs in between*: the engine calls in from several
threads, locks are released in the middle of calls, tables are read without
them, and caches stand for what a library holds.  This directory models those
parts and model-checks them on small instances.  The safety properties of most of them
are proved for every instance as well; [section 7](#7-proofs) names the five that are not.

Contents: [inventory](#1-inventory), [plan](#2-plan),
[modules and code](#3-modules-and-the-code-they-model), [runs](#4-runs),
[bounds](#5-bounds-and-why-they-are-enough), [fairness](#6-fairness),
[proofs](#7-proofs), [assumptions](#8-assumptions),
[not modelled](#9-what-is-not-modelled), [how to run](#10-how-to-run).

## 1. Inventory

`engine` below is the game's native code, with its own threads; `VitaGL` the
OpenGL library, `vitasdk` the pthread and newlib ports, `kernel` the console's
system calls.  All four are outside `src/` and are modelled only as `src/` uses
them.

| Component | Source (`src/loader/`) | State it keeps | Operations | Called by / calls |
|---|---|---|---|---|
| Audio bridge | `audio.c` | ring of samples, two 32-bit cursors, drop counter | install, `SubmitAudio_hook`, `audio_thread` | the engine's audio thread submits; its own thread drains to the kernel's port |
| Pthread bridge: mutexes, conditions | `pthread_bridge.c` 8–85 | the game's 4-byte slots, `bridge_lock` | init, destroy, lock, trylock, unlock, wait, timedwait, signal, broadcast | every engine thread; vitasdk objects created on first use |
| Pthread bridge: threads, attributes | `pthread_bridge.c` 87–161, `stubs.c` 37–51 | bridged attributes, thread registry, creation counter | attribute init/destroy/stack size, create, the boot of a thread, `prctl` | stacks by order of creation, priorities by name; the watchdog reads the registry |
| Pthread bridge: once | `pthread_bridge.c` 164–170 | the slot, 0/1/2 | `pthread_once_bridge` | runs an engine routine with `bridge_lock` released |
| Pthread bridge: semaphores | `pthread_bridge.c` 172–206 | slot: an initial count or a kernel handle | init, post, wait, trywait, timedwait, destroy | kernel semaphores, microsecond timeouts |
| GL calls, shader sources | `gl_lock.c` 106–255, 303–447; `default_dynlib.c` 55–155, 668–812 | `gl_lock`, 64 kept sources | every GL entry, by import or `eglGetProcAddress` | every engine thread; VitaGL; the heap |
| GL buffers | `gl_lock.c` 47–123, 277–296 | mapped pointers, staging blocks | bind, data, sub-data, map, unmap, delete | VitaGL, with `gl_lock` released half-way |
| Framebuffer caches | `gl_lock.c` 37–48, 124–174 | `cur_fbo`, two attachment caches | bind, attach, generate, delete | skips attaches VitaGL would pay for |
| Save files | `default_dynlib.c` 225–281, `stubs.c` 114 | `save_fd` table | open, close, write, lseek, ftruncate | the engine's save code, several threads |
| malloc family | `default_dynlib.c` 346–401 | table of big blocks, emergency set | malloc, calloc, memalign, realloc, free | newlib, VitaGL's pools |
| Emergency set | `default_dynlib.c` 363–390 | open-addressing set, live count | `emerg_alloc`, `emerg_find`, `emerg_free` | the malloc family |
| Scratch buffer | `default_dynlib.c` 324–344 | one growing block | `vgl_scratch_get`, `vgl_scratch_put` | VitaGL's texture decoders, under `gl_lock` |
| Memory categories | `main.c` 330–354 | list of categories, last one seen | `memcat_seen`, `memcat_report` | every allocation of the engine; the frame loop reads |
| Render account | `main.c` 356–377 | depth, live and peak bytes | hooks around three engine functions | engine threads |
| Texture copies | `main.c` 378–421 | sticky list | hooks on upload, lock and destroy of textures | frees the CPU copy after upload |
| ELF loader | `so_util.c` 25–395, `main.c` 484–499 | list of libraries, their segments | load, relocate, resolve, look up, flush, initialise | once per library, at boot |
| Code patches | `main.c` 57–130, `so_util.c` 42–49 | pool of trampolines, patched words | hook, spin patch, null guard | what they write is run by every engine thread |
| Frame loop | `main.c` 640–665, `jni_patch.c` 30–92 | movie timer, watchdog, swap count | one frame; `egl_swap`, `video_play` | main thread next to the engine's |
| Input | `main.c` 580–638 | previous pad, two touch slots | buttons, sticks, touch | engine's JNI entry points |
| Asset streams | `jni_patch.c` 95–203, 353–420 | open streams, `pending_exception` | open, read, skip, reset, close, exception check | engine threads; the card |
| File shims | `default_dynlib.c` 225–252, 282–319, 643–651 | none of their own | paths, flags and `struct stat`, to newlib | every engine thread; the card |
| JNI environment: methods | `jni_patch.c` 212–392, 513–642 | method tables, names of unknown methods | `GetMethodID`, `Call…Method`, `Get…Field` | engine threads, by the slots of the environment |
| JNI environment: objects | `jni_patch.c` 45–93, 204–211, 393–486, 651–703 | blocks of bytes behind a length, an audio grain | arrays, strings, regions, EGL queries, AudioTrack | engine threads; the kernel's audio port |
| Viewport fitting | `gl_lock.c` 256–273 | none (reads `cur_fbo`) | viewport, scissor | under `gl_lock` |
| Shader pre-pass | `default_dynlib.c` 66–139 | three blocks of text | three rewritings of shader sources | before `glShaderSource` |
| `TranslateStream` wait | `main.c` 149–181 | none (counts in the engine's vector) | count, wait, translate or report | the engine's translator thread, next to its loader threads |
| Boot order, log | `main.c` 459–566, `stubs.c` 16–28 | the log's descriptor, two logs, the saves | rotation, `debugPrintf`, `fatal` | every part logs; the next launch rotates |
| Stubs, imports | `stubs.c`, `default_dynlib.c` | none | constant answers, table of names | `so_util.c` |

How they meet: the engine's allocation, GL, file and pthread calls enter through
the import table from any thread.  `bridge_lock` and `gl_lock` serialise the
short sections of their files; the audio ring, the emergency set, `save_fd`, the
category list, the sticky list, `pending_exception` and the swap count are
shared *without* a lock, and so are the names of unknown JNI methods and the
engine's vector of chunks.  The main thread
polls what the others set (`jni_video_play_pending`, `jni_swap_count`).

What is hard, by kind (each is a row of `hazards` in `PROJECT.json`, at its line):

- *Interleaving without a lock*: the ring's two copies, first use of a slot by two
  threads, the emergency set's probes, the category list, the account's depth, the
  table of unknown methods, the count of queued chunks, a stop amid an audio write.
- *A lock released half-way*: `glBufferSubData` and `glUnmapBufferOES` call other
  entries with `gl_lock` released; `pthread_once` runs its routine without
  `bridge_lock`.
- *Stale state*: a cursor loaded before a copy, an object pointer used after the
  unlock, an attachment cache after a delete and the reuse of a name, a
  descriptor's tag after close, a kept shader source whose cell was taken over.
- *Partial failure*: an allocation that fails while VitaGL records the size; a short
  write that is reported as whole; a library that fails to load half-way; an open
  that gives up with the descriptor open; a kernel that refuses a semaphore.
- *Limits*: a full ring, a full cache, a half-full hash table, a full list, a full
  trampoline pool, the cap of a file, cursors wrapping at 2^32.
- *Retries and restarts*: a wait for chunks that races its own end; launches that end
  between the steps of the log's rotation, opens and writes of the log that fail.
- *Layouts that must agree*: paths, flags and `struct stat` of two libcs; the element
  size of an array in 32 slots; a method found by name and called by type.
- *Long legal sequences*: reallocations that move between three allocators, fingers
  that come, go and change places, names deleted and generated again.
- *Liveness*: no lost wake-up, no audio tail left behind, every movie reported, a
  watchdog that fires exactly when it should, a spinning thread that lets the other
  one run.

What makes each component correct: the ring is a bounded FIFO; a slot behaves as
the mutex, condition or semaphore the game asked for; whoever returns from
`pthread_once` finds the routine finished; wrapped GL calls exclude one another, a
GL write never leaves its buffer, and a skipped attach would have changed nothing;
the ghosts file stays under its cap and the game's idea of a descriptor's position
is right; a block goes back to the allocator it came from with its contents kept on
the way; a category is listed once; a locked texture has its pixels; a library's
constructors run on final words; patched code does what the game's own did; every
movie request is answered; what is pressed is released; a path means one file however
it is spelt; a method called by id is one of the name looked up; a shader of products
means after the pre-pass what it meant before; what a run logged outlives the next launch.

## 2. Plan

Order: what the engine depends on in every frame first, then memory, then what
runs once.

1. **Done, frame path**: audio ring with its abstract queue and proofs; mutexes and
   conditions with the abstract monitor; semaphores with the abstract counting
   semaphore; once; thread creation; GL calls and shader sources, buffers,
   framebuffer caches; frame loop and input.
2. **Done, memory and files**: malloc family, emergency set, scratch buffer; category
   list with proofs, render account, texture copies; save files, asset streams, paths.
3. **Done, boot and environment**: ELF loader, code patches, boot order and log; JNI
   methods and objects; the wait for chunks; the rectangles of the screen; the text of
   the shader pre-pass.
4. **Left to model.**  The account's update in `hook_TexFlush`, joining `MemAcct` and
   `TexCopies`; two threads with `glMapBufferRangeEXT` in `GLBuffers`; two threads in the
   emergency set, the account and the texture hooks, each with a property of what holds
   then; a pool of trampolines that 24 bytes overrun after 16 were checked for.
5. **Abstract specifications**: a bounded queue (`AudioFifo`), mutexes and conditions
   (`Monitor`), a counting semaphore (`CountingSem`), all three implemented by the
   detailed modules, for every instance.  Worth adding: a map from names to objects
   (what the caches promise).
6. **Theorems.**  Done: every safety property of the passing runs but five.  Left:
   `PrepassMeans`, whose three passes are recursive functions over a text; `Transparent`,
   which is about the very words that are patched, a finite set of cases that TLC goes
   through; and `EmergencyKnown`, `CountedOnce` and `PixelsKept`, which are proved of one
   caller only, as lemmas.  `ReadsSafe` rests on `RewritesRight`, that the rewriting of
   `memory.cfg`, again a recursive function, follows its rules; liveness stays with TLC.

## 3. Modules and the code they model

Names of variables and actions follow the code's.  A section of code that holds a
lock is one step, except where a lock-free reader can see into it; code that
shares without a lock is one step per shared access.  `map` in `PROJECT.json`
gives, for each definition, the lines it stands for.

**Audio**

- **`AudioFifo`** (abstract).  A queue of at most `Capacity` samples.  `Accept`/`Enqueue`
  add a whole submit, `Drop` counts one that does not fit, `BeginRead`/`EndRead`
  take up to a chunk and pad with silence.
- **`AudioRing`** (`audio.c`).  `ring`, `w`, `r`, `drops` are `s_ring`, `s_w`, `s_r`,
  `s_drops`.  `SubmitAudio` is the load of `s_r` with the decision to drop;
  `CopyIn` one sample of either `memcpy`; `Publish` the release store of `s_w`.
  `BeginRead`, `CopyOut`, `EndRead`, `Output` are the same for `ring_read_chunk` and the
  output call.  `StartThread`, `StartThreadFails`, `HookSubmitAudio`, `OpenPort`,
  `OpenPortFails` are the installation.  `Cell` is the split of a copy at the
  ring's end.  `ImplementsFifo` is the refinement, with the unread window of the ring
  as the queue.

**Pthread bridge**

- **`Monitor`** (abstract).  Mutexes with owner and depth, and conditions with their
  waiters; what the game asked for, without lazily created objects.
- **`PthreadBridge`** (`pthread_bridge.c` 8–85).  `slot` is the game's 4-byte word, `heap`
  the objects created.  `Call` enters, `FastPath` is the unlocked look of `mutex_get`,
  `SlowPath`/`Acquire…`/`Create…` the second look and the creation under
  `bridge_lock`; then the operation on the object, a step of its own, with the
  pointer read earlier.  A wait gives up the mutex and the second part re-takes it.
- **`MCPthreadClients`** also composes `PthreadBridge` with clients: threads that wait for a
  flag and one that sets it and broadcasts, all through slots nobody initialised.
- **`PthreadOnce`** (`pthread_bridge.c` 164–170).  `stack` holds the calls a thread is
  in, since a routine may go through another slot.
- **`CountingSem`** (abstract) and **`PthreadSem`** (`pthread_bridge.c` 172–206).  `slot` is an
  initial count below `First` or a handle; `Look`, `Lock`, `Create` are `ksem_get`, `Got`
  the second read of the slot with the call of the kernel, `Timeout` the kernel's
  answer to a timed wait.  `MicrosUntil` and `TimeoutOf` are the code's arithmetic, with
  division towards zero.
- **`PthreadThreads`** (`pthread_bridge.c` 87–156, `prctl` of `stubs.c`, `watchdog_fn` of
  `main.c`).  `Create` counts and chooses the stack, `Start`, `Registered` and `Boot` are
  a new thread's first steps, `SetName` its name and priority by role, which stands for
  the name.  Kernel ids are used again.  `watchdog_fn` is the set of entries in the line
  the watchdog would log in a state, read at once.  The kernel may not tell main's priority,
  and is asked again at the next creation; `told` is whether a thread's creation knew it.

**GL**

- **`GLLock`** (`gl_lock.c` 106–255, 303–447, `default_dynlib.c` 55–155, 668–812).
  `default_dynlib` and `egl_get_proc_address_shim` say what a name reaches: a wrapper or
  VitaGL directly.  A call is `Call`, `Lock`, what the wrapper does inside, `Leave`.
  `Remember`/`Store` keep the source of a shader in one of `Cells` cells.
- **`GLBuffers`** (`gl_lock.c`).  `binding`, `buf` are VitaGL's; `mapped`, `staging` the
  bridge's.  A GL entry is one step up to the point where it releases `gl_lock`;
  `call` says where a thread stands in between.  `faults` records writes past a
  block.
- **`ScreenRects`** (`gl_lock.c` 256–273).  The rectangle asked for and the one VitaGL
  gets, for viewport and scissor, with the target each was set under.  `cur_fbo` is the
  bridge's idea of the target, `active_fb` VitaGL's, and they part when the bound target
  is deleted.  The float scale is an exact fraction.
- **`ShaderPrepass`** (`default_dynlib.c` 66–139).  A source is a sequence of lines, a line
  one of tokens.  `Prepass`, `Rename` and `Static` are the three passes with the block each
  allocates, `PassThrough` what happens when the heap is full; the width of every token
  counts for the size of a block.  `Meaning` reads a line as GLSL, `AsSaid` as the comment
  on the first pass does.
- **`FboCache`** (`gl_lock.c`).  `cur_fbo`, `texCache`, `rbCache` are the code's; `bound`,
  `texAt`, `rbAt`, `surfaces` VitaGL's.  An object is a name with its incarnation, so
  that the reuse of a name is visible.

**Memory**

- **`EmergSet`** (`default_dynlib.c` 363–390).  Each probe, store and counter update is a
  step; `hash` is *any* function of the pointers.
- **`Allocators`** (`default_dynlib.c` 346–401).  `home` is where a block is really from,
  `HomeOf` what `free_big` finds out; the calls are the code's, `word` and `wrote` the
  contents there are and those there should be.  The emergency set is a set here.
- **`ScratchBuf`** (`default_dynlib.c` 324–344).  Decoders take the scratch block, at most
  `Nested` at a time, which is one in the run; `Grow` gives back the old one by the rule of
  line 337, which asks where the *new* one is from (`GivesBack`).  `Left` is what may become
  of the old one, `after` remembers which pool the block that took its place is from.
- **`MemCat`** (`main.c` 334–354).  The unlocked scan, the locked one, and an append
  whose two stores may become visible in either order.
- **`MemAcct`** (`main.c` 356–377).  The hooks as nested calls, one step per access of
  the account; `live`, `most` and `drift` are the truth it is compared with.
- **`TexCopies`** (`main.c` 378–421).  `Flush`, `Look`, `FreeCopy` are `hook_TexFlush`;
  `Acquire`, `Recreate` are `hook_TexAcquire`.  A texture is its address, used again after
  `Destroy`.  `want` is the copy of the unpatched game.

**Files**

- **`SaveFile`** (`default_dynlib.c` 246–281 and the stub in `stubs.c` 114).  `save_fd` is
  set after `open` and cleared before `close`.  `write_fix` asks for the position, `Store`
  is the kernel's write, `Restore` the `lseek` after one that was cut: three steps, with
  other threads in between.  `Sharing` says whether a second thread may use a descriptor
  that one is writing to.
- **`FileShims`** (`default_dynlib.c` 225–252, 282–319).  Two file systems side by side: the
  card, which `fix_path`, `bionic_oflags` and `to_bionic_stat` stand in front of, and the
  one that takes the game's calls as Android's would.  `Imports` says which of the calls
  the game makes.
- **`AssetStream`** (`jni_patch.c` 95–203, 353–420).  `asset_open` is one action with a
  disjunct per way out; `rewrite_memcfg` scans the tokens of the file by recursive functions,
  rule by rule, and is compared with `want`, which follows the rules as the comment states
  them.  `pending_exception` is one flag for all threads; `taken` remembers that another
  thread cleared it before one asked.

**Java side**

- **`JniMethods`** (`jni_patch.c` 212–392, 513–642).  `GetMethodID` searches the constant
  tables in one step; of the unknown names, `Scan`, `Store`, `Load` and `Count` are the
  unlocked accesses.  `CallSlots`, `CallV`, `Runs` and `FieldSlots` are what a call through
  a slot of the environment ends up in; `Outside` is a read past the tables of names and
  warnings, by an id that was counted beyond them.  `Meant` is *every* entry of a name, with
  which what the search finds first is compared.  Of the 60 names in `methods` there is one entry
  per kind of function and both entries of each name that is in it twice.
- **`JavaObjects`** (`jni_patch.c` 45–93, 204–211, 393–486, 651–703).  A block's bytes are
  pairs of a value and a place, so that bytes of two elements are told apart.  `java` is what
  the game put in.  A string is made of units or of bytes, and either is read as both; slot
  220, `GetStringRegion`, does nothing.  `AudioWrite`, `AudioTake`, `AudioCopy`, `AudioAdd`
  are `audio_write`, `AudioStop` may come between them.

**Boot and frame loop**

- **`SoLoader`** (`so_util.c` 25–395, `main.c` 484–499).  One action per stage of `so_load`,
  so that each may fail and fall through the labels that free.  A file whose reading broke off
  (`cut`) may still begin like an ELF file; once `so_load` follows its tables, `Astray`, the
  model says no more of the launch.  `Relocate` and `Resolve` write one word each; `Reference`
  is what the ELF ABI asks of a word.
- **`HookCode`** (`main.c` 57–130, `so_util.c` 42–49).  `Install` writes what
  `make_trampoline`, `patch_spin` and `patch_null_guard` write; `CallOriginal` stands for
  every hook that does nothing but log and forward; the rest is a small ARM processor that
  runs it next to what the game's own code would have done.
- **`BootLog`** (`main.c` 459–566, `stubs.c` 16–28).  `Steps` is what main does, in order: may
  a step end the run, and how many lines it writes.  `Launch` and `Die` are a process;
  `FirstSteps` the rotation; `debugPrintf` with the failures on its way.  `before` is what the
  last run that wrote anything wrote, kept through launches that write nothing, and `since`
  how many of those have begun to clear away.
- **`TranslateWait`** (`main.c` 149–181).  `Begin`, `Scan`, `Decide` are a round of the wait,
  one step per chunk looked at; `Deliver` and `Release` the engine's other threads.
- **`MainLoop`** (`main.c` 646–665 with `egl_swap` and `video_play` of `jni_patch.c`).  One
  action per stage of a frame; the engine's requests and presents in between.
- **`Controls`** (`main.c` 580–638).  `Frame` is the pad, `Finger` one finger of the report,
  `Lift` the end of a frame; `touch`, `mouse`, `held`, `axis` what the game makes of the
  events.

**Proofs and instances**

- **`AudioRing_proofs`**, **`GLBuffers_proofs`**, **`PthreadSem_proofs`**: the theorems of the
  module each is named after, and the lemmas they rest on.
- **`Memory_proofs`**, **`Files_proofs`**, **`Main_proofs`**, **`GLLock_proofs`**,
  **`PthreadBridge_proofs`**: the theorems of the components that are composed in `MCMemory`,
  `MCFiles`, `MCMain`, `MCGLCalls` (all but the pre-pass) and `MCPthreadBridge` with
  `MCPthreadClients`.  They extend these modules and are about the very formulas of the
  runs, for any values of the constants: the literals of an instance are in its `.cfg`.
- **`MC…`**.  The instances for TLC.  Components that share nothing are checked in one
  run: a variable `part` says which of them a behaviour is
  about, chosen once at the start, and the others keep their initial state.  The
  state spaces add up and do not multiply.  The properties of such a run are stated in
  its `MC` module: those of one component, conjoined, that answer one question.
- Operators whose comment says *mutant* are variants of a definition with a plausible
  bug.  The specifications do not use them; they document, per property, changes of
  the code that would break it (`mutants` in `PROJECT.json`).

## 4. Runs

| Run | Kind, states | Properties | What it shows |
|---|---|---|---|
| `audio_ring` | pass, 52k | `NoDataRace` `IInv` `ImplementsFifo` `Progress` | the lock-free ring implements the bounded queue, the copies never meet, a submit returns even if the output thread is dead, nothing shorter than a chunk is left behind |
| `pthread_bridge` | pass, 502k | `OneObjectPerSlot` `ImplementsMonitor` `ImplementsSemaphore` `ThreadsAsMeant` | lazily created objects implement plain mutexes, conditions and semaphores; none is created twice for a slot or used after its slot changed; a timed wait is not early; threads get the stack and priority meant for them, and the watchdog's report names each as what it is |
| `pthread_clients` | pass, 23k | `EveryoneLeaves` `OnceDone` `CallReturns` | wait/broadcast on unbridged slots excludes and loses no wake-up; a return of `pthread_once` means a finished routine, done stays done, nested routines do not deadlock |
| `gl_calls` | pass, 592k | `SourcesKept` `AttachedAsAsked` `FitsScreen` `PrepassMeans` `CallsReturn` | wrapped calls exclude one another and return; what is logged for a shader is its last source and nothing leaks or is freed twice; a skipped attach would have changed nothing, a repeated one leaks nothing; rectangles of a screen that the game bound fit and others are left alone; the three passes rewrite what they can take, keep the meaning of products and stay inside their blocks |
| `gl_buffers` | pass, 284k | `WithinStorage` | no write past a buffer or staging block, with two threads in each other's unlock windows and failing allocations |
| `allocators` | pass, 528k | `IInv` `NoDuplicate` `EmergencyKnown` `GoesBackHome` `ScratchHeld` `Returns` `CountedOnce` `PixelsKept` | for every hash function each live pointer is found and every probe loop ends; blocks go back where they are from with their contents; the scratch block grows, and leaks at most one block of each size and only where newlib helped; nested hooks count an allocation once; no texture loses pixels to the freeing of copies; the double-checked append lists a category once and loses none |
| `files` | pass, 480k | `GhostCapped` `PositionsKept` `ReadsWanted` `FailsCleanly` `SamePlace` `CallsRightMethod` `JavaDataKept` | the cap holds and positions are what the game adds up; asset reads bring what is at the game's place, `memory.cfg` is rewritten exactly, failed opens leak nothing and are noticed, by the thread that failed or by one that asked before it; a path means one file in every spelling; ids lead to methods of their names; arrays, strings and the audio track return what was put in |
| `main` | pass, 345k | `StartsReady` `Transparent` `WaitEnds` `NoFalseStall` `LoopResponds` `InputFollows` `TranslateStarts` `LogKept` | constructors run on final, flushed words or the boot fails cleanly; patched code does what the game's own did; the watchdog fires on a stopped game and no other; every movie is reported; input events are legal and complete; translation starts on whole files and always starts; a log survives one launch that ends anywhere |
| `gl_staged` | violation | `StagedUploadArrives` | see below |
| `fbo_cache_stale` | violation | `TextureAttached` | see below |
| `log_evidence` | violation | `EvidenceKept` | see below |
| `jni_numbered_ids` | violation | `NumberedIds` | see below |

Four runs report where the program departs from what its text says:

- **`gl_staged`.**  `gl_lock.c:282` says that a buffer without storage is mapped to a
  CPU block that is *uploaded on unmap*.  The unmap (`gl_lock.c:293`) uploads through
  `glBufferSubData_locked`, which skips the write because VitaGL's recorded size suffices
  while there is no storage, and `GL_TRUE` is returned: the data is gone.
- **`fbo_cache_stale`.**  `gl_lock.c:155` says that attaches *that change nothing* are
  skipped.  `glDeleteTextures_locked` leaves `fbo_attach_cache` alone, so the attach of a
  new texture that got a deleted one's name is skipped as well.  `AttachedAsAsked`
  states the part that does hold.
- **`log_evidence`.**  `main.c:463` says that *a relaunch after a crash no longer wipes the
  evidence*.  The relaunch removes the log put aside, renames the log, and removes the second
  place of `log_open` (`stubs.c:19`), all before it has written a line (`:464`).  So the
  log of a run that had to write in the second place goes with the next launch, and the log
  of any run with the second launch that ends before its first line.  `LogKept` is what holds.
- **`jni_numbered_ids`.**  `jni_patch.c:4` promises a numbered id for an unknown name.
  `GetMethodID` stores a name and counts it without a lock (`:330–333`): two threads at
  once get one id for two names, or one compares with a slot not yet written.
  `CallsRightMethod` is what holds all the same: nothing wrong is ever *run*.

The models show more places of the kind, which have no run of their own.  A property that
is named is in its module, and TLC finds it violated under the change that is named:

- `default_dynlib.c:280`: `ftruncate_fix` calls an `ftruncate` that is the program's own stub
  (`stubs.c:114`, kept by `--allow-multiple-definition`), which returns 0 and does nothing.
  A save that the game shortens keeps its old tail (`NotLonger` of `SaveFile`).
- `default_dynlib.c:247–268`: a write of a save is an `lseek`, a `write` and an `lseek`, with
  no lock.  If two threads write through one descriptor (`Sharing = TRUE`), the ghosts
  file outgrows its cap, which `:247–248` rules out, and the last `lseek` takes back the
  other's advance: `GhostCapped` and `PositionsKept` are violated.
- `default_dynlib.c:337` says that an old scratch block of VitaGL's is freed and one of
  newlib's leaked; the test is about where the *new* block is from (`OldBlockRule` of
  `ScratchBuf`).  `LeakBounded` is what holds.
- `default_dynlib.c:70–71` says that `lhs *= rhs` becomes `lhs = lhs * rhs`.  A left side of 48
  characters or more is left alone, and an index with a blank or an operator in it is torn
  apart (`RewrittenAsSaid` of `ShaderPrepass`); a sum on the right gets no parentheses, so only
  its first term is multiplied.  `:105` says that every file-scope declaration gets `static`;
  one with an initial value does not, nor one with a comment behind it (`EveryGlobalStatic`).
- `default_dynlib.c:225–226` says that every libc call maps the game's prefix back to
  the card; the import table (`:651`) binds `freopen` to newlib's own.  With `freopen`
  among `Imports`, `SamePlace` is violated.
- `gl_lock.c:256–258` says that rectangles of the screen are scaled.  Deleting the bound
  framebuffer (`:124`) makes VitaGL go back to the screen and leaves `cur_fbo`, so that the
  rectangles set then are not scaled, until the game binds again (`AnyScreenFits`).
- `jni_patch.c:229` asks that a function's type match the `Call…Method` used;
  `GetBatteryLevel` is in the table twice (`:259`, `:285`), and the lookup stops at the
  first, which returns an int where the game reads a float (`TypesMatch` of `JniMethods`).
- `jni_patch.c:343–344` looks up the number of an unknown method among 512 warnings and 512
  names, which the count may have passed: something outside of them is read (`Outside`).
- `jni_patch.c:699`: slot 220, `GetStringRegion`, does nothing, so the game's buffer stays what
  it was (`RegionRead` of `JavaObjects` would have it otherwise).  Strings are C strings: one made of bytes above 127
  has the bytes as its units (`:401`, `:475`), and units above 255 lose their high byte.
- `jni_patch.c:418`: `pending_exception` is one flag, so a thread may be told of another's
  failure, and one that asks may clear it before the thread it is for has asked (`taken`).
- `main.c:165` says *up to 20s*; 4000 rounds of 500 µs (`:173`) are two seconds.
- `main.c:132–133` reports a released asset as failed; it is looked at before a wait of
  seconds, in which it may be released.  `TranslateStarts` sets such an asset (`died`)
  apart.

What stronger readings of the passing runs would meet, and why they are not claimed: two
threads may run a once routine both, if they meet the slot before the first has finished
(`pthread_bridge.c:167`), and `pthread_once` promises only that a return means *finished*;
another thread's call may take effect in the middle of `glBufferSubData` (`gl_lock.c:99`);
calls that reach VitaGL without a wrapper (`glTexParameterfv`, `default_dynlib.c:169`)
overlap a locked one.  Three more need two threads in code that takes no lock.
`EmergencyKnown`, `CountedOnce` and `PixelsKept` are checked with one (`Callers`); with two
TLC finds each of them violated: two threads in the allocator may claim one cell of the emergency set
(`default_dynlib.c:365`, `TellsApart` of `EmergSet`); `acct_depth` is one counter of all
threads, so an allocation is counted twice or not at all while another thread is in a hook
(`main.c:372`); and a lock that marks a texture between the look and the free of another
thread's flush (`main.c:398–404`, `NeverFreedAgain` of `TexCopies`) loses its copy.  With
`Appending = {FALSE, TRUE}` the position from which the cap of the ghosts file is computed
(`default_dynlib.c:258`) is not where an `O_APPEND` write lands.  Main's present after the
test at `main.c:664` may follow the game's first one, which `HandoverOnce`, a conjunct of
`NoFalseStall`, bounds to one frame.

## 5. Bounds, and why they are enough

| Run | Bounds | Why |
|---|---|---|
| `audio_ring` | ring 4, chunk 2, cursors wrap after 2 laps, submits of 1 to 5 samples over 2 values and silence, drops modulo 2 | covers copies of one and two segments on both sides, a full and an empty ring, an oversized submit and the cursors' wrap; every size is covered by the proofs |
| `pthread_bridge`: slots | 2 threads, 1 mutex, 1 condition, 3 objects, recursion 2 | two threads suffice for every race on a slot; three objects allow create, destroy, create again beside the condition's |
| … semaphores | 2 threads, 1 slot, 2 handles, counts up to 2, 1 refusal, a clock of 5 with 2 ns to the µs and 2 µs to the second | a destroyed semaphore is created again, one refusal comes at any creation, and every carry between the units of time occurs |
| … threads | 3 creations, 3 ids, sizes above the largest, big stacks for the 1st and 2nd, a registry of 2, a report of 1; the kernel may not tell the priority | a creation before, within and after the big range; a full registry and a full line; an id used again under another name |
| `pthread_clients` | 3 threads (two waiters and a setter), 1 mutex, 1 condition; 3 threads, 2 once slots, one nested in the other | the third thread makes broadcast differ from signal, and may see a slot at 1 and at 2; nesting makes a held lock matter |
| `gl_calls`: calls | 2 threads, 2 shaders, 2 sources, 3 heap blocks, 2 cells | fewer cells than shaders' needs, so that cells are taken over; fewer blocks than copies, so that an allocation fails |
| … caches | 2 framebuffers, 1 texture of 2 levels, 1 renderbuffer, 1 point, a cache of 1, 2 incarnations of each name | a cache of 1 is full at once; a second incarnation is a reused name |
| `gl_buffers` | 2 threads, 1 target, 2 buffers, sizes up to 2, 4 failed allocations | two buffers make re-binding in the window visible; a block can be too small by one; each re-creation can fail |
| `allocators` | 1 thread, 4 pointers, 6 cells, every hash function; 3 blocks of 1 or 2 units, 2 of them large, 2 entries in the table, 1 emergency; scratch sizes up to 4, from a pool of VitaGL's or newlib | at most half the cells are used, as in the code, and chains of three wrap and are broken in every place; every move between two of three allocators occurs |
| … hooks | 3 blocks, one larger than asked for, 3 frees; 3 textures, a sticky list of 3 | a free may give back more than was counted; an address is used again next to a sticky texture |
| … categories | 2 threads, 3 categories, a list of 2 | the list fills while threads race; every number of either is covered by the proofs |
| `gl_calls`: rectangles, text | 7 rectangles at, below and beyond the display, also off its origin; 1 other target, which may be deleted; 70 sources of a struct, a declaration and a statement: 6 declarations, 8 left sides, 4 right sides | too wide, too high, both, neither; declarations with and without an initial value, comment, qualifier; products and sums; names, swizzles and indices with and without blanks and operators; `tex` in each place; left sides of 47 and of 48 characters |
| `files`: saves | 2 threads, 2 descriptors, the ghosts file and another, cap 2, positions up to 3 | the cap lies inside a write, one thread is between the calls of a write while the other opens, writes and closes, and a descriptor freed by one is reused by the other |
| … assets | 2 threads, 2 streams, cards of one or two small files, reads of 5 and 30 | the flag of the exception is shared; a read ends before and beyond the end, and the rules of `memory.cfg` meet sizes with braces, at the end of the file, and longer or shorter than the new one |
| … paths | 2 names, 2 values, files of up to 2 | every call on every kind of file, in 5 spellings each; rename onto another |
| … methods | 2 threads, 4 names: one of each table and two unknown ones; room for 2 unknown names (6 in `jni_numbered_ids`) | both can be in `GetMethodID` for one name or for two; as a name may be stored twice, the count passes the table |
| … objects | 1 object of up to 3 elements, 5 kinds and references, strings of bytes and units below and above 128 and 256, listings of up to 3 names with room for 2, a grain of 2 samples | every element size, a region with an offset, a listing that is cut, a write that fills a grain and one that spans two |
| `main`: loader | 2 libraries, 2 names, every kind of relocation, symbols defined and undefined, with and without a hash table | an import may be found in the library itself, in the overrides, in a needed library or nowhere |
| … patches | 5 patches, a pool too small for the last | each kind of moved instruction, and the refusal |
| … loop | movie delay 2, watchdog armed after 1 present, limit 3, 4 presents | the delays are compared, never computed with, so their order is what counts |
| … wait | 2 assets of 2 and 3 units, a window of 2, 2 rounds | one file fits the window and one does not; chunks of the other lie between |
| … log | 3 launches, 2 failures, 1 line of the frame loop | a run that wrote, one that does not, and the clearing of the next; both places of the log may fail |
| … input | 1 button, sticks 0 to 2, 3 fingers, 2 pointers | one finger more than pointers |

`CHECK_DEADLOCK FALSE` is given where the system legitimately stops: the ring when the
thread could not be created, the bridge when its bound on objects or depth is
reached or all threads wait, the clients when every one has finished, the caches
when the names are used up, and `main` after a boot that ended and after the watchdog's crash.

Symmetry is used only in runs without liveness properties.

## 6. Fairness

- `AudioRing`: `WF(Producer)` and `WF(Consumer)`: both are threads the kernel schedules;
  each of their steps is a store or a bounded output call.  Nothing is assumed of the
  game (it may never submit) or of the start-up calls (they may fail).
- `MCPthreadClients`: weak fairness per client thread; locks are held for bounded times and
  each thread is scheduled.
- `PthreadOnce`: weak fairness of a thread's steps, and strong fairness of taking
  `bridge_lock` (`Acquire`, `Complete`): it is a kernel mutex, which hands over to a
  waiter, so a thread that could take it again and again does.  A routine is assumed to
  end.
- `GLLock`: weak fairness of a thread inside a wrapper (VitaGL returns), strong fairness
  of taking `gl_lock`, for the same reason.
- `EmergSet`: weak fairness of a thread's probes; nothing on when it allocates.
- `HookCode`: weak fairness of the patched thread; strong fairness of the thread it waits
  for, which can run only while the patched one sleeps: the kernel runs a ready thread
  when the core is free.  Without the sleep `WaitEnds` is false.
- `MainLoop`: `WF(Main)`: the main thread is not blocked by the game's; the game may stop
  for ever, which is what the watchdog is for.
- `TranslateWait`: `WF(Translator)`: between two rounds the translator only sleeps.  Nothing
  is assumed of the loader threads, which may never queue another chunk.
- All other modules are checked for safety only, with no fairness.

## 7. Proofs

Checked by TLAPS for every value of the constants allowed by each module's named
assumptions (`ASSUME`, evaluated by TLC in the runs).  What a theorem needs beyond them is
a hypothesis of its own, which the instances of the runs satisfy.  An invariant of a part
of a composition is proved from two facts: each step of the composition is one of that
part or leaves its variables alone (`Parts`, `Apart`, `PartsApart`), and each step of
the part keeps the part's inductive invariant.

**Audio ring** (assumptions: `SilenceAssumption`, `SizeAssumption`: chunk ≤ ring, at least
two laps before a cursor wraps, `SubmitsAssumption`: no empty submit).

- `TypeCorrect`: `Spec => []TypeOK`.
- `Invariance`: `Spec => []IInv`.  Types are not inductive: that a copy stays inside the
  free window depends on the other side's cursor.  `IInv` adds that unread plus
  incoming samples fit the ring (`ProducerFits`), that what has been copied in is
  exactly behind the cursor (`ProducerProgress`), and that the consumer takes unread
  samples only and has copied them exactly (`ConsumerProgress`).  Both sides work with a
  *stale* view of the other's cursor; the key step is that the other's progress
  only widens one's own window.
- `DataRaceFree`: `Spec => []NoDataRace`, from `IInv`: cells at distinct distances below
  `RingSize` from the read cursor are distinct (`DistinctCells`).
- `Refinement`: `Spec => ImplementsFifo`.  Each action maps to one of `AudioFifo` or to a
  stutter; the laborious one is `Publish`, where the window grows by exactly the submit.
- The lemmas on `%` at the head of the module, with `CellIsMod`, `UsedAfterPublish`,
  `UsedAfterRead` carry the arithmetic: indices modulo the ring and cursors modulo 2^32 agree
  because the ring's size divides 2^32.

**Memory categories** (assumption: `MemCatAssumption`).

- `Invariance`: `Spec => []IInv`.  `NoDuplicate` alone is not inductive: a thread about to
  append must have looked under the lock it still holds (`Locked`, `Pending`), the rest
  of the array must be empty but for an append under way (`Beyond`), and who is done
  left its category listed (`Done`).
- `TypeCorrect`, `Unique` (`NoDuplicate`) and `SkipsListed` (`NoneLost`) follow.

**Memory of the game and of VitaGL** (`Memory_proofs`; assumptions: those of `MCMemory`).

- `EmergencyOfOneCaller`, a lemma and no theorem of the program: `AllSpec => []EmergencyKnown` for
  one caller (`Callers = {k}`), for any size and any hash; the set has no lock, and what two
  callers do to it is not covered.  "Every pointer is found" is
  not inductive while `emerg_free` closes the hole it made.  `EmergInv` says for every place of
  the code which pointers may be unreachable: those whose chain leads over the cell that
  was just emptied (`FoundOrFrom`), one fewer with each that is put back (`Placing`).  The
  loops end in the right cell because the set is at most half full, so a free one exists
  (`Taken`, `Dist`: distances round the table).
- `FamilySafe`: `AllSpec => []GoesBackHome`, if no block of 6 MB or more is reallocated
  (`ReallocsBig = FALSE`).  Every call is an exchange (`Returned`, `Given`): a block goes back
  to the allocator `home` names, another comes from one with room for it.  `FamilyInv` is that
  `big_tab` and the emergency set are exactly the blocks out of each, `big_tab` without
  repetition, and that what was written is among a block's words (`Holds`).
- `ScratchSafe`: `AllSpec => []ScratchHeld`, from whichever pools the memory comes and whatever
  `vglFree` does with a block of newlib's.  The invariant is inductive: the block that is left
  when the buffer grows is smaller than the new one and larger than all that were left before.
- `CountedOfOneCaller`, a lemma: `AllSpec => []CountedOnce` for one caller.  `AcctInv` has, at
  each point of the nested hooks, what the account still owes for a block that came (`Owed`)
  or has been given back for one that is not gone yet (`Paid`); sums over sets of blocks are
  sizes of sets of cells, so that no fold has to be reasoned about.
- `PixelsOfOneCaller`, a lemma: `AllSpec => PixelsKept` for one caller and a list with a place for
  each texture; the code guarantees neither.
  `TexInv`: the sticky list is exactly what was locked, and a copy is freed only while its
  texture is not.

**Save files** (assumption: `SaveAssumption`).

- `TagsFit`: `Spec => [](TypeOK /\ Tagged)`: the tag in `save_fd` of a descriptor that the game
  may write to is the kind of the file behind it.  Alone it is not inductive: a thread
  between the two steps of an open or a close must have its descriptor to itself, and
  the kernel must still have it in use (`Owns`).  That is why the tag is cleared *before*
  the kernel's `close`.
- `Capped` (`GhostCapped`) and `Positions` (`PositionsKept`) hold where the game opens no save
  with `O_APPEND` and uses no descriptor that another thread is writing to (the hypotheses
  `TRUE \notin Appending`, `Sharing = FALSE`).  A write is up to three calls of the kernel, with
  calls of other threads on other descriptors in between, so `CapInv` carries the position
  from one to the next: no other thread is at the descriptor (`OneWriter`), where it stood is
  where it stands at the write, and the `lseek` brings it to what the game was told
  (`InPlace`).

**Paths, assets, Java's methods and objects** (`Files_proofs`; assumptions: those of `MCFiles`).

- `PathsSafe`: `FilesSpec => []SamePlace`, if the game does not import `freopen`, which goes to
  newlib as it is.  That the two file systems are equal is inductive; the work is in the
  lemmas on what each call does to a path's meaning and to each bit of the flags.
- `OpensSafe`: `FilesSpec => []FailsCleanly`, for any threads among the assets.  `AssetsInv`:
  every descriptor of the kernel's is one open stream's, and no other's.  `Noticed`: as long
  as a thread whose open failed has not asked, the exception is pending or another cleared it
  since.
- `ReadsSafe`: `FilesSpec => []ReadsWanted`, for any threads, streams and cards, if the
  rewriting of `memory.cfg` does what its rules say (`RewritesRight`, a fact about a recursive
  function and the card alone; the run checks it of its cards, as a stream opened on one has
  the rewritten text and is compared with the rules').  `StreamsRight`: a stream's position,
  the kernel's and the game's are one.
- `MethodsSafe`: `FilesSpec => []CallsRightMethod`, without a hypothesis.  The race on the
  table of unknown names gives wrong numbers, never a method of another name: `MethodsInv`
  says that only a name no table has gets past the tables (`IdFits`), so an id below
  `UNKNOWN_BASE` is right however the race goes.  When more are counted than the table holds,
  a call by such an id reads outside of it, and that is all that is said.  `SlotOfType` is the
  arithmetic of the environment's slots.
- `ObjectsSafe`: `FilesSpec => []JavaDataKept`, without a hypothesis.  `BlocksInv`: a block is
  byte for byte what Java put there (`BlockRight`), and all slots of a kind agree on the size
  of its elements.  Of strings it is what survives a C string: bytes as bytes, units below 256
  as units.  `AudioInv` speaks of single samples: those owed to the port are the grain's up to
  what has been copied, and then those left in the buffer of the write.

**GL buffers** (assumption: `BufferAssumption`).

- `Within`: `Spec => []WithinStorage`.  The unlock window of `glUnmapBufferOES` is what makes the
  difference: `IInv` adds that one thread at a time unmaps a target, which stays mapped to
  staging until it is done (`UnmapsOnce`), and that a staging block exists only with a size
  (`BlockSized`).  So the size which is uploaded is still the size of that block, whatever
  other threads re-bind, re-create or delete in the window.

**GL calls and sources** (assumption: `LockAssumption`).

- `Kept`: `Spec => []SourcesKept`: wrapped calls exclude each other, every block with a source
  has one owner, what is kept for a shader is what it was last given.  The argument is in
  layers: who holds `gl_lock`, from where a call is (`LockInv`); what a call has where it
  is (`SourceInv`); that a shader has one cell (`CellInv`); and who owns a block, a
  cell that nobody is writing or the call under way, never two of them (`OwnerInv`).

**Attachment caches and rectangles** (`GLLock_proofs`; assumptions: `CacheAssumption`,
`RectAssumption`).

- `AttachedSafe`: `CallsSpec => []AttachedAsAsked`, for any names, levels and cache sizes.  What
  a cache says must be what VitaGL has (`RbCached`, and `TexCached` for a texture's first
  incarnation), and, for the absence of leaks, the other way round: what VitaGL has is in the
  cache unless that is full (`TexKnown`).  The second half is why a full cache is safe.
- `ScreenSafe`: `CallsSpec => []FitsScreen`, for all rectangles of integers with sizes that
  are not negative and whatever targets are bound and deleted: the arithmetic of an exact
  fraction, rounded towards zero, and that `cur_fbo` is VitaGL's target unless that was
  deleted.

**Pthread slots** (assumption: `ModelAssumption`).

- `OneObject`: `Spec => []OneObjectPerSlot`.  That a thread acts on its slot's current object is
  not inductive, since it was read earlier.  `IInv` adds that a slot being initialised or
  destroyed is in no other call (`Exclusive`, the game's rules), that no two slots share
  an object and a bridged one is live (`SlotInv`), that what a thread makes under
  `bridge_lock` is seen by nobody before it is stored (`MakeInv`), and what a thread has
  got at each point of `mutex_get` and `cond_get` (`GotInv`).
- `Refines`: `Spec => ImplementsMonitor`.  Beside `IInv` it needs `Held`: a free mutex has depth
  0, who unlocks or waits still has the mutex from the entry of the call to its end, and
  nobody has or waits on what is being initialised or destroyed.  All steps of
  `mutex_get` and `cond_get` stutter, each call of vitasdk is one step of `Monitor`, and the
  entry and the end of an init or a destroy are its resets.

**Once slots and threads** (`PthreadBridge_proofs`; assumptions: `OnceAssumption`,
`CreationBounds`).

- `OnceSafe`: `ClientsSpec => OnceDone`, for any nesting.  `OnceInv`: a slot at 2 was
  finished, and every call on a stack that is past its routine (`Finishing`) has finished it,
  so that the return, the one step in which a stack gets shorter, tells the truth.
- `ThreadsSafe`: `AllSpec => []ThreadsAsMeant`, if one thread creates threads (`Creators =
  {c}`: the number of a creation is taken without a lock).  `CreationInv` has the number a
  creation under way will be started with, the attribute it was given, and that a running
  thread's entry has its name although ids are used again.  A thread is below main if the
  kernel had told main's priority by its creation (`told`).

**Semaphores** (assumption: `SemAssumption`, a hypothesis of each theorem, since the module is
instantiated in its run, which evaluates the assumption there).

- `Refinement`: `Spec => ImplementsSemaphore` of `PthreadSem`.  `IInv` has the handles live
  and in one slot each (`HandleInv`), posts under way within the count's bound (`RoomInv`,
  from the game's rules), and the handle a call took to the kernel still its slot's
  (`KernelInv`). With these a creation leaves every count alone, so `ksem_get` stutters, and
  the kernel's answer is the one step of the abstract call.  What `bridge_lock` is for, that
  the second look and the creation are not separated, is in the model's one step for them
  (`Create`).
- `NoneStray`: `Spec => [](TypeOK /\ NoStray)`, from `HandleInv`.
- `OnTime`: `Spec => NotEarly`.  `MicrosBound` is the arithmetic: the seconds' and the
  nanoseconds' parts of the difference, rounded one way and the other (`QuotBound`), give up
  less than a microsecond together; `KernelInv` carries it from the call to the timeout.
- `SemaphoresSafe` (`PthreadBridge_proofs`): `AllSpec => ImplementsSemaphore`, the run's property:
  the three theorems hold of the semaphores of `MCPthreadBridge`, by an instance of
  `PthreadSem_proofs` with its variables.

**Frame loop, log, input, loader** (`Main_proofs`; assumptions: `LoopAssumption`, `PadBound`,
`LogBound`, `Loader`).

- `StallSafe`: `MainSpec => []NoFalseStall`.  `LoopInv`: between presents the watchdog's
  frames are among the silent ones; and as the game presents only after it counted, main is
  past its test of the count at most once.
- `LogSafe`: `MainSpec => []LogKept`.  `LogInv` says where what the last run that wrote is,
  for each of the steps of the rotation: in the log up to the `rename`, then in the one put
  aside, and from there on the log has exactly what this run wrote; the same after a launch
  that wrote nothing, which has moved the log aside or has not.
- `InputSafe`: `MainSpec => InputFollows`.  In the middle of a report, the pointers seen are those
  of fingers already met; if these are at most two and rest, each has found a pointer, as the
  two that are down belong to two of them (`PadInv`, with `Few` for *at most two*).
- `BootSafe`: `MainSpec => StartsReady`, for any list of libraries in which each comes after those
  it needs, and any tables (`LoaderAssumption`; an overridden `ABS32` import has the addend 0).
  `LoaderInv`: the libraries before the one at hand are as they will stay (`LibsInv`); of
  its own words those before the loop's index are what the loop makes of them
  (`WordsInv`, with `Half` for a word between `so_relocate` and `so_resolve`); and which
  block is allocated at each label of `so_load` (`BlocksInv`).  `CutInv`: a file whose reading
  broke off is not linked.

*Only model-checked*: every liveness property (`Progress`, `EveryoneLeaves`, `CallReturns`,
`CallsReturn`, `Returns`, `WaitEnds`, `LoopResponds`, `TranslateStarts`), which rest on
fairness that TLAPS cannot reason about; `Transparent`, which compares the run of particular
patches word by word, so that a proof would be TLC's enumeration again; `PrepassMeans`, which
is about what three recursive functions make of a text; `EmergencyKnown`, `CountedOnce` and
`PixelsKept` of more than one caller, of which they do not hold; and the properties of the
four runs that are expected to be violated.

*Out of the prover's reach in general*: liveness under fairness, `ENABLED`, and induction over
data, so what a recursive function computes for every input.  Where a proof needs a least
element (the first entry of a name, the first free cell), `WFMin` of the naturals' order
gives it; sequences are reasoned about index by index.  No module declares a `RECURSIVE`
operator.

*Both checked and proved*: `NoDataRace`, `IInv` (of the ring and of the category list),
`ImplementsFifo`; `OneObjectPerSlot`, `ThreadsAsMeant`, `ImplementsMonitor`,
`ImplementsSemaphore`, `OnceDone`; `SourcesKept`, `AttachedAsAsked`, `FitsScreen`,
`WithinStorage`; `NoDuplicate`, `GoesBackHome`, `ScratchHeld`; `GhostCapped`, `PositionsKept`,
`ReadsWanted`, `FailsCleanly`, `SamePlace`, `CallsRightMethod`, `JavaDataKept`; `StartsReady`,
`NoFalseStall`, `InputFollows`, `LogKept`.

## 8. Assumptions

- Acquire loads and release stores make the ring's steps sequentially consistent: a
  sample is read only after the cursor that published it.  For the pthread slots,
  the object is complete before the slot that points to it is seen.
- `bridge_lock` is one lock for mutexes, conditions, semaphores and once slots, but no
  effect of one part is visible to another under it, so each part is checked with a
  lock of its own.
- The game keeps POSIX's rules (`Legal`): it unlocks and waits with what it holds, and
  does not initialise or destroy what a thread is using.  The engine initialises an
  attribute for every thread, and one thread creates threads.  It has at most one
  mapped buffer per target.
- Creating a vitasdk object (`calloc` and the init call) succeeds.
- VitaGL, vitasdk, newlib and the kernel behave as `src/` uses them: VitaGL records a
  size when the allocation failed, allocates per attach, detaches a deleted object from
  the bound framebuffer only, and reuses names; the kernel reuses descriptors and ids and
  may write less than asked.
- The screen is the display unless a framebuffer is bound, and the game asks for
  rectangles whose scaled edges lie on no rounding boundary.
- The engine takes the chunks of an asset when it translates it, queues at most a
  window of one file, and its vector does not move while it is counted.
- The game stays inside its arrays, calls methods by the types it looked them up with,
  and asks for the fields of no object.  What a directory has beyond 512 names it does not
  need: the list is cut there, and `JavaDataKept` is about the names that are in it.
- Lines of the log fit the 1024 bytes of `debugPrintf`'s buffer; `log_lock` exists before
  there are threads.  Paths fit the 512 bytes of the shims' buffers.
- Descriptors are below 256, the size of `save_fd`.  The game opens no save for appending, and
  no thread uses a descriptor that another is writing to (`GhostCapped`, `PositionsKept`).
- Memory: the pools hand out emergency pointers that are not in use, and one thread at a
  time is in the allocator (the code takes no lock).  The game does not reallocate a
  block of 6 MB or more, nor to the size 0, and `calloc`'s product fits 32 bits.
  VitaGL decodes one texture at a time, under `gl_lock`.
- The account and the texture hooks are checked for one thread in them at a time; the
  category list for any number.
- The two plain stores of an append to the category list may become visible in either
  order until the lock is released.
- A library has at most one text and one data segment, and an `ABS32` import that
  `default_dynlib` overrides has the addend 0.
- The hooks the port installs fit the pool of trampolines (at most 22 of 6 words, two
  patches of 12 and one of 6, in 624 words), although 16 bytes are checked for and up to
  24 are taken.
- Assets: there is memory for a stream, and a stream is used by one thread at a time and closed
  once; `mark` does nothing, so `reset` goes to the start.  In `memory.cfg` a name
  is preceded by a space or a tab, which is all `is_ws` accepts.

## 9. What is not modelled

- *What a library does whose file was read in part*: its tables are followed wherever they
  lead (`so_util.c:86`), and `SoLoader` stops there (`Astray`).
- *What the pre-pass makes of an index with a blank or an operator in it*: `PrepassMeans` says
  nothing of such a line, and of a sum only that its terms stay as they were.
- *The table of translated assets* (`main.c:138–144`), which `forget_done` clears and
  nothing reads; *the hooks on destructors* (`main.c:191–214`), which log and forward like
  those of `CallOriginal` and keep a counter for it.
- *`FETutorialCheck`*, whose hook answers NULL and calls nothing.
- *JNI calls with a constant answer*: `FindClass`, references and frames, classes, monitors,
  direct buffers; and the arguments of methods.
- *Over-long lines of the log*, which `debugPrintf` takes for as long as `vsnprintf` says
  (`stubs.c:22`), and what the game does with a file it reopened.
- *Other GL entries*: they lock, forward one call and unlock, and have one representative
  in `GLLock`.  `glMapBufferRangeEXT` and the unlocked `glGetBufferPointervOES` are left out
  of `GLBuffers`; contents of buffers are abstracted to whether a write stays inside and
  arrives.  The counters only feed the log.
- *Thread-specific keys, join, detach, `sem_getvalue`*: passed through without state of
  the port's.
- *Imports and stubs of libc, sensors, statistics, frame pacing*: tables, samples and log
  lines without state that a step of another component could disturb.
  `__cxa_guard_acquire` (`stubs.c:85`) takes no lock, so two threads may construct one
  function-local static; nothing in `src/` says what those are.
- *The Thumb form of a hook*, which the port never uses, and coordinates, the
  accelerometer and Select's Back key in `Controls`.

## 10. How to run

    tlc -workers 2 -config MCAudioRing.cfg MCAudioRing
    tlapm AudioRing_proofs.tla

and likewise for every configuration and proof module; a configuration named
`MC<Module><Suffix>.cfg` belongs to `MC<Module>.tla`.
