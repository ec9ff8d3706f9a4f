# A verification project for StudioRMDL

StudioRMDL (`src/src/studiomdl`) is Valve's `studiomdl` model compiler, extended
so that one QC script also produces Respawn "Apex" files: `.rmdl` (v54 sub 10),
`.vg` (vertex groups), `.phy` (relocatable collision blob), `.rson`, `.rrig` and
`.rseq` (animation rig and sequences).  This directory holds TLA+ modules that
model its own core logic, the TLC configurations that check them on small
instances, and theorems about them that TLAPS proves for every value of the
constants.  Paths below are relative to `src/src/studiomdl` unless they start
with `src/`.

The repository also carries the engine libraries the compiler is built with.
Their thread primitives are the only concurrent code that is small enough to
model whole and has comments and assertions of its own to hold it to: the
readers-writer lock and the lock-free queue of tier0, and the thread pool of
vstdlib.  They are the second part of this project.

## 1. Inventory

The compiler is one sequential process.  `studiomdl.cpp` parses the QC and calls
the passes in a fixed order; `simplify.cpp` and `UnifyLODs.cpp` reduce the
skeleton and the geometry; `write.cpp` lays the classic `.mdl` and `.vvd` out in
memory, `optimize.cpp` the strips of the `.vtx`; the fix-ups of `write.cpp`
re-read and re-order `.vvd`, `.vtx` and `.mdl` by level of detail (LOD); finally
`WriteRMDLFiles` (`rmdl_write.cpp`) reads the files back and emits the Apex
formats, with `rmdl_bvh.cpp` for collision, `rui_parse.cpp` for the UI meshes
and the `animconv/` library for rigs and sequences.

Nothing of the compiler runs concurrently, so what is hard in it is not
interleaving but agreement: the parts talk through global tables, through memory images whose
structs point at one another by *relative offsets* that are patched long after
the struct was written, through *numbers of vertices* that several passes
renumber, and through *intermediate files on disk* that one part writes, three
others rewrite in place, and a fourth reads beside a header that stayed in
memory.  The process is killed, or stops with an error, between any two of those
files, and the next compile of the same model finds what is left.

The thread primitives talk through shared memory.  `CJobThread`s pop from a
`CJobQueue` each and from one they share; a `CJobQueue` is a `CTSQueue` per
priority, a count and an event; a `CJob` has a lock and a status, and may be in
two queues, run by its client and aborted at once.  A master thread adds jobs,
helps while it waits, and calls its workers to make them sleep or end.

| part | state it keeps | operations | what is hard | correct when |
|---|---|---|---|---|
| string table (`rmdl_write.cpp` 695-776) | vector of (base, field, string, dupindex, addr) | begin, add, write | a field is patched long after it was registered; a duplicate reads an address that another entry must have set | every registered field leads to its own string; strings do not overlap |
| .rmdl layout (`rmdl_write.cpp` 778-2508, 2640-2775) | one 32 MB buffer, the cursor `s_pData` | sixteen steps, each advancing the cursor | offsets relative to different bases; tables filled in separate loops; padding taken from the address | a reader that follows offsets alone finds every struct; no two overlap |
| LOD vertex sort (`write.cpp` 3918-4899) and clamp (4901-5347) | sorted vertex list, runs per mesh and LOD, `.vvd`, `.vtx`, `.mdl`, weight sidecar | build the list, one fix-up per file, cut | four files must be permuted by one order, and cut alike | each strip and flex vertex is the one the optimizer meant, at every root LOD |
| vertex groups (`rmdl_write.cpp` 935-1420) | the `.vg` builder | one step per mesh and LOD | reads numbers that the sort, the fixup table and the cut have changed | vertices, triangles and weights of each mesh are its own |
| collision triangles (`rmdl_bvh.cpp` 596-715) | `g_tris` | walk over bodyparts, models, meshes | its own copy of the loader and of the vertex base | the triangles are those LOD 0 shows |
| BVH tree (`rmdl_bvh.cpp` 90-590, 717-871) | build nodes, emitted nodes, leaf words, packed vertices | partition, build, emit, serialize | rounding of bounds against vertices; leaf capacity; ties of an unstable sort | every triangle once, inside the bounds of all its ancestors |
| output files (`rmdl_write.cpp` 2290-2311, 2531-3303, `write.cpp` 3419-3769, `studiomdl.cpp` 329-556) | the files under `models\` and `compiled\` | about twenty opens, deletes and in-place patches, in order | a refused open that is only printed; a kill between any two; leftovers of an earlier compile | what stands under `compiled\` agrees with itself |
| .phy conversion (`rmdl_write.cpp` 2904-3204) | the IVP blob | rewrite absolute to relative addresses | a worklist over a tree of ledges | not modelled yet |
| sequence order (`write.cpp` 601-770) | names of the previous `.mdl` | remap table | slots freed by removed sequences | not modelled yet |
| RUI parser (`rui_parse.cpp`) | arrays of one UI mesh | parse, add | counts of a file | only the layout it feeds is modelled |
| animation converter (`animconv_wrapper.cpp`, `animconv/`) | its own string table, rig and sequence files | convert | a second copy of the path and string logic | only the path of the `.rrig` is modelled |
| strip optimizer (`optimize.cpp`, `hardwarematrixstate.cpp`, `hardwarevertexcache.cpp`, `filebuffer.h`) | strip groups, bone states, vertex cache | build strips, write | bone slots and a cache at their limit | its result is the input of `LodVertices` |
| readers-writer lock (`src/src/public/tier0/threadtools.h` 2320-2373, `src/src/tier0/threadtools.cpp` 2375-2427) | `m_nActiveReaders`, `m_nWriters`, `m_nPendingReaders`, two events | lock and unlock for read and for write | events raised under the mutex and awaited outside it | a writer is alone; nobody waits for a signal that was swallowed |
| lock-free queue (`src/src/public/tier0/tslist.h` 640-1010) | `m_Head`, `m_Tail` with sequence numbers, nodes, a free list | push, pop, with and without a node | a thread stalls between a read and its compare-and-swap while nodes are freed and used again | a FIFO queue; nobody waits for a thread that stalled |
| thread pool (`src/src/vstdlib/jobthread.cpp`, `src/src/public/vstdlib/jobthread.h`) | jobs, queues, counters, the master's call to each worker | add, pop, execute, abort, raise, wait, suspend, stop | counters and queues change one after the other; a reply may time out; a job is reached from several sides | a job runs once; a suspended pool is quiet; every job finishes and every call returns |
| LOD unification, simplification, QC parser, importers, IVP, cloth | global tables | numeric passes and parsers | floating point and text | not modelled |

The full list, with reasons, is "components" of `PROJECT.json`; what can go
wrong in each, at its line, is "hazards".

## 2. Plan

Order and dependencies (an arrow reads "is extended by"):

1. `StringPool` (abstract) implemented by `RmdlStringTable`, proved in
   `RmdlStringTable_proofs` — done.
2. `RmdlLayout`, proved in `RmdlLayout_proofs` with all its invariants — done.
3. `LodVertices` -> `VertexReaders` — done, model-checked.  The readers run on
   the files the sort produces, never on invented ones.
4. `BvhTree`, proved in `BvhTree_proofs` with all its invariants — done.
5. `OutputFiles`, proved in `OutputFiles_proofs` — done.
6. `ReadersWriter` (abstract) implemented by `RWLock`, proved in
   `RWLock_proofs` — done.
7. `FifoQueue` (abstract) implemented by `TSQueue`, proved in `TSQueue_proofs`;
   `TSQueue` -> `JobQueue` (the levels of a `CJobQueue` down to single reads and
   compare-and-swaps), model-checked — done.
8. `ThreadPool`, over atomic queues, proved in `ThreadPool_proofs` with all its
   invariants — done.
9. `SequenceOrder`: `LoadPreexistingSequenceOrder` and the remapping of
   `WriteSequenceInfo`, over several compiles.
10. `IvpLedges`: the rewriting of the `.phy` blob (2904-3204).
11. `HardwareBones`: `hardwarematrixstate.cpp` and `hardwarevertexcache.cpp`
   against an abstract bounded cache; `filebuffer.h` against a write-once map.
12. `RuiParser` feeding `RmdlLayout`; the converter's string table as a second
   implementation of `StringPool`.
13. The bone palette of the `.vg` (`R5_SetupBoneStates`, 982-1013) in
    `VertexReaders`: each vertex's bones survive the mapping.
14. The bookkeeping of `UnifyLODs.cpp`, with the position match a relation.

Abstract specifications worth stating: `StringPool`, `ReadersWriter` and
`FifoQueue` (stated); "one atomic
compile" for `OutputFiles` with no kill and no refusal; a bounded LRU cache for
the matrix state.  Theorems worth proving, in order: the string table's
invariant and refinement (proved), what stands on disk after a compile
(proved), the lock's invariant and refinement (proved), the pool's protocol and its jobs
(proved), the queue's invariant and refinement (proved), the layout's disjointness
and its readability (proved), the tree's scale, leaf capacity, sections, triangles
and bounds (proved), the pool's tickets, the fixup table as a partition of the vertices.

## 3. Modules and the code they model

`PROJECT.json` "map" gives the lines of every definition.

**`RmdlStringTable`** (with `StringPool`).  `table` is `s_stringTable`; an
entry keeps the fields of `r5_stringentry_t`, a position is the index plus one,
so that 0 can stand for `dupindex` -1.  `AddToStringTable` is
`R5_AddToStringTable`, its linear search the operator `FirstMatch`.  The loop of
`R5_WriteStringTable` is one action per entry, split by its `if`:
`WriteUnique`, `WriteDuplicate`.  `mem` holds the patched ints, `pool` what was
copied.  `PoolRefined` maps this to `StringPool`, where registering is one step
and sealing the pool makes every field readable at once.

**`RmdlLayout`**.  One action per converter of `WriteRMDLFiles`, in its order;
`pos` is `s_pData - s_pBase`, `regions` the structs written, `ints` the offset
and count fields by struct address, `regs` the strings registered.  A struct's
content is a tag.  `Laid` puts structs of one size at their ranks, `ElementsAt`
is the address of each struct of an array, and `Members` with `MemberRank` are
the things of groups that lie group after group (the boxes of the hitbox sets).
`AlignData` pads from the buffer's address as
`R5_AlignData` does, so the address is a variable.  The properties read the
finished file back as an engine would, from the header's ints on.

**`LodVertices`**.  One action per pass: `BuildSortedVertexList`,
`FixupVVDFile` (with the weight sidecar), `FixupVTXFile`, `FixupMDLFile`,
`ClampRootLOD`.  A vertex is its position in the `.vvd` that was first written;
bodyparts and models are flattened to a sequence of meshes with a model number.
`mdl` is `phdr` in memory and `mdlFile` the file on disk: the clamp changes only
the second.  `LoadVertexes` is `Studio_LoadVertexes` of `studio.h`, and
`SetRootLOD` is `Studio_SetRootLOD` with the limit of `$allowrootlods`, which
`Ruled` raises to `-minlod` as the two commands do.

**`VertexReaders`** extends it with the two readers of the finished files:
`CollectMesh` is one mesh of `CollectTriangles`, `BuildVgMesh` one mesh at one
LOD of `R5_BuildVGData`.

**`BvhTree`**.  The two recursions are stacks of pending calls (`calls`,
`emits`), one action per call and branch: `BuildLeaf`, `BuildInner`,
`EmitRootLeaf`, `EmitLeafChild`, `EmitInner`, and `Serialize` for the blob.
`std::sort` is any order in which the centroids ascend.  Coordinates are
multiples of 1/`Unit`; quantities the code computes in `float` are exact
fractions, rounded where the code rounds.

**`OutputFiles`**.  One action per open, named for the file: from `OpenMdl`
through the sort and clamp (`Rewrite`) to `WriteRmdl`, `WriteRson`, `WriteVg`,
`ReadPhy`, `WriteCompiledPhy`, `Patch`, `Remove`.  A file is absent, torn or
whole, and remembers the compile it is of.  `Refused` is the branch an open
takes when it fails: `ExitError` (`Error` of cmdlib), `MdlError`, or onwards
where the code only prints.  `Crash` kills the process between steps, in the
middle of a write, or half way through the removals; `Fault` is an exception that
`MdlExceptionFilter` turns into `MdlError`.  `Begin` starts the next compile on
whatever is left.  A model has one name, of which the properties need the first
directory and whether the file has a dot or is too long for the header's field;
`HeaderName` is what the `.mdl` says of it, `$internalname` included, `RigPath`
what the converter makes of that, and `LinkPath` what the `.rson` makes of the
name of the output.

**`RWLock`** (with `ReadersWriter`).  The three counters and the two events are
variables; a block under `m_mutex` is one step, a wait outside it another, so
`WaitForRead` is `LockForReadWait`, `WakeReader`, and `EnterRead` or `WaitAgain`.
`ReadersWriter` has only who is inside; `RWSpec` maps one to the other.

**`TSQueue`** (with `FifoQueue`).  One action per read and per compare-and-swap
of `Push`, `FinishPush` and `Pop`; `m_Head` and `m_Tail` are pairs of node and
sequence number, which is what the 128-bit compare-and-swap compares, while
`LinkNode` compares `pNext` alone, as the code does.  Freed nodes are taken
again.  The last read of `m_Tail` in `Pop` and the read of `elem` behind it are one
step, which loses nothing: what another thread does in between to the tail does not
matter any more, and what it does to the item shows when the head is compared.  In
`FifoQueue` a push takes effect when the node is linked and a pop when
the head moves or when it reads that nothing follows.

**`JobQueue`** puts `CJobQueue` on top of it: push, then count under the mutex; a
ticket, then the pop of the level.

**`ThreadPool`**.  One action per step of `CJobThread::Run`, of
`ServiceJobAndRelease`, of `AddJob` and of the master's calls, each named for
what it does; `pc` says where a thread is.  A level of a queue is a sequence here,
popped and pushed at once: `TSQueue` shows that for queues with one pusher, and
here only the master adds jobs.  The status, the event and the lock at the
end of `CJob::Execute` are one step (`Run`), and so are `PeekCall` with the
`Wait` before it.  `Resume` is a client's, at any time between calls.  A job is
added at the lowest priority and raised by `ChangePriority`; that a client may
create one at a higher priority is left out.

## 4. Runs

Passing runs:

| run | what it shows | instance |
|---|---|---|
| `string_table` | every field ends up at its own string, each string is stored once, the table implements the pool | 3 strings (one empty), 3 fields, 4 registrations |
| `layout` | the finished `.rmdl` can be read by offsets; structs are disjoint and 4-aligned; strings are registered inside structs | models with zero, one and several elements of each kind; buffers at 4 addresses that are multiples of 16, as `new char[]` gives |
| `vertex_readers` | `.vvd`, `.vtx`, `.mdl`, flexes and sidecar agree after the sort and after the cut; the `.vg` built from them has each mesh's vertices, triangles, extra weights and slices; with one LOD also its own weights, and with one LOD and one model the collision triangles are right | 1-3 meshes (one empty), 1-3 LODs, every root LOD, allowed or not, packed and full positions; 32 076 states |
| `bvh_tree` | every triangle once, bounds enclose at every level, vertices within a packed unit, leaves not cut, sections disjoint | up to 7 triangles, leaves of 2, four-way split at 6, scaled and unscaled |
| `output_files` | see below | 2 compiles, 3 names, 11 sources, 13 refusable opens, kills and faults; 637 306 states |
| `rw_lock` | the two events are exact, the lock implements the abstract one, writers and readers get in | 4 threads, 877 states |
| `ts_queue` | the queue implements a FIFO queue, says empty only when it was, and lets nobody wait for a stalled thread | 2 threads, 4 nodes, 3 pushes, 3 pops; 215 744 states |
| `thread_pool` | see below | 2 workers, 2 priorities, 2 jobs of 2 kinds, 2 calls of 10; 313 802 states |

Some properties of a run are conjunctions of named parts, each about one thing:
`StructsPlaced` is `TypeOK`, `RegionsDisjoint` and `StructsAligned`; `Readable`
the four `...Readable` of the layout; `SortSound` is `TypeOK`, `PrefixHoldsLod`,
`VerticesPreserved` and `HeaderCountsVertices`; `VgMeant` is `ReadersTypeOK`, `VgSlicesTile`,
`VgVerticesMeant` and `VgTrianglesMeant`, for models that were not cut;
`OneLodMeant` is what holds of weights and collision triangles with one LOD;
`BlobPacked` is `TypeOK`, `VerticesNear`, `LeavesFit` and `SectionsFit`; and
`IInv` of the string table has its `TypeOK`, `DupSound` and `PoolDisjoint`.

`thread_pool` shows that a job runs at most once, whatever number of queues,
helpers and callers it has (`ExecutedOnce`); that a ticket of `CJobQueue::Pop`
finds an item, with one pusher (`ExpectedItem`); that nobody but the sleeping is
left when `SuspendExecution` returns (`QuietWhenSuspended`), though
`WaitForReply` may time out, and that no worker is called twice before it
answers (`OneCallAtATime`); that the counters agree with the queues when all is
at rest (`CountsSettle`), up to the count that `ChangePriority` omits; that serial
jobs start in order unless their client moves them (`SerialInOrder`); that the
jobs of a frame are done when the wait returns, unless it was refused
(`FrameJobsDone`); and that every job finishes and every call returns
(`JobsFinish`, `CallsReturn`).

`output_files` shows that an `.rmdl` never claims physics that is not beside it
(`ClaimedPhysics`), that the `.vg` is built from this compile's files at their
last stage (`LoadableSet`), that a model's own collision model wins over a
leftover (`PhysicsKept`), that intermediates are removed, an earlier compile's
included (`IntermediatesGone`), and that the `.rson` links the rig that was
written (`RsonLinksRrig`), where the header has the name of the output (no other
`$internalname`, and one that fits in 62 characters), which is under `mdl\` in lower
case and has no dot in its file, and `-rp` is not given.

Runs that find the code at odds with a comment beside it:

| run | the code | the comment |
|---|---|---|
| `collision_lods` | `CollectTriangles` takes fixups with `lod <= 0`: only the vertices LOD 0 alone uses (`rmdl_bvh.cpp` 617) | "Build LOD 0 vertex array (apply fixups)" |
| `vg_weights` | with a fixup table, weights are looked up by the loaded number in a file kept in `.vvd` order (`rmdl_write.cpp` 1266) | "Resolve a vertex's complete source influence list" |
| `expected_item` | with two pushers, one of which stalls before it links its node, a `CJobQueue` counts an item that no level yields: `LinkNode` compares `pNext` without a sequence number, and links behind a node that was popped, freed and is being pushed again (`src/src/public/tier0/tslist.h` 876) | the assertion "Expected at least one queue item" (`src/src/vstdlib/jobthread.cpp` 148) |
| `serial_order` | `ChangePriority` pushes a serial job to the shared queue, where another thread takes it ahead of the serial jobs before it (`src/src/vstdlib/jobthread.cpp` 830) | "Job cannot be executed out of order relative to other "strict" jobs" (`src/src/public/vstdlib/jobthread.h` 86) |

Met while modelling, kept without a run.  In the compiler:

- The vertex base of the collision walk starts again at each model while the
  array holds all models (`rmdl_bvh.cpp` 635), so with two models collision
  triangles are another model's.
- Where `$minlod` N raises `$allowrootlods` to N (`studiomdl.cpp` 10985), although
  "minlod" is to rule over it (10981), root LOD N is still not allowed
  (`src/src/public/studio.h` 3704), so the `.mdl` is cut at N - 1 and the `.vvd` and
  `.vtx` at N; `HeaderCountsVertices` speaks of roots that are allowed.
- With `-minlod`, `.vvd` and `.vtx` are read back cut, while the header in memory
  is uncut (`rmdl_write.cpp` 2609, `write.cpp` 5329), so the `.vg` of a cut model
  is wrong; `VgMeant` speaks of uncut ones.
- With `$phyname` the collision model is in another file than the one looked for
  (`collisionmodel.cpp` 2779).
- `MdlError` looks for the targets under `models\`, the Apex files are under
  `compiled\` (`studiomdl.cpp` 332), so those of an earlier compile stay.
- `bvhOffset` is padded from the address of the buffer, so it is a multiple of
  64 only if the buffer is; the comment (`rmdl_write.cpp` 2763) wants it aligned.
  `StructsAligned` therefore speaks of 4 only.
- The bounds of an unused BVH child are the leaf's swapped, then rounded
  outwards, which can turn them back for a model a packed unit thick
  (`rmdl_bvh.cpp` 544), although the comment there means them to stay inverted.
- A `.phy` left under `models\` by a compile that was killed is taken for the next
  model's of that name, even if that has no collision model (`rmdl_write.cpp` 2889).
- If the `.rmdl` cannot be opened for writing but can be for patching a moment
  later, the `.rmdl` of the earlier compile is patched (2789, 3236).  This is why
  `write_rmdl` is not among the refusable steps of `output_files`, and why the
  theorem `PhysicsClaimed` assumes so.
- The `.rson`, whose path is built "matching animconv logic" (`rmdl_write.cpp`
  2801), names another rig than was written for a name not under `mdl\` (2814),
  with `-rp`, with another `$internalname` (`write.cpp` 3561), for `MDL\` in
  capitals, for a file with a dot, and for a path that the 62 characters of the
  header's name cut (`animconv/mdl/mdl.cpp` 17-24); see `RsonLinksRrig`.
- The sequence order of a previous `.mdl` (`write.cpp` 607) is never found by a
  second compile that writes Apex files, for `WriteRMDLFiles` deletes the `.mdl`.

In the thread pool:

- `YieldWait` takes at most 62 jobs; with more it fails at once, and
  `YieldWaitPerFrameJobs` has by then emptied its list and returns, although it
  is to "Block until all per-frame jobs are done"
  (`src/src/vstdlib/jobthread.cpp` 673).
- `Stop` deletes the direct queues with their threads; jobs left there are neither
  executed nor aborted (1259).
- `ChangePriority` pushes a second entry and does not count it in `m_nJobs`, so
  `GetJobCount` is too low until `AbortAll` or `Stop` sets it to 0; and as `AddJob`
  counts after it pushes, it may be -1 for a moment.
- `SetServiceThread` in `ServiceJobAndRelease` has no effect, for a job is not
  queued again after it was serviced.
- The overflow branch of `CJobQueue::PrePush` cannot be reached, for `m_nMaxItems`
  is `INT_MAX`; if it could, it would service the wrong job.
- `~CTSQueue` demands that the tail has no successor, although every other
  operation tolerates a tail that lags behind.
- A comment (653) says that jobs of a frame may spawn others.  A job that adds
  jobs makes two pushers, for which `expected_item` shows what can happen.

## 5. Bounds

- *Strings*: three strings of lengths 0, 1, 3 and four registrations give first
  uses, duplicates of entry 0, duplicates of a later entry and a field that is
  registered twice; the theorems cover the rest.
- *Layout*: struct sizes are the real ones; models vary each array through empty,
  one and several, alone and combined.  That structs are disjoint, aligned and
  inside the stated length is proved for models of any size.  The 32 MB end of
  the buffer is not modelled.
- *LODs*: two meshes with three LODs are the least in which a mesh has several
  runs and the fixup table is out of file order; an empty mesh and a second model
  exercise the early returns and the model's vertex base.
- *BVH*: `MaxLeaf`, `PackMax`, `Int16Max` and `BaseUnit` are scaled down together
  so that four-way splits, two levels, scaling, clamping and a base vertex past
  one unit occur with seven triangles.  `MaxDepth` is 2 there, the depth that five
  triangles in leaves of two need: at 1 the limit would cut triangles off, so
  `LeavesFit` is checked where it is tight.  In the code the limit is 32 for leaves
  of 16.  All three invariants are proved for any number of triangles that the
  levels can hold and the base field can count.
- *Files*: two compiles are enough for leftovers; a third sees nothing a second
  cannot leave, since each property relates a file to the running compile or to
  one earlier one.  The theorems have no such bound.

- *Lock*: four threads are two readers and two writers that can wait at once,
  the least in which a signal can go to the wrong one of two.  The safety
  properties are proved for any finite set.
- *Queue*: one thread may stall anywhere while the other uses every node again;
  four nodes with three pushes and three pops are enough for a node to be popped,
  freed and pushed while the first thread still holds it.  The safety properties
  and the refinement are proved for any finite number of threads and nodes.
- *Pool*: two workers and their master, two jobs, and two calls.  One job in two
  queues, a second behind it, and an order between two serial jobs need no more.
  `MaxHandles` is 1 instead of 62, so that the refusal happens.  Jobs bound to a
  thread (`SetServiceThread`) are in `TargetOf` but not in this instance, which
  would take too long with them; the theorems have no such bound.

Names of bounds: `MaxEntries`, `MaxCompiles`, `MaxPushes`, `MaxPops`, `MaxJobs`,
`MaxCalls`.  The modules of the compiler run their passes once and stop; the pool
and the queue stop when their bounds are used up; so their configurations do not
ask for the absence of deadlock, the lock's does.  That no thread is stuck is a
liveness property.

## 6. Fairness

In the compiler none is assumed and no liveness is claimed: it is a straight
sequence of passes in one process that may be killed at any step, and each action
strictly advances a cursor, so there is nothing to wait for.

For the threads, weak fairness of steps stands for an operating system that lets
a thread that can run do so in the end.

- `RWLock`: each thread's `Proceed`, what it does inside a call and to leave.
  Nobody has to call, so `ReadersProgress` is about readers once no writer comes
  any more: the code prefers writers.
- `TSQueue`: each thread of `Running`; the others may stall for ever, which is
  what lock-free means.
- `ThreadPool`: each worker's steps, the master's inside a call, and `Resume`,
  for a client that suspended the pool resumes it.  No call is ever forced.

What the clients of a pool must do is assumed where the code leaves it to them:
one master; no wait and no `Stop` while the pool is suspended; and nothing but
`AddJob` after `Stop`.

## 7. Proofs

**String table** (`RmdlStringTable_proofs`, from `StringAssumption` and
`LayoutAssumption`).  `AllResolved` is not inductive: it speaks of the end only.
`IInv` adds what the writing loop relies on.  `OwnersDiffer` and `DupSound`: the
owner of a string is unique and earlier.  `AddrSound`: entries before the cursor
have addresses in the pool, entries behind it none, so a duplicate never reads an
unset address.  `PassedResolve`: the last passed entry of a field has fixed it.
`PoolDisjoint`: copies lie back to back.  There is one lemma per action, then
`TableInvariant`, and from it `TypeCorrect`, `DupCorrect`, `Resolution`; and
`Refinement`: every step is a `Register`, the `Seal`, or a stutter.  `FirstMatch`
needs the least element of a set of naturals, `LeastNat` of module `NatLemmas`.
That module also has the induction and the recursion over numbers that the
queue and the layout need, stated with sets and functions, for the library's are
stated with operators.

**Output files** (`OutputFiles_proofs`, from `FilesAssumption`).  `FilesTyped`
is type correctness.  `PhysicsClaimed` is `ClaimedPhysics` for any number of
compiles, any sources, and any refusable steps except `write_rmdl`.  The claim is
not inductive: between `WriteCompiledPhy` and `Patch` one must know that the
`.rmdl` on disk is the running compile's and that `.phy` is the one in memory.
`IClaim` adds `RmdlIsOwn` and `PhyInPlace`, which say so step by step.

What a compile leaves that ended well follows from `FilesAssumption` alone.
`IntermediatesGone` is inductive as it stands
(`NothingLeft`).  The others speak of the end of a compile, so each has an
invariant that follows the file through the steps.  `ISolid`: the collision model
is this compile's in the source `.phy`, then in memory, then in the compiled one
(`OwnPhysics`).  `ILoaded`: each intermediate file is raw, sorted or cut at the
steps of `RawAt`, `SortedAt` and `CutAt` and is read at its last stage
(`Loadable`).  `ILinked`: before `WriteRson` the `.rson` is an earlier compile's,
so the rig written first is the one it will name; `SamePath` says when both paths
are the same (`LinkedRig`).  With these every
property of `OutputFiles` that a passing run checks is proved.

**.rmdl layout** (`RmdlLayout_proofs`, from `LayoutAssumption`), for any compiled
model, with any number of elements of every kind, any buffer whose address is a
multiple of 4, any struct sizes that are positive multiples of 4, and strings of
any length.  `RegionsDisjoint` speaks of the finished file, so `LInv` says what
holds between two converters: the regions written so far are `Placed` between 0
and the cursor (disjoint, and aligned where they must be), the cursor is a
multiple of 4 of the file, the fields in `regs` are `Waiting` in structs that
were written, and the ints are `Stored`.  The argument is one about slices: if a
converter's regions are placed from the cursor it finds to the one it leaves,
they are disjoint from all others.  Lemmas compose slices from smaller ones: a
struct (`PlacedOne`), structs at their ranks (`LaidPlaced`), slices one behind the
other, and a family of slices of different lengths, which is what the body parts
and the RUI meshes are.  One lemma per converter follows, and from them
`StructsPlacedHolds` and `StringFieldsOwnedHolds`.  The type invariant is part of
`StructsPlaced`.

`Readable` asks what a reader of the finished file finds by following the
offsets.  It too speaks of the end, so `RInv` says at every step that what has been
laid out can be followed: `CountsFound`, `SkeletonFound`, `SetsFound`,
`SequenceFound`, `TreeFound`, `PanelsFound` and `LinearFound`, each from the point
where its converter is done.  Two facts carry it from step to step.  A converter
stores only behind the cursor it finds and in header fields of its own
(`WriteHolds`, `Keeps`), so what is stored stays stored: a field is shown to be
`Held` once, by the converter that writes it.  And structs that are `Placed` have
different addresses (`PlacedApart`, `TreeApart`, `RuiApart`), so an offset leads
to the one struct it was written for.  The rest is the arithmetic of the offsets:
the slot of a mesh in the array of all meshes (`TreeSlots`), which
`ConvertBodyParts` fills model by model, and the vertices of a RUI mesh behind a
header and indices that are rounded up to 16 (`PanelVertices`).  One lemma per
converter (`SkeletonRead` and the like) and `AllRead` give `RInvHolds`, and
`ReadableHolds` follows.  `RInv` quantifies over all numbers, so TLC checks
`Readable` itself, on `layout`, and not `RInv`.

**BVH tree** (`BvhTree_proofs`, from `LeafAssumption`, `DepthAssumption`,
`PackAssumption`, `BaseAssumption`, `SoupAssumption` and `FieldAssumption`), for
any triangle list and any unit.  `SoupAssumption` bounds the list by `Capacity`,
what `MaxDepth` levels of two parts can hold: `MAX_TRIS_PER_LEAF` times 2 to the
`MAX_BVH_DEPTH`, 2^36, where the code counts triangles with an
`int`.  `LeavesFit` is not inductive, for the depth limit makes a leaf of
whatever a call brings, so the invariant `BInv` says of each pending call that
its triangles fit the levels that are left; `PartsAre` shows that no part of a
node holds more than half of what the node's levels can hold, with the rounding
up of `perPart`.  `VerticesNear` follows from the frame: the origin is the
centre of the overall bounds and the scale takes the longest side to `PackMax`
units at most, so a coordinate is never clamped (`InScale`) and truncation loses
less than a unit (`TruncatedNear`).  The rest of `BInv` types what is built and
written: every inner node has a first child or a call that will make it, so
emission never runs dry before the tree is written, and each index is of
something written.

`EveryTriangleOnce` and `BoundsEnclose` are about what a reader of the finished
blob finds, and rest on `CInv`, which adds two parts to `BInv`.  `Growing`, while
the tree is built: each triangle is at one place of one leaf or of one pending
call, each node but the first has one parent in one slot, or a call that will
note it there, and the bounds of a node enclose those of its children and the
triangles of its pending calls.  Of sorting it uses that a sorted list is a
rearrangement (`Sorted`), whatever becomes of ties, and of the cut that the parts
cover the list without overlap (`PartsCover`).  `Laid`, while the tree is
written: there is a list `em` of the build nodes behind the written nodes and a
list `tr` of the triangles behind the packed vertices, such that types and bounds
are those of the children, and an index leads to the child's node or words,
except in slots that a pending call is to fill (`Mapped`).  Only the existence of
the two lists is claimed, the model has no history variables.

At the end no call is pending.  `ReadIs`: the running sums that a reader forms
from a leaf's header and offsets lead to the vertices of the leaf's triangles in
the order v0, v2, v1.  This is where the fields must be wide enough:
`FieldAssumption` says that three vertices of every triangle can be counted by
the base field, 2^26 with the widths of the code, which does not compare; the
buffer of 32 MB that the blob is copied to has room for fewer.  `LeafSlotsAre`: the
recursion of `LeafSlots` gives the leaf slots of all nodes in the least set that
is closed under the links (`Desc`), which from the first node is all of them
(`FirstAbove`), and every leaf of the build tree is behind one of these slots
(`SlotsListed`).  Then `FoundIs` is a bijection between what is found and the
triangles, and both counts of `EveryTriangleOnce` follow.  For `BoundsEnclose`,
nodes whose bounds lie within a given box are closed under the links
(`LeafWithin`), and rounding keeps order: the lower bound rounded down is at most
the vertex truncated towards zero, which is at most the upper bound rounded up,
also after clamping (`Outwards`).

**Lock-free queue** (`TSQueue_proofs`, from `QueueAssumption`), for any finite
number of threads and nodes, whether nodes are recycled or not.  `Inv` says that
every node lies on one list: the main one from the dummy to the end, the free
list, or one that hangs off a push that has not linked its node yet.  The last
kind is needed because `LinkNode` compares `pNext` without a sequence number: a
push with a stale tail can hang its node behind a node that somebody else is
about to push, and so on; an order between the pushes under way, part of the
invariant, rules out that such lists close into a ring.  The local part says what
a thread that has read head, tail or next may rely on until it compares: an old
sequence number makes its compare-and-swap fail, a current one makes what it read
still true.  Sequence numbers are unbounded in the model; in the code they have
the width of a pointer, and that one wraps while a thread stalls is not considered.
From `Inv`: `NothingLostHolds`, `EmptyHonestHolds`, `CompletedVisibleHolds`, and
`QueueImplements`: every step appends an item or more at the back, takes the one
at the front, or is a stutter of `FifoQueue`.  That no thread waits for a stalled
one (`NobodyWaits`) is liveness and stays with TLC.

**Readers-writer lock** (`RWLock_proofs`, from the assumption that the threads
are a finite set).  `IInv` is `TypeOK`, `Counts` (each counter is the number of
threads that are where it says), `Exclusion`, `WriteSignalExact` and
`ReadSignalKept`.  The counters are cardinalities, so each step rests on a lemma
about a set that gains or loses one thread.  From it `TypeCorrect`,
`WriteSignal`, `ReadSignal`, and `Refines`: the lock implements `ReadersWriter`.

**Thread pool** (`ThreadPool_proofs`, from `PoolAssumption` and, for serial jobs,
`SerialAssumption`), for any number of threads, priorities, jobs and calls.  Each of its invariants rests on earlier ones.  `Running`: who runs a job
owns its lock and its status says so (`Holds`), a job nobody has made has not run
(`Unmade`), and a worker's job is from a queue (`FromQueue`); with it
`ExecutedOnce` is inductive (`Executed`).  `Protocol`: outside its calls the
master finds every worker rested; while it calls, those it has not come to; a
sleeping worker has answered; nobody is told to end but by `Stop`.  It gives
`Quiet` and `OneCall`, and does not use that a reply comes, for it may time out.
`Awaiting`: the master waits for jobs only where it yields or helps; with it, and
as a finished job stays finished (`KeptJobs`), `FrameDone`.  `Stock`: `Balance`,
that the entries of a queue are its count, the tickets out and the item the master
has pushed and not yet counted, and `ExpectedItem` itself, which says it level by
level: who leaves a level found it empty, who takes an item takes it at its own
level, and a push only adds.  Neither is enough alone, for a ticket starts at the
top, where `ExpectedItem` is what `Balance` says.  The lengths are sums over the
levels (`UnderChange`), by `NatLemmas`; that nobody scans while the master empties
the queues is `Protocol`.  From it `ItemsExpected`.

`CountsSettle` speaks of a pool at rest, so its invariants say what each counter
is on the way.  `Typed` is the type of every variable.  `Idle`: `nIdle` is
`NumThreads` less the workers that took a job in this turn or are gone.  `Tally`:
unless all threads are gone, `nJobs`, what `ChangePriority` pushed, and the item
about to be counted make up the entries of all queues and the jobs that threads
hold from a queue (`Place` says whose job is from one).  At rest nobody holds,
scans or counts, and with `Balance` that is `CountsSettled`.  The entries of all
queues are a concatenation of concatenations, in the pool's order of queues for
`Total`, in another for `ExecuteToPriority`; only their number matters, so it is
counted as a set of places `<<queue, level, number>>` (`Slots`), which unions and
differences of sets then take apart.  `PutBackLength` is the point: what
`ExecuteToPriority` puts back goes to one place each, the queue and level of its
job, so neither is an entry lost nor one doubled.

`SerialInOrder` is about the order of entries, and `Serial` follows the jobs it
promises (`Strict`: serial, and no client moved them) from `AddJob` to their end.
They wait only in the first worker's queue, at its lowest level, in the order they
were added and untouched (`OnlyThere`, `Ascending`); one that is taken is the first
worker's and earlier than all that wait (`Earliest`); one the master is about to
push is the last that was added (`Latest`); and none is anywhere else
(`Somewhere`).  So when one starts, every earlier one is over (`InTurn`), and
`SerialOrdered` follows.  Most steps touch none of it: they keep
each promised job, who holds one, and the line but for a shift (`OrderAside`).
`ExecuteToPriority` at the lowest level finishes all that wait, at a higher one
puts nothing serial back into the line (`ExecuteEntries`).  Once the pool is
stopped the master executes new jobs on the spot while earlier ones may still
stand in a queue that is gone, which is why `InTurn` and the property except them.
`SerialAssumption` says that the master never helps with a serial job, unless no
worker is left: otherwise `AddJob` would execute it before earlier ones whenever
nobody is idle.  `jobthread.h` does not demand it; it holds because the only jobs that set
`JF_SERIAL` are the file system's writes and appends, whose base class
`CFileAsyncJob` has set `JF_IO` (`basefilesystemasync.cpp` 270, 433, 522 and
`filesystem_async.cpp` 266, 429, 518).

Only model-checked: everything in `LodVertices`, `VertexReaders` and
`JobQueue`, and of `ThreadPool` what is liveness.

Out of the prover's reach, and left to TLC: liveness under fairness, anything
about `ENABLED`, and what recursive definitions over data compute for every input
(the concatenations and folds of `LodVertices` and `VertexReaders`, the order of
the entries of a queue over its levels).  Recursion over numbers, as in the sums of
`RmdlLayout` and the lengths of the levels of a queue, is in reach through
`NatLemmas`.

## 8. Not modelled

Parsers of the QC and of source geometry, and the floating-point passes
(simplification, LOD matching, IVP hulls, cloth): their results are inputs here.
Of the formats, values that are no offset, count or vertex number.  `.ani`, the
software and DX8 variants of the `.vtx` and the `.rseq` files share the fate of
the `.mdl`, `.vtx` and `.rrig` in `OutputFiles` and are left out.

Of the thread primitives: the lock-free list `CTSListBase`, which here only holds
free nodes; `Purge` and `RemoveAll` of the queue, which are not thread-safe by
their comments; `CThreadSpinRWLock`, another class; `Distribute` and the counting
of references to jobs; jobs that add jobs.  Memory is sequentially consistent in
the models; the code is built for x86, and the words that threads race for are
written by interlocked operations.

The rest of the repository is the engine and its tools (rendering, game code,
generated message code, third-party libraries), which the compiler does not use
or uses as libraries.
