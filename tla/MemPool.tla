------------------------------ MODULE MemPool -------------------------------
(***************************************************************************)
(* The memory pools of the compiler (common/util/memory.c), the regular    *)
(* ones.  Small requests are cut from blocks, large ones are malloced one  *)
(* by one and linked, per allocation level, into a doubly linked list.  A  *)
(* pool is a stack of MEM_POOL_BLOCKS, one for each level.                 *)
(*                                                                         *)
(* The memory is a line of double words.  A header keeps in memory what    *)
(* may be mistaken later for a header: base and ptr of a large block in    *)
(* the two words in front of its data, and rest of a block in the one word *)
(* in front of its first object.  avail, ptr, next and prev are functions  *)
(* of the address of the header.  Sizes are in words, already padded.      *)
(***************************************************************************)
EXTENDS Naturals, Sequences, FiniteSets, FiniteSetsExt

CONSTANTS
  Pools,
  Zeroing,       \* the pools that are initialized to zero their memory
  Memory,        \* the number of words that malloc has to give
  Starts,        \* the words from which malloc may search for room
  BLOCK_SIZE, MIN_LARGE_BLOCK_SIZE,
  Sizes,         \* of the requests
  Objects,       \* the users' names for what they have allocated
  Filled,        \* the objects that their users fill when they get them
  MaxLevels,     \* bound on the levels of a pool
  Programs       \* what is called, in which order, with any arguments

VARIABLES
  heap,          \* memory and pools, see Init
  frozen,        \* a field of the pools
  obj,           \* what the users have: where, how large, how much written
  crashed,       \* a memset over all the memory has ended the process
  program        \* the calls to come

vars == <<heap, frozen, obj, crashed, program>>

Words == 1..Memory
NULL == 0
bz(p) == p \in Zeroing
Headers == 1..(Cardinality(Pools) * MaxLevels)
Zero == <<"null", NULL>>
Junk == <<"junk", NULL>>
Base(g) == <<"base", g>>
Ptr(a) == <<"ptr", a>>
Rest(b) == <<"rest", b>>
Data(o) == <<"data", o>>

BLOCK_OVERHEAD == 1
LARGE_BLOCK_OVERHEAD == 2

NoObject == [pool |-> "none", at |-> NULL, size |-> 0, level |-> 0, wrote |-> 0]
NoHeader == [block |-> NULL, large_block |-> NULL, base_block |-> NULL,
             base_ptr |-> NULL, base_avail |-> 0, rest |-> NULL]

Init ==
  /\ heap = [ mem    |-> [a \in Words |-> Junk],
              chunks |-> {},                           \* malloced: <<start, length>>
              avail  |-> [a \in Words |-> 0],
              ptr    |-> [a \in Words |-> NULL],
              rest   |-> [a \in Words |-> NULL],
              next   |-> [a \in Words |-> NULL],
              prev   |-> [a \in Words |-> NULL],
              hdr    |-> [g \in Headers |-> NoHeader], \* MEM_POOL_BLOCKS
              made   |-> 0,                            \* of the overhead pool
              free   |-> NULL,                         \* free_mem_pool_blocks_list
              blocks |-> [p \in Pools |-> NULL] ]      \* MEM_POOL_blocks
  /\ frozen = [p \in Pools |-> FALSE]
  /\ obj = [o \in Objects |-> NoObject]
  /\ crashed = FALSE
  /\ program \in Programs

Fill(m, a, n, v) == [x \in Words |-> IF x \in a..(a + n - 1) THEN v ELSE m[x]]
Copy(m, from, to, n) ==
  [x \in Words |-> IF x \in to..(to + n - 1) THEN m[from + (x - to)] ELSE m[x]]

(* The cells from a on along a link, up to stop or to the end. *)
RECURSIVE Chain(_, _, _, _)
Chain(link, a, stop, seen) ==
  IF a \in {NULL, stop} \cup seen THEN seen ELSE Chain(link, link[a], stop, seen \cup {a})

-----------------------------------------------------------------------------
(* malloc, free and realloc. *)

Occupied(h) == UNION {c[1]..(c[1] + c[2] - 1) : c \in h.chunks}
Fits(h, a, n) == a + n - 1 <= Memory /\ a..(a + n - 1) \cap Occupied(h) = {}

(* First fit from one of Starts. *)
Malloc(h, n) ==
  LET room(s) == {a \in s..Memory : Fits(h, a, n)}
  IN  {Min(room(s)) : s \in {t \in Starts : room(t) # {}}}

Freed(h, as) == [h EXCEPT !.chunks = {c \in @ : c[1] \notin as}]
Length(h, a) == (CHOOSE c \in h.chunks : c[1] = a)[2]

(* Where realloc may put the chunk at a: where it is, or elsewhere. *)
ReallocSpots(h, a, n) ==
  Malloc(h, n) \cup (IF Fits(Freed(h, {a}), a, n) THEN {a} ELSE {})

-----------------------------------------------------------------------------
(* Allocation. *)

Top(h, p) == h.hdr[h.blocks[p]]

Allocate_Block(h, p, a) ==
  LET n == BLOCK_SIZE + BLOCK_OVERHEAD
      zeroed == IF bz(p) THEN Fill(h.mem, a, n, Zero) ELSE h.mem
  IN  [h EXCEPT !.chunks = @ \cup {<<a, n>>},
                !.mem = [zeroed EXCEPT ![a] = Rest(Top(h, p).block)],
                !.avail[a] = BLOCK_SIZE,
                !.ptr[a] = a + BLOCK_OVERHEAD,
                !.rest[a] = Top(h, p).block,
                !.hdr[h.blocks[p]].block = a]

Allocate_Large_Block(h, p, size, a) ==
  LET n == size + LARGE_BLOCK_OVERHEAD
      zeroed == IF bz(p) THEN Fill(h.mem, a, n, Zero) ELSE h.mem
      first == Top(h, p).large_block
  IN  [h EXCEPT !.chunks = @ \cup {<<a, n>>},
                !.mem = [zeroed EXCEPT ![a] = Base(h.blocks[p]),
                                       ![a + 1] = Ptr(a + LARGE_BLOCK_OVERHEAD)],
                !.next[a] = first,
                !.prev = [x \in Words |-> CASE x = a -> NULL
                                            [] x = first -> a
                                            [] OTHER -> @[x]],
                !.hdr[h.blocks[p]].large_block = a]

(* The next words of the block on top. *)
Cut(h, p, size) ==
  LET b == Top(h, p).block
  IN  [heap |-> [h EXCEPT !.ptr[b] = @ + size, !.avail[b] = @ - size],
       at |-> h.ptr[b]]

(* The outcomes of Raw_Allocate: the heap and the pointer returned. *)
Raw_Allocate(h, p, size) ==
  LET b == Top(h, p).block IN
  IF size > MIN_LARGE_BLOCK_SIZE
    THEN {[heap |-> Allocate_Large_Block(h, p, size, a), at |-> a + LARGE_BLOCK_OVERHEAD] :
            a \in Malloc(h, size + LARGE_BLOCK_OVERHEAD)}
  ELSE IF b = NULL \/ h.avail[b] < size
    THEN {Cut(Allocate_Block(h, p, a), p, size) :
            a \in Malloc(h, BLOCK_SIZE + BLOCK_OVERHEAD)}
  ELSE {Cut(h, p, size)}

-----------------------------------------------------------------------------
(* Freeing and reallocation. *)

(* The words in front of data look like the header of a large block of the *)
(* level on top of the pool.                                               *)
IsLargeBlock(h, data) == h.mem[data - 1] = Ptr(data)
IsOwnLargeBlock(h, p, data) ==
  /\ IsLargeBlock(h, data)
  /\ h.mem[data - LARGE_BLOCK_OVERHEAD] = Base(h.blocks[p])

MEM_LARGE_BLOCK_zap(h, as) ==
  [h EXCEPT !.mem = [x \in Words |-> IF x \in as \/ x - 1 \in as THEN Zero ELSE @[x]]]

(* Fault: the header is left in memory. *)
FreeUnzapped(h, as) == Freed(h, as)

MEM_LARGE_BLOCK_free(h, as) == Freed(MEM_LARGE_BLOCK_zap(h, as), as)

(* Fault: the block behind is not told. *)
RelinkForward(h, p, a, before, after) ==
  [h EXCEPT !.hdr[h.blocks[p]].large_block = IF h.prev[a] = NULL THEN after ELSE @,
            !.next = [x \in Words |-> IF x = h.prev[a] THEN after ELSE @[x]]]

(* The block in front of the large block a, or the head of the list, is    *)
(* made to refer to after, and the block behind it to before.              *)
Relink(h, p, a, before, after) ==
  [h EXCEPT !.hdr[h.blocks[p]].large_block = IF h.prev[a] = NULL THEN after ELSE @,
            !.next = [x \in Words |-> IF x = h.prev[a] THEN after ELSE @[x]],
            !.prev = [x \in Words |-> IF x = h.next[a] THEN before ELSE @[x]]]

Free(h, p, data) ==
  LET a == data - LARGE_BLOCK_OVERHEAD IN
  IF IsOwnLargeBlock(h, p, data)
    THEN MEM_LARGE_BLOCK_free(Relink(h, p, a, h.prev[a], h.next[a]), {a})
    ELSE h

(* The large block a goes to b, with its contents, and gets the new size.  *)
MEM_LARGE_BLOCK_realloc(h, a, b, old, new) ==
  LET z == MEM_LARGE_BLOCK_zap(h, {a})
      n == Min({old, new}) + LARGE_BLOCK_OVERHEAD
  IN  [z EXCEPT !.chunks = Freed(z, {a}).chunks \cup {<<b, new + LARGE_BLOCK_OVERHEAD>>},
                !.mem = [Copy(@, a, b, n) EXCEPT ![b] = h.mem[a],
                                                 ![b + 1] = Ptr(b + LARGE_BLOCK_OVERHEAD)],
                !.next[b] = h.next[a],
                !.prev[b] = h.prev[a]]

(* Fault: they keep what was in memory. *)
LeaveGrown(h, p, data, old, new) == h

(* The words that a large block has grown by. *)
ClearGrown(h, p, data, old, new) ==
  [h EXCEPT !.mem = IF bz(p) THEN Fill(@, data + old, new - old, Zero) ELSE @]

ReallocLarge(h, p, data, old, new) ==
  {LET at == b + LARGE_BLOCK_OVERHEAD
       h1 == MEM_LARGE_BLOCK_realloc(h, data - LARGE_BLOCK_OVERHEAD, b, old, new)
       h2 == ClearGrown(h1, p, at, old, new)
   IN  [heap |-> Relink(h2, p, b, b, b), at |-> at] :
     b \in ReallocSpots(h, data - LARGE_BLOCK_OVERHEAD, new + LARGE_BLOCK_OVERHEAD)}

(* Raw_Allocate and a copy of the first n words. *)
Copied(h, p, data, n, new) ==
  {[r EXCEPT !.heap.mem = Copy(@, data, r.at, n)] : r \in Raw_Allocate(h, p, new)}

(* The outcomes of MEM_POOL_Realloc_P. *)
Realloc(h, p, data, old, new) ==
  CASE new = old -> {[heap |-> h, at |-> data]}
    [] old <= MIN_LARGE_BLOCK_SIZE /\ new < old -> {[heap |-> h, at |-> data]}
    [] old <= MIN_LARGE_BLOCK_SIZE /\ new > old -> Copied(h, p, data, old, new)
    [] old > MIN_LARGE_BLOCK_SIZE /\ new # old /\ ~ IsOwnLargeBlock(h, p, data) ->
         Copied(h, p, data, Min({old, new}), new)
    [] old > MIN_LARGE_BLOCK_SIZE /\ new <= MIN_LARGE_BLOCK_SIZE
         /\ IsOwnLargeBlock(h, p, data) ->
         {[r EXCEPT !.heap = Free(@, p, data)] : r \in Copied(h, p, data, new, new)}
    [] OTHER -> ReallocLarge(h, p, data, old, new)

(* memset takes the difference of the sizes for a size_t: it wraps when a  *)
(* large block of a zeroing pool shrinks and stays large.                  *)
WildClear(h, p, data, old, new) ==
  /\ bz(p) /\ new < old /\ new > MIN_LARGE_BLOCK_SIZE
  /\ IsOwnLargeBlock(h, p, data)

-----------------------------------------------------------------------------
(* Levels. *)

(* The header that Push takes: of the free list, or a new one. *)
NewHeader(h) == IF h.free = NULL THEN h.made + 1 ELSE h.free

MEM_POOL_Push(h, p) ==
  LET g == NewHeader(h)
      under == h.blocks[p]
      b == IF under = NULL THEN NULL ELSE h.hdr[under].block
  IN  [h EXCEPT !.made = IF h.free = NULL THEN @ + 1 ELSE @,
                !.free = IF h.free = NULL THEN NULL ELSE h.hdr[h.free].rest,
                !.hdr[g] = [block |-> b, large_block |-> NULL, base_block |-> b,
                            base_ptr |-> IF b = NULL THEN NULL ELSE h.ptr[b],
                            base_avail |-> IF b = NULL THEN 0 ELSE h.avail[b],
                            rest |-> under],
                !.blocks[p] = g]

(* Fault: the block before stays full. *)
PopNewBlocks(h, p) ==
  Freed(h, Chain(h.rest, Top(h, p).block, Top(h, p).base_block, {}))

(* The blocks that were allocated at the level on top are freed, and the   *)
(* block that was there before is as full as it was at the push.           *)
PopBlocks(h, p) ==
  LET g == Top(h, p)
      base == g.base_block
      back == [h EXCEPT !.ptr[base] = g.base_ptr, !.avail[base] = g.base_avail,
                        !.mem = IF bz(p) THEN Fill(@, g.base_ptr, g.base_avail, Zero)
                                         ELSE @]
  IN  Freed(IF base = NULL THEN h ELSE back, Chain(h.rest, g.block, base, {}))

PopLargeBlocks(h, p) ==
  MEM_LARGE_BLOCK_free(h, Chain(h.next, Top(h, p).large_block, NULL, {}))

(* The last header of a pool is emptied and stays. *)
PopHeader(h, p) ==
  LET g == h.blocks[p] IN
  IF h.hdr[g].rest = NULL
    THEN [h EXCEPT !.hdr[g] = NoHeader]
    ELSE [h EXCEPT !.blocks[p] = h.hdr[g].rest, !.hdr[g].rest = h.free, !.free = g]

MEM_POOL_Pop(h, p) == PopHeader(PopLargeBlocks(PopBlocks(h, p), p), p)

RECURSIVE PopAll(_, _)
PopAll(h, p) ==
  IF Top(h, p).rest = NULL THEN MEM_POOL_Pop(h, p) ELSE PopAll(MEM_POOL_Pop(h, p), p)

(* Everything is popped, and the last header goes to the free list too. *)
MEM_POOL_Delete(h, p) ==
  LET e == PopAll(h, p)
      g == e.blocks[p]
  IN  [e EXCEPT !.hdr[g].rest = e.free, !.free = g, !.blocks[p] = NULL]

-----------------------------------------------------------------------------
(* The operations. *)

Initialized(p) == heap.blocks[p] # NULL

(* The headers of a pool, from the bottom to the top. *)
RECURSIVE Stack(_, _)
Stack(h, g) == IF g = NULL THEN <<>> ELSE Append(Stack(h, h.hdr[g].rest), g)
Depth(p) == Len(Stack(heap, heap.blocks[p]))

Extent(r) == r.at..(r.at + r.size - 1)

(* An abstraction: what nobody can tell apart any more becomes junk.  Only *)
(* base and ptr of a header stay in memory after a free, as they may be    *)
(* taken for a header again; data that is no part of its object is junk,   *)
(* and zeros are kept where an object is or may be cut from a block.       *)
Forget(h, objs) ==
  LET starts == {c[1] : c \in h.chunks}
      uncut == UNION {h.ptr[b]..(h.ptr[b] + h.avail[b] - 1) : b \in starts}
      used == UNION {Extent(objs[o]) : o \in Objects}
      kept(f) == [a \in Words |-> IF a \in starts THEN f[a] ELSE 0]
      word(a, v) ==
        IF \/ v[1] \in {"base", "ptr"}
           \/ v[1] = "null" /\ a \in uncut \cup used
           \/ v[1] = "data" /\ a \in Extent(objs[v[2]])
           \/ v[1] = "rest" /\ a \in starts
          THEN v ELSE Junk
  IN  [h EXCEPT !.mem = [a \in Words |-> word(a, @[a])],
                !.avail = kept(@), !.ptr = kept(@), !.rest = kept(@),
                !.next = kept(@), !.prev = kept(@)]

Live(o) == obj[o] # NoObject
(* The names that the next object may get. *)
NewObjects ==
  {Min(s) : s \in {{o \in Filled : ~ Live(o)}, {o \in Objects \ Filled : ~ Live(o)}} \ {{}}}

Initialize(p) ==
  /\ ~ Initialized(p)
  /\ heap' = MEM_POOL_Push(heap, p)
  /\ frozen' = [frozen EXCEPT ![p] = FALSE]
  /\ UNCHANGED <<obj, crashed>>

(* A call returns memory for object o. *)
Return(h, o, new) ==
  /\ obj' = [obj EXCEPT ![o] = new]
  /\ heap' = Forget(h, obj')
  /\ UNCHANGED <<frozen, crashed>>

Alloc(p, size) ==
  /\ Initialized(p)
  /\ \E o \in NewObjects, r \in Raw_Allocate(heap, p, size) :
       LET wrote == IF o \in Filled THEN size ELSE 0
       IN  Return([r.heap EXCEPT !.mem = Fill(@, r.at, wrote, Data(o))], o,
                  [pool |-> p, at |-> r.at, size |-> size, level |-> Depth(p),
                   wrote |-> wrote])

(* What is not moved stays at its level, what is moved is of the level on  *)
(* top.                                                                    *)
ReallocObject(o, new) ==
  LET old == obj[o] IN
  /\ Live(o)
  /\ ~ WildClear(heap, old.pool, old.at, old.size, new)
  /\ \E r \in Realloc(heap, old.pool, old.at, old.size, new) :
       Return(r.heap, o,
              [pool |-> old.pool, at |-> r.at, size |-> new,
               level |-> IF r.at = old.at THEN old.level ELSE Depth(old.pool),
               wrote |-> Min({old.wrote, new})])

ReallocCrashes(o, new) ==
  /\ Live(o)
  /\ WildClear(heap, obj[o].pool, obj[o].at, obj[o].size, new)
  /\ crashed' = TRUE
  /\ UNCHANGED <<heap, frozen, obj>>

MEM_POOL_FREE(o) ==
  /\ Live(o)
  /\ obj' = [obj EXCEPT ![o] = NoObject]
  /\ heap' = Forget(Free(heap, obj[o].pool, obj[o].at), obj')
  /\ UNCHANGED <<frozen, crashed>>

Push(p, freeze) ==
  /\ Initialized(p) /\ ~ frozen[p] /\ Depth(p) < MaxLevels
  /\ heap' = MEM_POOL_Push(heap, p)
  /\ frozen' = [frozen EXCEPT ![p] = freeze]
  /\ UNCHANGED <<obj, crashed>>

(* The objects of the level are the user's no more. *)
Pop(p, unfreeze) ==
  /\ Initialized(p) /\ frozen[p] = unfreeze
  /\ frozen' = [frozen EXCEPT ![p] = FALSE]
  /\ obj' = [o \in Objects |-> IF obj[o].pool = p /\ obj[o].level = Depth(p)
                                 THEN NoObject ELSE obj[o]]
  /\ heap' = Forget(MEM_POOL_Pop(heap, p), obj')
  /\ UNCHANGED crashed

Delete(p) ==
  /\ Initialized(p) /\ ~ frozen[p]
  /\ frozen' = [frozen EXCEPT ![p] = FALSE]
  /\ obj' = [o \in Objects |-> IF obj[o].pool = p THEN NoObject ELSE obj[o]]
  /\ heap' = Forget(MEM_POOL_Delete(heap, p), obj')
  /\ UNCHANGED crashed

Operation(call) ==
  \/ \E p \in Pools :
       \/ call = "Initialize" /\ Initialize(p)
       \/ call = "Alloc" /\ \E size \in Sizes : Alloc(p, size)
       \/ call = "Push" /\ \E freeze \in BOOLEAN : Push(p, freeze)
       \/ call = "Pop" /\ \E unfreeze \in BOOLEAN : Pop(p, unfreeze)
       \/ call = "Delete" /\ Delete(p)
  \/ \E o \in Objects :
       \/ call = "FREE" /\ MEM_POOL_FREE(o)
       \/ call = "Realloc" /\ \E new \in Sizes : ReallocObject(o, new) \/ ReallocCrashes(o, new)

Next ==
  /\ ~ crashed /\ program # <<>>
  /\ Operation(Head(program))
  /\ program' = Tail(program)

Spec == Init /\ [][Next]_vars

-----------------------------------------------------------------------------
(* The small objects below word end of the block b and in the blocks       *)
(* behind it.                                                              *)
Small(b, end) ==
  IF b = NULL THEN {}
  ELSE ((b + BLOCK_OVERHEAD)..(end - 1)) \cup
       UNION {(c + BLOCK_OVERHEAD)..(heap.ptr[c] - 1) :
                c \in Chain(heap.rest, heap.rest[b], NULL, {})}

Large(g) ==
  UNION {(a + LARGE_BLOCK_OVERHEAD)..(a + Length(heap, a) - 1) :
           a \in Chain(heap.next, heap.hdr[g].large_block, NULL, {})}

(* The words that each level of a pool holds, read off its headers. *)
HeldBy(p) ==
  LET s == Stack(heap, heap.blocks[p])
      below(l) == Small(heap.hdr[s[l]].base_block, heap.hdr[s[l]].base_ptr)
      upto(l) == LET b == heap.hdr[s[l]].block IN
                 IF l < Len(s) THEN below(l + 1)
                 ELSE Small(b, IF b = NULL THEN NULL ELSE heap.ptr[b])
  IN  [l \in DOMAIN s |-> (upto(l) \ below(l)) \cup Large(s[l])]

Abstract == INSTANCE PoolSpec WITH Cells <- Words, held <- [p \in Pools |-> HeldBy(p)]

(* The pools implement stacks of levels: an allocation hands out words     *)
(* that no level of any pool holds, a push or a pop moves nothing else,    *)
(* and a pop releases the words of its level and no others.                *)
ImplementsStack == Abstract!Spec

(* What a user has allocated is held by the level it was allocated at      *)
(* until that level is popped, wherever Realloc has put it.                *)
LiveIsHeld ==
  \A o \in Objects : Live(o) =>
    Extent(obj[o]) \subseteq HeldBy(obj[o].pool)[obj[o].level]

(* What a user has allocated stays: its level holds it until the level is  *)
(* popped, it keeps what its user wrote through every operation on the     *)
(* pools, and the rest of an object of a zeroing pool reads as zero.       *)
Contents ==
  /\ LiveIsHeld
  /\ \A o \in Objects : Live(o) =>
       \A a \in Extent(obj[o]) :
         IF a < obj[o].at + obj[o].wrote
           THEN heap.mem[a] = Data(o)
           ELSE bz(obj[o].pool) => heap.mem[a] = Zero

(* MEM_POOL_FREE and Realloc tell large objects of the current level from  *)
(* all others by the words in front of them, whatever was in that memory   *)
(* before: the words of a freed large block never pass for a header.       *)
LargeIsTold ==
  \A o \in Objects : Live(o) =>
    (IsOwnLargeBlock(heap, obj[o].pool, obj[o].at) <=>
       obj[o].size > MIN_LARGE_BLOCK_SIZE /\ obj[o].level = Depth(obj[o].pool))

(* Nothing is lost and nothing is listed twice: every malloced chunk is a  *)
(* block or a large block of one pool, the lists of large blocks are       *)
(* linked both ways, and every header is in use by one pool or free.       *)
NothingLost ==
  LET inUse == {<<p, Stack(heap, heap.blocks[p])[l]>> :
                  <<p, l>> \in {<<q, m>> \in Pools \X Headers : m <= Depth(q)}}
      blocksOf(g) == Chain(heap.rest, heap.hdr[g].block, heap.hdr[g].base_block, {})
      largeOf(g) == Chain(heap.next, heap.hdr[g].large_block, NULL, {})
      freeHeaders == Chain([g \in Headers |-> heap.hdr[g].rest], heap.free, NULL, {})
      starts == {c[1] : c \in heap.chunks}
  IN  /\ \A a \in starts :
           Cardinality({<<x, "small">> : x \in {u \in inUse : a \in blocksOf(u[2])}}
                 \cup {<<x, "large">> : x \in {u \in inUse : a \in largeOf(u[2])}}) = 1
      /\ \A u \in inUse :
           /\ blocksOf(u[2]) \cup largeOf(u[2]) \subseteq starts
           /\ \A a \in largeOf(u[2]) :
                IF heap.prev[a] = NULL THEN heap.hdr[u[2]].large_block = a
                                       ELSE heap.next[heap.prev[a]] = a
      /\ Cardinality({u[2] : u \in inUse}) = Cardinality(inUse)
      /\ {u[2] : u \in inUse} \cap freeHeaders = {}
      /\ {u[2] : u \in inUse} \cup freeHeaders = 1..heap.made
=============================================================================
