-------------------------------- MODULE Heap --------------------------------
(***************************************************************************)
(* The memory allocator of the monitor (heap.c): items laid end to end,    *)
(* each a header and a payload, on a free list sorted by address and an    *)
(* unsorted allocated list, both doubly linked through the headers.        *)
(* Programs call malloc and free; bios_exit calls clean_heap for the       *)
(* process that ends.                                                      *)
(*                                                                         *)
(* Memory is a function from addresses to the header last written there,   *)
(* so a header outlives its item, as it does in memory.  Programs never    *)
(* write outside their payloads, and what they write inside them is left   *)
(* out.  Address NULL is low memory: the prev field of a header there is   *)
(* the vector of the illegal instruction exception.                        *)
(*                                                                         *)
(* A step that unlinks an item through a link that does not lead back to   *)
(* it ends the behaviour, with damaged set: everything after it would be   *)
(* accident.                                                               *)
(***************************************************************************)
EXTENDS Integers, FiniteSets

CONSTANTS
  HEAP_SIZE,         \* units from the heap's start to ram_end
  HEADER,            \* sizeof(list_item_t)
  SMALLEST_PAYLOAD,
  Sizes,             \* sizes programs ask for
  Pids               \* processes: the monitor and the user program

NULL   == 0
NOBODY == 0          \* the owner of a free item
VECTOR == -1         \* the handler address the vector holds

ASSUME HeapAssumption ==
  /\ HEADER \in Nat \ {0} /\ SMALLEST_PAYLOAD \in Nat \ {0}
  /\ HEAP_SIZE \in Nat /\ HEAP_SIZE > HEADER
  /\ Sizes \subseteq Nat \ {0} /\ Pids \subseteq Nat \ {0}

HEAP_START == 1
HEAP_END   == HEAP_START + HEAP_SIZE
Addr       == HEAP_START .. HEAP_END - 1

VARIABLES
  heap,     \* [h: headers, free, alloc: list heads, nfree, nalloc: counters]
  held,     \* what the callers hold: a set of [item, size, pid]
  damaged

vars == <<heap, held, damaged>>

Blank == [sig |-> FALSE, size |-> 0, owner |-> NOBODY, next |-> NULL, prev |-> NULL]

\* init_heap: one free item spans the heap.
BiggestPayload == HEAP_SIZE - HEADER
Init ==
  /\ heap = [h |-> [a \in Addr \cup {NULL} |->
                      CASE a = NULL -> [Blank EXCEPT !.prev = VECTOR]
                        [] a = HEAP_START -> [Blank EXCEPT !.sig = TRUE,
                                                           !.size = BiggestPayload]
                        [] OTHER -> Blank],
             free |-> HEAP_START, alloc |-> NULL, nfree |-> 1, nalloc |-> 0]
  /\ held = {}
  /\ damaged = FALSE

End(h, a) == a + HEADER + h[a].size

\* The items along a list, in its order from number 0 on, and NULL behind the last.
Walk(h, head) ==
  LET at[n \in 0 .. HEAP_SIZE] ==
        IF n = 0 THEN head
        ELSE LET cur == at[n - 1] IN IF cur = NULL THEN NULL ELSE h[cur].next
  IN  at

ItemsOf(h, head) == LET at == Walk(h, head) IN {at[n] : n \in 0 .. HEAP_SIZE} \ {NULL}

FreeItemsOf(s)      == ItemsOf(s.h, s.free)
AllocatedItemsOf(s) == ItemsOf(s.h, s.alloc)

Least(S) == CHOOSE i \in S : \A j \in S : i <= j

-----------------------------------------------------------------------------
(* The list operations, as operators from heaps to heaps.                  *)

is_valid_item(h, a) == a # NULL /\ h[a].sig

\* Does the link back from the item lead to where the item is linked from?
LinkedFrom(h, a, head) == IF h[a].prev = NULL THEN head = a ELSE h[h[a].prev].next = a

\* remove_from_list: the headers and the head once item a is unlinked.
Unlink(h, a, head) ==
  LET prev == h[a].prev  next == h[a].next IN
  IF prev = NULL
  THEN [h |-> IF next # NULL THEN [h EXCEPT ![next].prev = NULL] ELSE h,
        head |-> next]
  ELSE LET g == [h EXCEPT ![prev].next = next] IN
       [h |-> IF is_valid_item(g, next) THEN [g EXCEPT ![next].prev = prev] ELSE g,
        head |-> head]

remove_from_free(s, a) ==
  LET u == Unlink(s.h, a, s.free)
  IN [s EXCEPT !.h = u.h, !.free = u.head, !.nfree = @ - 1]

remove_from_allocated(s, a) ==
  LET u == Unlink(s.h, a, s.alloc)
  IN [s EXCEPT !.h = u.h, !.alloc = u.head, !.nalloc = @ - 1]

\* The first item of an empty list is linked behind NULL, into low memory.
insert_in_allocated(s, a) ==
  [s EXCEPT !.h = [@ EXCEPT ![a].prev = NULL, ![a].next = s.alloc, ![s.alloc].prev = a],
            !.alloc = a, !.nalloc = @ + 1]

can_merge(h, first, second) ==
  first # NULL /\ second # NULL /\ End(h, first) = second

SwallowPayload(h, a, b) == [h EXCEPT ![a].size = @ + h[b].size]

\* The headers with the item behind a's, b, added to a.
Swallow(h, a, b) == [h EXCEPT ![a].size = @ + HEADER + h[b].size]

\* The headers with b as the item after a on the free list, linked both ways.
Link(h, a, b) ==
  LET g == [h EXCEPT ![a].next = b]
  IN IF b = NULL THEN g ELSE [g EXCEPT ![b].prev = a]

-----------------------------------------------------------------------------
(* free_item.                                                              *)

FreeAtHead(s, a) ==
  IF can_merge(s.h, a, s.free)
  THEN [s EXCEPT !.h = Link(Swallow(s.h, a, s.free), a, s.h[s.free].next), !.free = a]
  ELSE [s EXCEPT !.h = Link(s.h, a, s.free), !.free = a, !.nfree = @ + 1]

\* The item is freed between cur and its successor.
FreeBetween(s, a, cur) ==
  LET next == s.h[cur].next IN
  IF can_merge(s.h, cur, a)
  THEN LET h == Swallow(s.h, cur, a) IN
       IF can_merge(h, cur, next)
       THEN [s EXCEPT !.h = Link(Swallow(h, cur, next), cur, h[next].next),
                      !.nfree = @ - 1]
       ELSE [s EXCEPT !.h = h]
  ELSE IF can_merge(s.h, a, next)
  THEN [s EXCEPT !.h = Link(Link(Swallow(s.h, a, next), a, s.h[next].next), cur, a)]
  ELSE [s EXCEPT !.h = Link(Link(s.h, a, next), cur, a), !.nfree = @ + 1]

\* Behind the whole list: never merged.
FreeAtTail(s, a, last) ==
  [s EXCEPT !.h = Link(s.h, last, a), !.nfree = @ + 1]

DetachOwned(s, a) ==
  LET r == remove_from_allocated(s, a)
  IN [r EXCEPT !.h = [@ EXCEPT ![a].next = NULL, ![a].prev = NULL]]

\* The item off the allocated list, its fields cleared.
Detach(s, a) ==
  LET r == remove_from_allocated(s, a)
  IN [r EXCEPT !.h = [@ EXCEPT ![a].next = NULL, ![a].prev = NULL, ![a].owner = NOBODY]]

free_item(s, a) ==
  LET t   == Detach(s, a)
      at  == Walk(t.h, t.free)
      gap == {i \in 0 .. HEAP_SIZE - 1 : at[i] < a /\ a < at[i + 1]}
      end == {i \in 0 .. HEAP_SIZE - 1 : at[i] # NULL /\ at[i + 1] = NULL}
  IN  IF t.free = NULL \/ a < t.free THEN FreeAtHead(t, a)
      ELSE IF gap # {} THEN FreeBetween(t, a, at[Least(gap)])
      ELSE FreeAtTail(t, a, at[Least(end)])

\* bios_free returns without effect unless the item is the caller's.
Frees(s, a, pid) == is_valid_item(s.h, a) /\ s.h[a].owner = pid

bios_free(s, a, pid) == IF Frees(s, a, pid) THEN free_item(s, a) ELSE s

-----------------------------------------------------------------------------
(* bios_malloc.                                                            *)

RoomForPayload(h, a, n) == h[a].size >= n

\* The item is split when the surplus can hold a header and a payload.
RoomToSplit(h, a, n) == h[a].size >= n + HEADER + SMALLEST_PAYLOAD

SplitUncounted(s, a, n) ==
  LET b == a + n + HEADER IN
  [s EXCEPT !.h = [@ EXCEPT ![b] = [sig |-> TRUE, size |-> s.h[a].size - n - HEADER,
                                    owner |-> NOBODY, next |-> s.h[a].next, prev |-> a],
                            ![a].size = n, ![a].next = b]]

\* The surplus follows a on the free list; only its own links are set.
Split(s, a, n) ==
  LET b == a + n + HEADER IN
  [s EXCEPT !.h = [@ EXCEPT ![b] = [sig |-> TRUE, size |-> s.h[a].size - n - HEADER,
                                    owner |-> NOBODY, next |-> s.h[a].next, prev |-> a],
                            ![a].size = n, ![a].next = b],
            !.nfree = @ + 1]

FirstFitLoose(s, n) ==
  LET at   == Walk(s.h, s.free)
      fits == {i \in 0 .. HEAP_SIZE : at[i] # NULL /\ s.h[at[i]].size + HEADER >= n}
  IN  IF n > BiggestPayload \/ fits = {} THEN NULL ELSE at[Least(fits)]

\* The first item of the free list that is big enough; NULL if there is none.
FirstFit(s, n) ==
  LET at   == Walk(s.h, s.free)
      fits == {i \in 0 .. HEAP_SIZE : at[i] # NULL /\ s.h[at[i]].size >= n}
  IN  IF n > BiggestPayload \/ fits = {} THEN NULL ELSE at[Least(fits)]

\* The heap with item a handed to pid, split if there is room.
Allocate(s, a, n, pid) ==
  LET t == [s EXCEPT !.h = [@ EXCEPT ![a].owner = pid]]
      u == IF RoomToSplit(t.h, a, n) THEN Split(t, a, n) ELSE t
  IN insert_in_allocated(remove_from_free(u, a), a)

Malloc(n, pid) ==
  LET a == FirstFit(heap, n) IN
  /\ ~damaged
  /\ a # NULL
  /\ heap' = Allocate(heap, a, n, pid)
  /\ damaged' = ~LinkedFrom(heap.h, a, heap.free)
  /\ held' = held \cup {[item |-> a, size |-> n, pid |-> pid]}

\* pid frees the item at address a, its own or not, live or not.
Free(a, pid) ==
  /\ ~damaged
  /\ heap' = bios_free(heap, a, pid)
  /\ damaged' = (Frees(heap, a, pid) /\ ~LinkedFrom(heap.h, a, heap.alloc))
  /\ held' = {x \in held : ~(x.item = a /\ x.pid = pid)}

\* Where clean_heap is, pass by pass: the heap and the item it comes to.  The next item is read
\* before the item is freed.
Clean(s, pid) ==
  LET at[n \in 0 .. HEAP_SIZE] ==
        IF n = 0 THEN [s |-> s, item |-> s.alloc]
        ELSE LET cur == at[n - 1] IN
             IF cur.item = NULL THEN cur
             ELSE [s |-> bios_free(cur.s, cur.item, pid), item |-> cur.s.h[cur.item].next]
  IN  at

CleanLate(s, pid) ==
  LET at[n \in 0 .. HEAP_SIZE] ==
        IF n = 0 THEN [s |-> s, item |-> s.alloc]
        ELSE LET cur == at[n - 1]
                 t   == bios_free(cur.s, cur.item, pid)
             IN  IF cur.item = NULL THEN cur ELSE [s |-> t, item |-> t.h[cur.item].next]
  IN  at

clean_heap_late(s, pid) == CleanLate(s, pid)[HEAP_SIZE].s

clean_heap(s, pid) == Clean(s, pid)[HEAP_SIZE].s

Exit(pid) ==
  /\ ~damaged
  /\ heap' = clean_heap(heap, pid)
  /\ held' = {x \in held : x.pid # pid}
  /\ UNCHANGED damaged

Next ==
  \/ \E n \in Sizes, pid \in Pids : Malloc(n, pid)
  \/ \E a \in Addr, pid \in Pids : Free(a, pid)
  \/ \E pid \in Pids : Exit(pid)

Spec == Init /\ [][Next]_vars

-----------------------------------------------------------------------------
(* Correctness.                                                            *)

FreeItems == FreeItemsOf(heap)
AllocatedItems == AllocatedItemsOf(heap)

Header == [sig: BOOLEAN, size: 0 .. HEAP_SIZE, owner: Pids \cup {NOBODY},
           next: Addr \cup {NULL}, prev: Addr \cup {NULL, VECTOR}]

TypeOK ==
  /\ heap.h \in [Addr \cup {NULL} -> Header]
  /\ heap.free \in Addr \cup {NULL} /\ heap.alloc \in Addr \cup {NULL}
  /\ heap.nfree \in 0 .. HEAP_SIZE /\ heap.nalloc \in 0 .. HEAP_SIZE
  /\ held \subseteq [item: Addr, size: Sizes, pid: Pids]
  /\ damaged \in BOOLEAN

(***************************************************************************)
(* Until an item is unlinked through a stale link, the items of the two    *)
(* lists tile the heap: every unit belongs to exactly one item of one      *)
(* list, so no two callers share memory and none is lost.  The counters    *)
(* are the lengths of the lists, through every way free_item merges items. *)
(***************************************************************************)
Tiling ==
  ~damaged =>
    LET items == FreeItems \cup AllocatedItems IN
    /\ FreeItems \cap AllocatedItems = {}
    /\ HEAP_START \in items
    /\ \A a \in items : End(heap.h, a) \in items \cup {HEAP_END}
    /\ \A a, b \in items : ~(a < b /\ b < End(heap.h, a))
    /\ heap.nfree = Cardinality(FreeItems) /\ heap.nalloc = Cardinality(AllocatedItems)

(***************************************************************************)
(* The allocated items are those the callers hold, each with its owner and *)
(* at least the size asked for.                                            *)
(***************************************************************************)
CallersServed ==
  ~damaged =>
    /\ AllocatedItems = {x.item : x \in held}
    /\ Cardinality(AllocatedItems) = Cardinality(held)
    /\ \A x \in held : /\ heap.h[x.item].owner = x.pid
                       /\ heap.h[x.item].size >= x.size

\* The free list is sorted by address, and all its items are free.
SoundFreeList(s) ==
  LET at == Walk(s.h, s.free) IN
  \A i \in 0 .. HEAP_SIZE : at[i] # NULL =>
    /\ s.h[at[i]].owner = NOBODY
    /\ \A j \in 0 .. i - 1 : at[j] < at[i]

(***************************************************************************)
(* "Unlike the free list, the allocated list does not need to be sorted"   *)
(* (heap.c 153-155): the free list is sorted and holds free items.         *)
(***************************************************************************)
FreeListSound == SoundFreeList(heap)

(***************************************************************************)
(* bios_free acts on exactly what its caller holds.  The owner field,      *)
(* cleared by free_item, outlives the merging of items, so a second free   *)
(* of a pointer is caught even once its header lies inside another item,   *)
(* and so is a free of another process's memory (heap.c 288-298).          *)
(***************************************************************************)
FreesWhatIsHeld ==
  ~damaged =>
    \A a \in Addr, pid \in Pids :
      Frees(heap, a, pid) <=> \E x \in held : x.item = a /\ x.pid = pid

(***************************************************************************)
(* Were a process to end now, its items would all be reclaimed and nobody  *)
(* else's would (clean_heap, called by bios_exit).                         *)
(***************************************************************************)
ExitReclaims ==
  ~damaged =>
    \A pid \in Pids :
      AllocatedItemsOf(clean_heap(heap, pid))
        = {a \in AllocatedItems : heap.h[a].owner # pid}
=============================================================================
