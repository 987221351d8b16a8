-------------------------------- MODULE Heap --------------------------------
(***************************************************************************)
(* The kernel heap, kernel/mm/heap.c: one doubly linked list of blocks,    *)
(* each a header followed by its payload; kmalloc takes the first fit and  *)
(* splits it, kfree merges a block with its free neighbours.               *)
(*                                                                         *)
(* Addresses and sizes are those of the code in a smaller heap.  `hdr'     *)
(* maps the address of each block of the list to its header; the header of *)
(* a block that coalesce merged into another leaves it.  `live' is a       *)
(* history variable: what each pointer given out and not freed was asked   *)
(* for.  coalesce is its own steps: its loop may merge any number of       *)
(* blocks.                                                                 *)
(***************************************************************************)
EXTENDS Integers, FiniteSets

CONSTANTS
    HeapStart, HeapSize,   \* the arguments of heap_init
    HdrSize,               \* sizeof(block_hdr_t)
    Align,                 \* 8, the alignment of sizes
    MIN_SPLIT,
    SizeMod,               \* 2^(width of size_t)
    Requests,              \* sizes asked of kmalloc, kcalloc and krealloc
    Counts                 \* first arguments of kcalloc

ASSUME HeapAssumption ==
    /\ HeapStart \in Nat \ {0}
    /\ HdrSize \in Nat \ {0}
    /\ HeapSize \in Nat /\ HeapSize > HdrSize
    /\ Align \in Nat \ {0}
    /\ MIN_SPLIT \in Nat
    /\ SizeMod \in Nat /\ SizeMod > HeapSize
    /\ Requests \subseteq Nat
    /\ Counts \subseteq Nat

HeapEnd == HeapStart + HeapSize
NULL == 0

VARIABLES hdr, heap_used, live, freeing, panic

vars == <<hdr, heap_used, live, freeing, panic>>

Blocks == DOMAIN hdr

(* heap_init.                                                              *)
Init ==
    /\ hdr = [b \in {HeapStart} |->
                [size |-> HeapSize - HdrSize, used |-> FALSE,
                 next |-> NULL, prev |-> NULL]]
    /\ heap_used = 0
    /\ live = [p \in {} |-> 0]
    /\ freeing = NULL
    /\ panic = "none"

-----------------------------------------------------------------------------
(* Rounds down.                                                            *)
AlignDown(size) == (size \div Align) * Align

(* ALIGN_UP in size_t: a size close to SizeMod wraps to 0.                 *)
AlignUp(size) == (((size + Align - 1) \div Align) * Align) % SizeMod

(* find_free: the first free block of the list that is large enough.  The  *)
(* list is in address order (ListTilesHeap).                               *)
Fits(h, b, size) == ~ h[b].used /\ h[b].size >= size

IsFirstFit(h, b, size) ==
    /\ Fits(h, b, size)
    /\ \A c \in DOMAIN h : Fits(h, c, size) => b <= c

NoneFits(h, size) == \A b \in DOMAIN h : ~ Fits(h, b, size)

(* Leaves the following block pointing back at the one that was split.     *)
PointBackMissing(h, c, nb) == h[c]

PointBack(h, c, nb) == [h[c] EXCEPT !.prev = nb]

(* split(b, size): the tail of b becomes a free block if it is worth one.  *)
Split(h, b, size) ==
    IF h[b].size < size + HdrSize + MIN_SPLIT THEN h
    ELSE LET nb   == b + HdrSize + size
             rest == [size |-> h[b].size - size - HdrSize, used |-> FALSE,
                      next |-> h[b].next, prev |-> b]
         IN  [c \in DOMAIN h \cup {nb} |->
                CASE c = nb -> rest
                  [] c = b  -> [h[b] EXCEPT !.next = nb, !.size = size]
                  [] c = h[b].next -> PointBack(h, c, nb)
                  [] OTHER  -> h[c]]

(* The headers after kmalloc took block b for size bytes.                  *)
Taken(h, b, size) ==
    LET h1 == Split(h, b, size) IN [h1 EXCEPT ![b].used = TRUE]

Payload(b) == b + HdrSize
Header(p) == p - HdrSize

Live(p) == p \in DOMAIN live
WithLive(l, p, n) == [q \in DOMAIN l \cup {p} |-> IF q = p THEN n ELSE l[q]]
WithoutLive(l, p) == [q \in DOMAIN l \ {p} |-> l[q]]

Ready == freeing = NULL /\ panic = "none"

(* kmalloc, asked for what the caller computed as asked bytes and passed   *)
(* as size.                                                                *)
kmalloc(size, asked) ==
    /\ Ready
    /\ LET s == AlignUp(size)
       IN  \/ size = 0 /\ UNCHANGED vars
           \/ /\ size # 0
              /\ NoneFits(hdr, s)
              /\ panic' = "kmalloc: out of heap memory"
              /\ UNCHANGED <<hdr, heap_used, live, freeing>>
           \/ /\ size # 0
              /\ \E b \in Blocks :
                    /\ IsFirstFit(hdr, b, s)
                    /\ hdr' = Taken(hdr, b, s)
                    /\ live' = WithLive(live, Payload(b), asked)
              /\ heap_used' = (heap_used + s) % SizeMod
              /\ UNCHANGED <<freeing, panic>>

(* kcalloc: the product is computed in size_t.                             *)
kcalloc(n, size) == kmalloc((n * size) % SizeMod, n * size)

(* kfree up to coalesce.                                                   *)
kfree(p) ==
    /\ Ready
    /\ LET b == Header(p)
       IN  \/ /\ ~ hdr[b].used
              /\ panic' = "kfree: double free"
              /\ UNCHANGED <<hdr, heap_used, live, freeing>>
           \/ /\ hdr[b].used
              /\ hdr' = [hdr EXCEPT ![b].used = FALSE]
              /\ heap_used' = (heap_used - hdr[b].size) % SizeMod
              /\ live' = WithoutLive(live, p)
              /\ freeing' = b
              /\ UNCHANGED panic

(* krealloc(p, size) with p and size not 0: keep the block if it is large  *)
(* enough, else kmalloc, copy and kfree.                                   *)
krealloc(p, size) ==
    /\ Ready
    /\ LET b == Header(p)
           s == AlignUp(size)
       IN  \/ /\ hdr[b].size >= size
              /\ live' = [live EXCEPT ![p] = size]
              /\ UNCHANGED <<hdr, heap_used, freeing, panic>>
           \/ /\ hdr[b].size < size
              /\ NoneFits(hdr, s)
              /\ panic' = "kmalloc: out of heap memory"
              /\ UNCHANGED <<hdr, heap_used, live, freeing>>
           \/ /\ hdr[b].size < size
              /\ \E c \in Blocks :
                    /\ IsFirstFit(hdr, c, s)
                    /\ hdr' = [Taken(hdr, c, s) EXCEPT ![b].used = FALSE]
                    /\ live' = WithLive(WithoutLive(live, p), Payload(c), size)
              /\ heap_used' = (heap_used + s - hdr[b].size) % SizeMod
              /\ freeing' = b
              /\ UNCHANGED panic

(* h without block c, which a merge into its neighbour b ends; the block   *)
(* after c points back at b.                                               *)
Merge(h, b, c) ==
    LET n == h[c].next
    IN  [a \in DOMAIN h \ {c} |->
            CASE a = b -> [h[b] EXCEPT !.size = @ + HdrSize + h[c].size, !.next = n]
              [] a = n -> [h[n] EXCEPT !.prev = b]
              [] OTHER -> h[a]]

NextFree(h, b) == h[b].next # NULL /\ ~ h[h[b].next].used
PrevFree(h, b) == h[b].prev # NULL /\ ~ h[h[b].prev].used

(* One turn of coalesce's loop over the blocks after b.                    *)
CoalesceNext ==
    /\ freeing # NULL
    /\ NextFree(hdr, freeing)
    /\ hdr' = Merge(hdr, freeing, hdr[freeing].next)
    /\ UNCHANGED <<heap_used, live, freeing, panic>>

(* Does not look at the block before.                                      *)
MergeBackMissing(h, b) == h

MergeBack(h, b) == IF PrevFree(h, b) THEN Merge(h, h[b].prev, b) ELSE h

(* The rest of coalesce: merge into the block before, if free.             *)
CoalescePrev ==
    /\ freeing # NULL
    /\ ~ NextFree(hdr, freeing)
    /\ hdr' = MergeBack(hdr, freeing)
    /\ freeing' = NULL
    /\ UNCHANGED <<heap_used, live, panic>>

-----------------------------------------------------------------------------
(* A caller frees what it was given, or by mistake a block that is free.   *)
Free == \E p \in {Payload(b) : b \in Blocks} : kfree(p)

Realloc == \E p \in DOMAIN live, size \in Requests \ {0} : krealloc(p, size)

Next ==
    \/ \E size \in Requests : kmalloc(size, size)
    \/ \E n \in Counts, size \in Requests : kcalloc(n, size)
    \/ Free
    \/ Realloc
    \/ CoalesceNext
    \/ CoalescePrev

Spec == Init /\ [][Next]_vars

-----------------------------------------------------------------------------
BlockEnd(b) == b + HdrSize + hdr[b].size

(* The list tiles the heap from end to end: each block stops where the     *)
(* next one starts and the last at the end of the heap, and prev undoes    *)
(* next, whatever was split, merged or reallocated.                        *)
ListTilesHeap ==
    /\ HeapStart \in Blocks /\ hdr[HeapStart].prev = NULL
    /\ \A b \in Blocks :
        IF hdr[b].next = NULL THEN BlockEnd(b) = HeapEnd
        ELSE /\ hdr[b].next \in Blocks
             /\ BlockEnd(b) = hdr[b].next
             /\ hdr[hdr[b].next].prev = b
    /\ \A b \in Blocks \ {HeapStart} :
        hdr[b].prev \in Blocks /\ hdr[hdr[b].prev].next = b

(* What callers hold is theirs: the blocks marked used are exactly those   *)
(* given out, each holds what was asked for, and no two share a byte.      *)
LiveBlocksSound ==
    /\ DOMAIN live = {Payload(b) : b \in {c \in Blocks : hdr[c].used}}
    /\ \A p \in DOMAIN live : hdr[Header(p)].size >= live[p]
    /\ \A p, q \in DOMAIN live : p < q => p + live[p] <= Header(q)

(* Between calls no two neighbouring blocks are both free: coalesce looks  *)
(* only one block back, which is enough as long as it never leaves a pair. *)
NoFreeNeighbours ==
    freeing = NULL =>
        \A b \in Blocks : hdr[b].used \/ ~ NextFree(hdr, b)
=============================================================================
