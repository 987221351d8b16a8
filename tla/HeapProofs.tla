----------------------------- MODULE HeapProofs -----------------------------
(***************************************************************************)
(* Proofs about the heap of Heap.tla, for every heap size, alignment and   *)
(* set of requests.                                                        *)
(***************************************************************************)
EXTENDS Heap, TLAPS

Headers == [size : Nat, used : BOOLEAN, next : Nat, prev : Nat]

End(h, b) == b + HdrSize + h[b].size

(* The blocks do not overlap.                                              *)
Disjoint(h) == \A b, c \in DOMAIN h : b < c => End(h, b) <= c

(* ListTilesHeap of any headers.                                           *)
Tiles(h) ==
    /\ HeapStart \in DOMAIN h /\ h[HeapStart].prev = NULL
    /\ \A b \in DOMAIN h :
        IF h[b].next = NULL THEN End(h, b) = HeapEnd
        ELSE /\ h[b].next \in DOMAIN h
             /\ End(h, b) = h[b].next
             /\ h[h[b].next].prev = b
    /\ \A b \in DOMAIN h \ {HeapStart} :
        h[b].prev \in DOMAIN h /\ h[h[b].prev].next = b

WellFormed(h) ==
    /\ DOMAIN h \subseteq Nat \ {0}
    /\ h \in [DOMAIN h -> Headers]
    /\ Disjoint(h)
    /\ Tiles(h)

(* Two free blocks in a row are the block coalesce is working on and one   *)
(* of its neighbours.                                                      *)
PairsOnlyAt(h, f) ==
    \A b \in DOMAIN h :
        h[b].next # NULL /\ ~ h[b].used /\ ~ h[h[b].next].used => f \in {b, h[b].next}

-----------------------------------------------------------------------------
(* What the operations on the list preserve.                               *)

(* Setting or clearing `used' moves nothing.                               *)
LEMMA MarkWellFormed ==
  ASSUME NEW h, WellFormed(h), NEW b \in DOMAIN h, NEW u \in BOOLEAN
  PROVE  WellFormed([h EXCEPT ![b].used = u])
  <1> DEFINE g == [h EXCEPT ![b].used = u]
  <1>1. DOMAIN g = DOMAIN h /\ g \in [DOMAIN g -> Headers]
      BY DEF WellFormed, Headers
  <1>2. \A c \in DOMAIN h : g[c].size = h[c].size /\ g[c].next = h[c].next /\ g[c].prev = h[c].prev
      BY DEF WellFormed, Headers
  <1> HIDE DEF g
  <1>3. Disjoint(g)
      BY <1>1, <1>2 DEF WellFormed, Disjoint, End
  <1>4. Tiles(g)
      BY <1>1, <1>2 DEF WellFormed, Tiles, End
  <1>5. WellFormed(g)
      BY <1>1, <1>3, <1>4 DEF WellFormed
  <1> QED
      BY <1>5 DEF g

(* A block ends before the next one starts, and lies before it.            *)
LEMMA NextAfter ==
  ASSUME NEW h, WellFormed(h), NEW b \in DOMAIN h, h[b].next # NULL
  PROVE  /\ h[b].next \in DOMAIN h /\ h[b].next > b
         /\ h[b].next = End(h, b) /\ h[h[b].next].prev = b
         /\ h[b].next # HeapStart
  BY HeapAssumption DEF WellFormed, Tiles, End, Headers, NULL

(* split either leaves the list alone or cuts the block in two.            *)
LEMMA SplitWellFormed ==
  ASSUME NEW h, WellFormed(h), NEW b \in DOMAIN h, NEW s \in Nat, h[b].size >= s,
         h[b].size >= s + HdrSize + MIN_SPLIT,
         NEW g, g = Split(h, b, s), NEW nb, nb = b + HdrSize + s
  PROVE  /\ WellFormed(g)
         /\ nb \notin DOMAIN h /\ DOMAIN g = DOMAIN h \cup {nb}
         /\ g[b].next = nb /\ g[b].used = h[b].used /\ g[b].size = s
         /\ g[nb].next = h[b].next /\ ~ g[nb].used
         /\ \A c \in DOMAIN h \ {b} : /\ g[c].used = h[c].used
                                     /\ g[c].size = h[c].size
                                     /\ g[c].next = h[c].next
  <1> DEFINE n == h[b].next
  <1>0. HdrSize \in Nat \ {0} /\ MIN_SPLIT \in Nat /\ b \in Nat \ {0} /\ h[b] \in Headers
      BY HeapAssumption DEF WellFormed
  <1>1. nb \in Nat \ {0} /\ nb > b /\ nb < End(h, b) /\ nb \notin DOMAIN h
      BY <1>0 DEF WellFormed, Disjoint, End, Headers
  <1>1a. n # b /\ n # nb
      BY <1>0, <1>1, NextAfter DEF NULL
  <1> DEFINE rest == [size |-> h[b].size - s - HdrSize, used |-> FALSE, next |-> n, prev |-> b]
  <1>1b. g = [c \in DOMAIN h \cup {nb} |->
                CASE c = nb -> rest
                  [] c = b  -> [h[b] EXCEPT !.next = nb, !.size = s]
                  [] c = n  -> PointBack(h, c, nb)
                  [] OTHER  -> h[c]]
    <2>1. ~ (h[b].size < s + HdrSize + MIN_SPLIT)
        BY <1>0 DEF Headers
    <2> QED
        BY <2>1 DEF Split
  <1>2. /\ DOMAIN g = DOMAIN h \cup {nb} /\ g = [c \in DOMAIN g |-> g[c]]
        /\ g[nb] = rest
        /\ g[b] = [h[b] EXCEPT !.next = nb, !.size = s]
        /\ \A c \in DOMAIN h \ {b} : g[c] = IF c = n THEN [h[c] EXCEPT !.prev = nb] ELSE h[c]
    <2> HIDE DEF rest, n
    <2>1. DOMAIN g = DOMAIN h \cup {nb} /\ g = [c \in DOMAIN g |-> g[c]]
        BY <1>1b
    <2>2. g[nb] = rest
        BY <1>1, <1>1a, <1>1b
    <2>3. g[b] = [h[b] EXCEPT !.next = nb, !.size = s]
        BY <1>1, <1>1a, <1>1b
    <2>4. ASSUME NEW c \in DOMAIN h \ {b}
          PROVE  g[c] = IF c = n THEN [h[c] EXCEPT !.prev = nb] ELSE h[c]
        BY <1>1, <1>1a, <1>1b, <2>4 DEF PointBack
    <2> QED
        BY <2>1, <2>2, <2>3, <2>4
  <1>3. g[nb] \in Headers /\ g[b] \in Headers /\ \A c \in DOMAIN h \ {b} : g[c] \in Headers
    <2>1. h[b].size - s - HdrSize \in Nat
        BY <1>0 DEF Headers
    <2>2. g[nb] \in Headers
        BY <1>0, <1>2, <2>1 DEF Headers
    <2>3. g[b] \in Headers
        BY <1>0, <1>1, <1>2 DEF Headers
    <2>4. ASSUME NEW c \in DOMAIN h \ {b} PROVE g[c] \in Headers
      <3>1. h[c] \in Headers
          BY DEF WellFormed
      <3> QED
          BY <1>1, <1>2, <3>1 DEF Headers
    <2> QED
        BY <2>2, <2>3, <2>4
  <1>4. /\ g[b].size = s /\ g[b].next = nb /\ g[b].used = h[b].used /\ g[b].prev = h[b].prev
        /\ g[nb].size = h[b].size - s - HdrSize /\ g[nb].next = n /\ g[nb].prev = b /\ ~ g[nb].used
        /\ \A c \in DOMAIN h \ {b} :
             /\ g[c].size = h[c].size /\ g[c].next = h[c].next /\ g[c].used = h[c].used
             /\ g[c].prev = IF c = n THEN nb ELSE h[c].prev
      BY <1>0, <1>2 DEF WellFormed, Headers
  <1>5. End(g, b) = nb /\ End(g, nb) = End(h, b) /\ \A c \in DOMAIN h \ {b} : End(g, c) = End(h, c)
      BY <1>0, <1>4 DEF End, Headers
  <1>6. g \in [DOMAIN g -> Headers] /\ DOMAIN g \subseteq Nat \ {0}
      BY <1>1, <1>2, <1>3 DEF WellFormed
  <1>7. Disjoint(g)
    <2> SUFFICES ASSUME NEW c \in DOMAIN g, NEW d \in DOMAIN g, c < d PROVE End(g, c) <= d
        BY DEF Disjoint
    <2>1. c \in Nat /\ d \in Nat /\ End(h, b) \in Nat
        BY <1>0, <1>6 DEF End, Headers
    <2>2. CASE c = b
      <3>1. d = nb \/ d \in DOMAIN h
          BY <1>2
      <3> QED
          BY <1>1, <1>5, <2>1, <2>2, <3>1 DEF WellFormed, Disjoint
    <2>3. CASE c = nb
      <3>1. d \in DOMAIN h /\ b < d
          BY <1>0, <1>1, <1>2, <2>1, <2>3
      <3> QED
          BY <1>5, <2>3, <3>1 DEF WellFormed, Disjoint
    <2>4. CASE c \in DOMAIN h \ {b} /\ d \in DOMAIN h
        BY <1>5, <2>4 DEF WellFormed, Disjoint
    <2>5. CASE c \in DOMAIN h \ {b} /\ d = nb
      <3>1. End(h, c) \in Nat
          BY <1>0, <2>5 DEF WellFormed, End, Headers
      <3>2. c < b => End(h, c) <= b
          BY <2>5 DEF WellFormed, Disjoint
      <3>3. b < c => End(h, b) <= c
          BY <2>5 DEF WellFormed, Disjoint
      <3> QED
          BY <1>0, <1>1, <1>5, <2>1, <2>5, <3>1, <3>2, <3>3
    <2> QED
        BY <1>2, <2>2, <2>3, <2>4, <2>5
  <1>8. Tiles(g)
    <2>0. n # NULL => n \in DOMAIN h /\ n > b /\ n = End(h, b) /\ h[n].prev = b /\ n # HeapStart
        BY NextAfter
    <2>1. HeapStart \in DOMAIN g /\ g[HeapStart].prev = NULL
      <3>1. HeapStart \in DOMAIN h /\ h[HeapStart].prev = NULL /\ HeapStart # NULL
          BY DEF WellFormed, Tiles, NULL
      <3>2. n # HeapStart
          BY <2>0, <3>1
      <3>3. CASE HeapStart = b
          BY <1>2, <1>4, <3>1, <3>3
      <3>4. CASE HeapStart # b
          BY <1>2, <3>1, <3>2, <3>4, Zenon
      <3> QED
          BY <3>3, <3>4
    <2>2. ASSUME NEW c \in DOMAIN g
          PROVE  IF g[c].next = NULL THEN End(g, c) = HeapEnd
                 ELSE /\ g[c].next \in DOMAIN g
                      /\ End(g, c) = g[c].next
                      /\ g[g[c].next].prev = c
      <3>1. CASE c = b
          BY <1>1, <1>2, <1>4, <1>5, <3>1 DEF NULL
      <3>2. CASE c = nb
        <4>1. n = NULL => End(h, b) = HeapEnd
            BY DEF WellFormed, Tiles
        <4>2. n # NULL => n \in DOMAIN h \ {b} /\ n = End(h, b)
            BY <1>0, <2>0
        <4> QED
            BY <1>2, <1>4, <1>5, <3>2, <4>1, <4>2
      <3>3. CASE c \in DOMAIN h \ {b}
        <4>1. g[c].next = h[c].next /\ End(g, c) = End(h, c)
            BY <1>4, <1>5, <3>3
        <4>2. h[c].next = NULL => End(h, c) = HeapEnd
            BY <3>3 DEF WellFormed, Tiles
        <4>3. h[c].next # NULL => /\ h[c].next \in DOMAIN h /\ End(h, c) = h[c].next
                                  /\ h[h[c].next].prev = c
            BY <3>3 DEF WellFormed, Tiles
        <4>4. h[c].next # NULL => h[c].next # n
            BY <2>0, <3>3, <4>3
        <4>5. h[c].next # NULL => g[h[c].next].prev = c
            BY <1>4, <4>3, <4>4
        <4> QED
            BY <1>2, <4>1, <4>2, <4>3, <4>5
      <3> QED
          BY <1>2, <3>1, <3>2, <3>3
    <2>3. ASSUME NEW c \in DOMAIN g \ {HeapStart}
          PROVE  g[c].prev \in DOMAIN g /\ g[g[c].prev].next = c
      <3>1. CASE c = nb
          BY <1>2, <1>4, <3>1
      <3>2. CASE c \in DOMAIN h
        <4>1. h[c].prev \in DOMAIN h /\ h[h[c].prev].next = c
            BY <3>2 DEF WellFormed, Tiles
        <4>2. CASE c = n /\ c # b
            BY <1>2, <1>4, <3>2, <4>2
        <4>3. CASE c # n \/ c = b
          <5>1. g[c].prev = h[c].prev
              BY <1>4, <3>2, <4>3
          <5>2. h[c].prev # b
            <6>1. c # n
                BY <1>0, <2>0, <3>2, <4>3 DEF WellFormed, NULL
            <6> QED
                BY <4>1, <6>1
          <5> QED
              BY <1>2, <1>4, <4>1, <5>1, <5>2
        <4> QED
            BY <4>2, <4>3
      <3> QED
          BY <1>2, <3>1, <3>2
    <2> QED
        BY <2>1, <2>2, <2>3 DEF Tiles
  <1>9. WellFormed(g)
      BY <1>6, <1>7, <1>8 DEF WellFormed
  <1> QED
      BY <1>1, <1>2, <1>4, <1>9

(* Merging a block into the one before it removes one header and leaves    *)
(* the others tiling the heap.                                             *)
LEMMA MergeWellFormed ==
  ASSUME NEW h, WellFormed(h), NEW b \in DOMAIN h, NEW c, c = h[b].next, c # NULL,
         NEW g, g = Merge(h, b, c)
  PROVE  /\ WellFormed(g)
         /\ c \in DOMAIN h /\ c > b /\ DOMAIN g = DOMAIN h \ {c}
         /\ g[b].next = h[c].next /\ g[b].used = h[b].used /\ g[b].size >= h[b].size
         /\ \A d \in DOMAIN g \ {b} : /\ g[d].used = h[d].used
                                     /\ g[d].size = h[d].size
                                     /\ g[d].next = h[d].next
  <1> DEFINE n == h[c].next
  <1>0. /\ HdrSize \in Nat \ {0} /\ b \in Nat \ {0} /\ h[b] \in Headers
        /\ c \in DOMAIN h /\ c \in Nat /\ c > b /\ c = End(h, b) /\ h[c].prev = b
        /\ c # HeapStart /\ h[c] \in Headers
      BY HeapAssumption, NextAfter DEF WellFormed
  <1>1. n # NULL => /\ n \in DOMAIN h /\ n \in Nat /\ n > c /\ n = End(h, c) /\ h[n].prev = c
                    /\ n # HeapStart
      BY <1>0, NextAfter DEF WellFormed
  <1>2. n # b /\ n # c
      BY <1>0, <1>1 DEF NULL
  <1>3. g = [a \in DOMAIN h \ {c} |->
               CASE a = b -> [h[b] EXCEPT !.size = @ + HdrSize + h[c].size, !.next = n]
                 [] a = n -> [h[n] EXCEPT !.prev = b]
                 [] OTHER -> h[a]]
      BY DEF Merge
  <1>4. c # b
      BY <1>0
  <1>5. /\ DOMAIN g = DOMAIN h \ {c} /\ g = [a \in DOMAIN g |-> g[a]]
        /\ g[b] = [h[b] EXCEPT !.size = h[b].size + HdrSize + h[c].size, !.next = n]
        /\ \A a \in DOMAIN g \ {b} : g[a] = IF a = n THEN [h[a] EXCEPT !.prev = b] ELSE h[a]
    <2> HIDE DEF n
    <2>1. DOMAIN g = DOMAIN h \ {c} /\ g = [a \in DOMAIN g |-> g[a]]
        BY <1>3
    <2>2. g[b] = [h[b] EXCEPT !.size = h[b].size + HdrSize + h[c].size, !.next = n]
        BY <1>2, <1>3, <1>4
    <2>3. ASSUME NEW a \in DOMAIN g \ {b}
          PROVE  g[a] = IF a = n THEN [h[a] EXCEPT !.prev = b] ELSE h[a]
        BY <1>2, <1>3, <2>1, <2>3
    <2> QED
        BY <2>1, <2>2, <2>3
  <1>6. g[b] \in Headers
    <2>1. h[b].size + HdrSize + h[c].size \in Nat /\ n \in Nat
        BY <1>0 DEF Headers
    <2> QED
        BY <1>0, <1>5, <2>1 DEF Headers
  <1>7. ASSUME NEW a \in DOMAIN g \ {b} PROVE g[a] \in Headers
    <2>1. h[a] \in Headers
        BY <1>5 DEF WellFormed
    <2> QED
        BY <1>0, <1>5, <2>1 DEF Headers
  <1>8. g \in [DOMAIN g -> Headers] /\ DOMAIN g \subseteq Nat \ {0}
      BY <1>5, <1>6, <1>7 DEF WellFormed
  <1>9. /\ g[b].size = h[b].size + HdrSize + h[c].size /\ g[b].next = n
        /\ g[b].used = h[b].used /\ g[b].prev = h[b].prev
        /\ \A a \in DOMAIN g \ {b} :
             /\ g[a].size = h[a].size /\ g[a].next = h[a].next /\ g[a].used = h[a].used
             /\ g[a].prev = IF a = n THEN b ELSE h[a].prev
    <2>1. /\ g[b].size = h[b].size + HdrSize + h[c].size /\ g[b].next = n
          /\ g[b].used = h[b].used /\ g[b].prev = h[b].prev
        BY <1>0, <1>5 DEF Headers
    <2>2. ASSUME NEW a \in DOMAIN g \ {b}
          PROVE  /\ g[a].size = h[a].size /\ g[a].next = h[a].next /\ g[a].used = h[a].used
                 /\ g[a].prev = IF a = n THEN b ELSE h[a].prev
      <3>1. h[a] \in Headers /\ g[a] = IF a = n THEN [h[a] EXCEPT !.prev = b] ELSE h[a]
          BY <1>5 DEF WellFormed
      <3> QED
          BY <3>1 DEF Headers
    <2> QED
        BY <2>1, <2>2
  <1>10. End(g, b) = End(h, c) /\ \A a \in DOMAIN g \ {b} : End(g, a) = End(h, a)
      BY <1>0, <1>9 DEF End, Headers
  <1>11. Disjoint(g)
    <2> SUFFICES ASSUME NEW a \in DOMAIN g, NEW d \in DOMAIN g, a < d PROVE End(g, a) <= d
        BY DEF Disjoint
    <2>1. CASE a = b
      <3>1. d \in DOMAIN h /\ d \in Nat /\ d # c /\ End(h, b) <= d
          BY <1>5, <2>1 DEF WellFormed, Disjoint
      <3>2. c < d
          BY <1>0, <3>1
      <3> QED
          BY <1>0, <1>10, <2>1, <3>1, <3>2 DEF WellFormed, Disjoint
    <2>2. CASE a # b
        BY <1>5, <1>10, <2>2 DEF WellFormed, Disjoint
    <2> QED
        BY <2>1, <2>2
  <1>12. Tiles(g)
    <2>1. HeapStart \in DOMAIN g /\ g[HeapStart].prev = NULL
        BY <1>0, <1>1, <1>5, <1>9 DEF WellFormed, Tiles, NULL
    <2>2. ASSUME NEW a \in DOMAIN g
          PROVE  IF g[a].next = NULL THEN End(g, a) = HeapEnd
                 ELSE /\ g[a].next \in DOMAIN g
                      /\ End(g, a) = g[a].next
                      /\ g[g[a].next].prev = a
      <3>1. CASE a = b
        <4>1. n = NULL => End(h, c) = HeapEnd
            BY <1>0 DEF WellFormed, Tiles
        <4>2. n # NULL => n \in DOMAIN g \ {b}
            BY <1>1, <1>2, <1>5
        <4> QED
            BY <1>1, <1>9, <1>10, <3>1, <4>1, <4>2
      <3>2. CASE a # b
        <4>1. a \in DOMAIN h /\ a # c /\ g[a].next = h[a].next /\ End(g, a) = End(h, a)
            BY <1>5, <1>9, <1>10, <3>2
        <4>2. h[a].next = NULL => End(h, a) = HeapEnd
            BY <4>1 DEF WellFormed, Tiles
        <4>3. h[a].next # NULL => /\ h[a].next \in DOMAIN h /\ End(h, a) = h[a].next
                                  /\ h[h[a].next].prev = a
            BY <4>1 DEF WellFormed, Tiles
        <4>4. h[a].next # NULL => h[a].next # n /\ h[a].next # c
            BY <1>0, <1>1, <3>2, <4>1, <4>3
        <4>5. h[a].next # NULL => g[h[a].next].prev = a
          <5> SUFFICES ASSUME h[a].next # NULL PROVE g[h[a].next].prev = a
              OBVIOUS
          <5>1. h[a].next \in DOMAIN g /\ h[a].next # n /\ h[h[a].next].prev = a
              BY <1>5, <4>3, <4>4
          <5>2. CASE h[a].next = b
              BY <1>9, <5>1, <5>2
          <5>3. CASE h[a].next # b
              BY <1>9, <5>1, <5>3
          <5> QED
              BY <5>2, <5>3
        <4> QED
            BY <1>5, <4>1, <4>2, <4>3, <4>4, <4>5
      <3> QED
          BY <3>1, <3>2
    <2>3. ASSUME NEW a \in DOMAIN g \ {HeapStart}
          PROVE  g[a].prev \in DOMAIN g /\ g[g[a].prev].next = a
      <3>1. a \in DOMAIN h /\ a # c /\ h[a].prev \in DOMAIN h /\ h[h[a].prev].next = a
          BY <1>5 DEF WellFormed, Tiles
      <3>2. CASE a = n
          BY <1>0, <1>2, <1>4, <1>5, <1>9, <3>2
      <3>3. CASE a # n
        <4>1. g[a].prev = h[a].prev /\ h[a].prev # c /\ h[a].prev # b
            BY <1>9, <3>1, <3>3
        <4> QED
            BY <1>5, <1>9, <3>1, <4>1
      <3> QED
          BY <3>2, <3>3
    <2> QED
        BY <2>1, <2>2, <2>3 DEF Tiles
  <1>13. WellFormed(g)
      BY <1>8, <1>11, <1>12 DEF WellFormed
  <1>14. g[b].size >= h[b].size
      BY <1>0, <1>9 DEF Headers
  <1> QED
      BY <1>0, <1>5, <1>9, <1>13, <1>14
-----------------------------------------------------------------------------
(* What kmalloc, kfree and coalesce do, in terms of any list of headers.   *)

(* Taking a free block: it becomes used, what split cuts off is free, and  *)
(* no two free blocks become neighbours.                                   *)
LEMMA TakenIs ==
  ASSUME NEW h, WellFormed(h), NEW b \in DOMAIN h, ~ h[b].used, NEW s \in Nat, h[b].size >= s,
         PairsOnlyAt(h, NULL), NEW g, g = Taken(h, b, s)
  PROVE  /\ WellFormed(g) /\ DOMAIN h \subseteq DOMAIN g
         /\ g[b].used /\ g[b].size >= s
         /\ \A c \in DOMAIN h \ {b} : g[c].used = h[c].used /\ g[c].size = h[c].size
         /\ \A c \in DOMAIN g \ DOMAIN h : ~ g[c].used
         /\ PairsOnlyAt(g, NULL)
  <1> DEFINE k == Split(h, b, s)
             nb == b + HdrSize + s
  <1>0. b \in Nat \ {0} /\ HdrSize \in Nat \ {0} /\ h[b] \in Headers /\ MIN_SPLIT \in Nat
      BY HeapAssumption DEF WellFormed
  <1>1. /\ WellFormed(k) /\ DOMAIN h \subseteq DOMAIN k
        /\ k[b].size >= s
        /\ \A c \in DOMAIN h \ {b} : k[c].used = h[c].used /\ k[c].size = h[c].size
        /\ \A c \in DOMAIN k \ DOMAIN h : ~ k[c].used
        /\ \A c \in DOMAIN k \ {b} :
             k[c].next # NULL /\ ~ k[c].used => k[k[c].next].used \/ k[c].next = b
    <2>1. CASE h[b].size < s + HdrSize + MIN_SPLIT
      <3>1. k = h
          BY <2>1 DEF Split
      <3> HIDE DEF k
      <3> QED
          BY <3>1 DEF PairsOnlyAt, WellFormed, Headers, NULL
    <2>2. CASE ~ (h[b].size < s + HdrSize + MIN_SPLIT)
      <3>0. h[b].size >= s + HdrSize + MIN_SPLIT
          BY <1>0, <2>2 DEF Headers
      <3>1. /\ WellFormed(k)
            /\ nb \notin DOMAIN h /\ DOMAIN k = DOMAIN h \cup {nb}
            /\ k[b].next = nb /\ k[b].used = h[b].used /\ k[b].size = s
            /\ k[nb].next = h[b].next /\ ~ k[nb].used
            /\ \A c \in DOMAIN h \ {b} : /\ k[c].used = h[c].used
                                        /\ k[c].size = h[c].size
                                        /\ k[c].next = h[c].next
          BY <3>0, SplitWellFormed
      <3> HIDE DEF k, nb
      <3>2. ASSUME NEW c \in DOMAIN k \ {b}, k[c].next # NULL, ~ k[c].used, k[c].next # b
            PROVE  k[k[c].next].used
        <4>1. CASE c = nb
          <5>1. h[b].next # NULL /\ h[b].next \in DOMAIN h /\ h[h[b].next].used
              BY <3>1, <3>2, <4>1, NextAfter, <1>0 DEF PairsOnlyAt, NULL
          <5> QED
              BY <3>1, <3>2, <4>1, <5>1
        <4>2. CASE c \in DOMAIN h
          <5>1. h[c].next # NULL /\ h[c].next \in DOMAIN h \ {b} /\ ~ h[c].used
              BY <3>1, <3>2, <4>2, NextAfter
          <5>2. h[h[c].next].used
              BY <4>2, <5>1 DEF PairsOnlyAt, WellFormed, NULL
          <5> QED
              BY <3>1, <3>2, <4>2, <5>1, <5>2
        <4> QED
            BY <3>1, <4>1, <4>2
      <3>3. k[b].size >= s
          BY <3>1
      <3> QED
          BY <3>1, <3>2, <3>3
    <2> QED
        BY <2>1, <2>2
  <1>1a. g = [k EXCEPT ![b].used = TRUE]
      BY DEF Taken
  <1> HIDE DEF k
  <1>2. WellFormed(g)
    <2>1. b \in DOMAIN k
        BY <1>1
    <2>2. WellFormed([k EXCEPT ![b].used = TRUE])
        BY <1>1, <2>1, MarkWellFormed
    <2> QED
        BY <1>1a, <2>2
  <1>3. /\ DOMAIN g = DOMAIN k /\ g[b].used /\ g[b].size = k[b].size
        /\ \A c \in DOMAIN k : g[c].next = k[c].next /\ g[c].size = k[c].size
        /\ \A c \in DOMAIN k \ {b} : g[c].used = k[c].used
      BY <1>1, <1>1a DEF WellFormed, Headers
  <1>4. PairsOnlyAt(g, NULL)
    <2> SUFFICES ASSUME NEW c \in DOMAIN g, g[c].next # NULL, ~ g[c].used, ~ g[g[c].next].used
                 PROVE  FALSE
        BY DEF PairsOnlyAt
    <2>1. c # b /\ g[c].next # b /\ g[c].next \in DOMAIN k
        BY <1>2, <1>3, NextAfter
    <2> QED
        BY <1>1, <1>3, <2>1
  <1> QED
      BY <1>1, <1>2, <1>3, <1>4

(* kfree's change to the list.                                             *)
Freed(h, b) == [h EXCEPT ![b].used = FALSE]

(* Freeing a block makes it the only one that may have free neighbours.    *)
LEMMA FreedIs ==
  ASSUME NEW h, WellFormed(h), NEW b \in DOMAIN h, PairsOnlyAt(h, NULL),
         NEW g, g = Freed(h, b)
  PROVE  /\ WellFormed(g) /\ DOMAIN g = DOMAIN h /\ ~ g[b].used
         /\ \A c \in DOMAIN h : g[c].size = h[c].size
         /\ \A c \in DOMAIN h \ {b} : g[c].used = h[c].used
         /\ PairsOnlyAt(g, b)
  <1>1. WellFormed(g)
      BY MarkWellFormed DEF Freed
  <1>2. /\ DOMAIN g = DOMAIN h /\ ~ g[b].used
        /\ \A c \in DOMAIN h : g[c].size = h[c].size /\ g[c].next = h[c].next
        /\ \A c \in DOMAIN h \ {b} : g[c].used = h[c].used
      BY DEF WellFormed, Headers, Freed
  <1>3. PairsOnlyAt(g, b)
    <2> SUFFICES ASSUME NEW c \in DOMAIN g, g[c].next # NULL, ~ g[c].used, ~ g[g[c].next].used,
                        b # c, b # g[c].next
                 PROVE  FALSE
        BY DEF PairsOnlyAt
    <2>1. h[c].next \in DOMAIN h /\ h[c].next # NULL /\ c # NULL
        BY <1>2, NextAfter DEF WellFormed, NULL
    <2> QED
        BY <1>2, <2>1 DEF PairsOnlyAt
  <1> QED
      BY <1>1, <1>2, <1>3

(* One turn of coalesce's loop.                                            *)
LEMMA MergeNextPairs ==
  ASSUME NEW h, WellFormed(h), NEW b \in DOMAIN h, NextFree(h, b), ~ h[b].used, PairsOnlyAt(h, b),
         NEW g, g = Merge(h, b, h[b].next)
  PROVE  WellFormed(g) /\ b \in DOMAIN g /\ ~ g[b].used /\ PairsOnlyAt(g, b)
  <1> DEFINE c == h[b].next
  <1>1. /\ WellFormed(g) /\ c \in DOMAIN h /\ c > b /\ DOMAIN g = DOMAIN h \ {c}
        /\ g[b].used = h[b].used
        /\ \A d \in DOMAIN g \ {b} : g[d].used = h[d].used /\ g[d].next = h[d].next
      BY MergeWellFormed DEF NextFree
  <1>2. PairsOnlyAt(g, b)
    <2> SUFFICES ASSUME NEW d \in DOMAIN g, g[d].next # NULL, ~ g[d].used, ~ g[g[d].next].used,
                        b # d, b # g[d].next
                 PROVE  FALSE
        BY DEF PairsOnlyAt
    <2>1. g[d].next \in DOMAIN g
        BY <1>1, NextAfter
    <2>2. d \in DOMAIN h /\ h[d].next # NULL /\ ~ h[d].used /\ ~ h[h[d].next].used /\ h[d].next = g[d].next
        BY <1>1, <2>1
    <2> QED
        BY <2>2 DEF PairsOnlyAt
  <1> QED
      BY <1>1, <1>2 DEF WellFormed

(* The end of coalesce: no two free neighbours are left.                   *)
LEMMA MergeBackIs ==
  ASSUME NEW h, WellFormed(h), NEW b \in DOMAIN h, ~ NextFree(h, b), PairsOnlyAt(h, b), ~ h[b].used
  PROVE  /\ WellFormed(MergeBack(h, b)) /\ PairsOnlyAt(MergeBack(h, b), NULL)
  <1>1. CASE ~ PrevFree(h, b)
    <2>1. MergeBack(h, b) = h
        BY <1>1 DEF MergeBack
    <2>2. PairsOnlyAt(h, NULL)
      <3> SUFFICES ASSUME NEW d \in DOMAIN h, h[d].next # NULL, ~ h[d].used, ~ h[h[d].next].used
                   PROVE  FALSE
          BY DEF PairsOnlyAt
      <3>1. CASE d = b
          BY <3>1 DEF NextFree
      <3>2. CASE h[d].next = b
        <4>1. h[b].prev = d /\ d # NULL
            BY <3>2, NextAfter DEF WellFormed, NULL
        <4> QED
            BY <1>1, <4>1 DEF PrevFree
      <3> QED
          BY <3>1, <3>2 DEF PairsOnlyAt
    <2> QED
        BY <2>1, <2>2
  <1>2. CASE PrevFree(h, b)
    <2> DEFINE a == h[b].prev
               g == Merge(h, a, b)
    <2>1. a # NULL /\ a \in DOMAIN h /\ h[a].next = b /\ ~ h[a].used
        BY <1>2 DEF PrevFree, WellFormed, Tiles
    <2>2. b # NULL /\ b \in Nat
        BY DEF WellFormed, NULL
    <2>3. /\ WellFormed(g) /\ DOMAIN g = DOMAIN h \ {b} /\ b > a
          /\ g[a].next = h[b].next /\ g[a].used = h[a].used
          /\ \A d \in DOMAIN g \ {a} : g[d].used = h[d].used /\ g[d].next = h[d].next
        BY <2>1, <2>2, MergeWellFormed
    <2>4. MergeBack(h, b) = g
        BY <1>2 DEF MergeBack
    <2> HIDE DEF g
    <2>5. PairsOnlyAt(g, NULL)
      <3> SUFFICES ASSUME NEW d \in DOMAIN g, g[d].next # NULL, ~ g[d].used, ~ g[g[d].next].used
                   PROVE  FALSE
          BY DEF PairsOnlyAt
      <3>1. g[d].next \in DOMAIN g /\ g[d].next > d
          BY <2>3, NextAfter
      <3>2. CASE d = a
        <4>1. h[b].next = g[d].next /\ h[b].next # a
            BY <2>3, <3>1, <3>2 DEF WellFormed
        <4>2. ~ h[h[b].next].used
            BY <2>3, <3>1, <3>2, <4>1
        <4> QED
            BY <4>1, <4>2 DEF NextFree
      <3>3. CASE d # a
        <4>1. /\ d \in DOMAIN h /\ d # b /\ h[d].next = g[d].next /\ h[d].next # b
              /\ ~ h[d].used
            BY <2>3, <3>1, <3>3
        <4>2. ~ h[h[d].next].used
            BY <2>1, <2>3, <3>1, <4>1
        <4> QED
            BY <4>1, <4>2 DEF PairsOnlyAt
      <3> QED
          BY <3>2, <3>3
    <2> QED
        BY <2>3, <2>4, <2>5
  <1> QED
      BY <1>1, <1>2
-----------------------------------------------------------------------------
(* The inductive invariant: between and inside calls the list tiles the    *)
(* heap, and free neighbours are only met where coalesce is at work.       *)
Inv ==
    /\ WellFormed(hdr)
    /\ freeing # NULL => freeing \in Blocks /\ ~ hdr[freeing].used
    /\ PairsOnlyAt(hdr, freeing)

(* What ALIGN_UP returns is a size.                                        *)
LEMMA AlignUpNat == ASSUME NEW size \in Nat PROVE AlignUp(size) \in Nat
  <1>1. SizeMod \in Nat \ {0} /\ Align \in Nat \ {0}
      BY HeapAssumption
  <1>2. ((size + Align - 1) \div Align) * Align \in Nat
    <2>1. size + Align - 1 \in Nat
        BY <1>1
    <2>2. (size + Align - 1) \div Align \in Nat
        BY <1>1, <2>1
    <2> QED
        BY <1>1, <2>2
  <1> QED
      BY <1>1, <1>2 DEF AlignUp

(* kmalloc, and with it kcalloc.                                           *)
LEMMA kmallocInv ==
  ASSUME Inv, NEW size \in Nat, NEW asked, kmalloc(size, asked)
  PROVE  Inv'
  <1>1. CASE UNCHANGED <<hdr, freeing>>
      BY <1>1 DEF Inv, Blocks
  <1>2. CASE \E b \in Blocks : IsFirstFit(hdr, b, AlignUp(size)) /\ hdr' = Taken(hdr, b, AlignUp(size))
    <2> DEFINE s == AlignUp(size)
    <2>1. PICK b \in Blocks : IsFirstFit(hdr, b, s) /\ hdr' = Taken(hdr, b, s)
        BY <1>2
    <2>2. s \in Nat
        BY AlignUpNat
    <2>3. ~ hdr[b].used /\ hdr[b].size >= s /\ b \in DOMAIN hdr
        BY <2>1 DEF IsFirstFit, Fits, Blocks
    <2>4. freeing = NULL /\ freeing' = NULL
        BY DEF kmalloc, Ready, vars
    <2> HIDE DEF s
    <2>5. WellFormed(hdr') /\ PairsOnlyAt(hdr', NULL)
        BY <2>1, <2>2, <2>3, <2>4, TakenIs DEF Inv
    <2> QED
        BY <2>4, <2>5 DEF Inv
  <1> QED
      BY <1>1, <1>2 DEF kmalloc, vars

(* kfree up to coalesce.                                                   *)
LEMMA kfreeInv ==
  ASSUME Inv, NEW p, Header(p) \in Blocks, kfree(p)
  PROVE  Inv'
  <1> DEFINE b == Header(p)
  <1>0. b \in DOMAIN hdr /\ freeing = NULL
      BY DEF Blocks, kfree, Ready
  <1>1. CASE UNCHANGED <<hdr, freeing>>
      BY <1>1 DEF Inv, Blocks
  <1>2. CASE hdr' = Freed(hdr, b) /\ freeing' = b
    <2> HIDE DEF b
    <2>1. /\ WellFormed(hdr') /\ DOMAIN hdr' = DOMAIN hdr /\ ~ hdr'[b].used
          /\ PairsOnlyAt(hdr', b)
        BY <1>0, <1>2, FreedIs DEF Inv
    <2> QED
        BY <1>0, <1>2, <2>1 DEF Inv, Blocks
  <1> QED
      BY <1>1, <1>2 DEF kfree, Freed

(* krealloc up to the coalesce of its kfree.                               *)
LEMMA kreallocInv ==
  ASSUME Inv, NEW p, Header(p) \in Blocks, NEW size \in Nat, krealloc(p, size)
  PROVE  Inv'
  <1> DEFINE b == Header(p)
             s == AlignUp(size)
  <1>0. b \in DOMAIN hdr /\ freeing = NULL
      BY DEF Blocks, krealloc, Ready
  <1>1. CASE UNCHANGED <<hdr, freeing>>
      BY <1>1 DEF Inv, Blocks
  <1>2. CASE /\ \E c \in Blocks : IsFirstFit(hdr, c, s) /\ hdr' = Freed(Taken(hdr, c, s), b)
             /\ freeing' = b
    <2>1. PICK c \in Blocks : IsFirstFit(hdr, c, s) /\ hdr' = Freed(Taken(hdr, c, s), b)
        BY <1>2
    <2>2. s \in Nat
        BY AlignUpNat
    <2>3. ~ hdr[c].used /\ hdr[c].size >= s /\ c \in DOMAIN hdr
        BY <2>1 DEF IsFirstFit, Fits, Blocks
    <2> DEFINE g == Taken(hdr, c, s)
    <2>3a. hdr' = Freed(g, b)
        BY <2>1
    <2> HIDE DEF s, b
    <2>4. WellFormed(g) /\ PairsOnlyAt(g, NULL) /\ DOMAIN hdr \subseteq DOMAIN g
        BY <1>0, <2>2, <2>3, TakenIs DEF Inv
    <2> HIDE DEF g
    <2>5. b \in DOMAIN g
        BY <1>0, <2>4
    <2>6. WellFormed(hdr') /\ DOMAIN hdr' = DOMAIN g /\ ~ hdr'[b].used /\ PairsOnlyAt(hdr', b)
        BY <2>3a, <2>4, <2>5, FreedIs
    <2> QED
        BY <1>2, <2>5, <2>6 DEF Inv, Blocks
  <1> QED
      BY <1>1, <1>2 DEF krealloc, Freed

(* The two steps of coalesce.                                              *)
LEMMA CoalesceInv ==
  ASSUME Inv, CoalesceNext \/ CoalescePrev
  PROVE  Inv'
  <1>0. freeing # NULL /\ freeing \in DOMAIN hdr /\ ~ hdr[freeing].used
      BY DEF Inv, CoalesceNext, CoalescePrev, Blocks
  <1>1. CASE CoalesceNext
    <2>1. WellFormed(hdr') /\ freeing \in DOMAIN hdr' /\ ~ hdr'[freeing].used /\ PairsOnlyAt(hdr', freeing)
        BY <1>0, <1>1, MergeNextPairs DEF Inv, CoalesceNext
    <2> QED
        BY <1>1, <2>1 DEF Inv, Blocks, CoalesceNext
  <1>2. CASE CoalescePrev
    <2>1. WellFormed(MergeBack(hdr, freeing)) /\ PairsOnlyAt(MergeBack(hdr, freeing), NULL)
        BY <1>0, <1>2, MergeBackIs DEF Inv, CoalescePrev
    <2> QED
        BY <1>2, <2>1 DEF Inv, CoalescePrev
  <1> QED
      BY <1>1, <1>2

-----------------------------------------------------------------------------
(* What callers hold.                                                      *)

(* The blocks marked used are exactly those given out.                     *)
Owned(h, l) ==
    /\ \A p \in DOMAIN l : p \in Int /\ Header(p) \in DOMAIN h /\ h[Header(p)].used
    /\ \A b \in DOMAIN h : h[b].used => Payload(b) \in DOMAIN l

(* Each holds what was asked for.                                          *)
LargeEnough(h, l) == \A p \in DOMAIN l : l[p] \in Nat /\ l[p] <= h[Header(p)].size

(* A pointer and its header determine each other.                          *)
LEMMA HeaderPayload ==
  /\ \A b \in Int : Header(Payload(b)) = b /\ Payload(b) \in Int
  /\ \A p \in Int : Payload(Header(p)) = p /\ Header(p) \in Int
  BY HeapAssumption DEF Header, Payload

(* kmalloc's caller gets a block nobody else has.                          *)
LEMMA TakenOwned ==
  ASSUME NEW h, WellFormed(h), NEW b \in DOMAIN h, ~ h[b].used, NEW s \in Nat, h[b].size >= s,
         PairsOnlyAt(h, NULL), NEW g, g = Taken(h, b, s),
         NEW l, NEW n, Owned(h, l), NEW m, m = WithLive(l, Payload(b), n)
  PROVE  /\ Owned(g, m)
         /\ LargeEnough(h, l) /\ n \in Nat /\ n <= s => LargeEnough(g, m)
  <1>1. /\ WellFormed(g) /\ DOMAIN h \subseteq DOMAIN g
        /\ g[b].used /\ g[b].size >= s
        /\ \A c \in DOMAIN h \ {b} : g[c].used = h[c].used /\ g[c].size = h[c].size
        /\ \A c \in DOMAIN g \ DOMAIN h : ~ g[c].used
      BY TakenIs
  <1>2. b \in Int /\ Payload(b) \in Int /\ Header(Payload(b)) = b /\ g[b].size \in Nat
      BY <1>1, HeaderPayload DEF WellFormed, Headers
  <1>3. /\ DOMAIN m = DOMAIN l \cup {Payload(b)} /\ m[Payload(b)] = n
        /\ \A p \in DOMAIN l \ {Payload(b)} : m[p] = l[p]
      BY DEF WithLive
  <1>4. ASSUME NEW p \in DOMAIN l \ {Payload(b)}
        PROVE  /\ p \in Int /\ Header(p) \in DOMAIN h \ {b} /\ Header(p) \in DOMAIN g
               /\ g[Header(p)].used /\ g[Header(p)].size = h[Header(p)].size
    <2>1. p \in Int /\ Header(p) \in DOMAIN h /\ h[Header(p)].used
        BY DEF Owned
    <2>2. Header(p) # b
        BY <2>1
    <2> QED
        BY <1>1, <2>1, <2>2
  <1>5. Owned(g, m)
    <2>1. ASSUME NEW p \in DOMAIN m
          PROVE  p \in Int /\ Header(p) \in DOMAIN g /\ g[Header(p)].used
        BY <1>1, <1>2, <1>3, <1>4
    <2>2. ASSUME NEW c \in DOMAIN g, g[c].used PROVE Payload(c) \in DOMAIN m
      <3>1. c \in DOMAIN h /\ (c = b \/ h[c].used)
          BY <1>1, <2>2
      <3> QED
          BY <1>3, <3>1 DEF Owned
    <2> QED
        BY <2>1, <2>2 DEF Owned
  <1>6. ASSUME LargeEnough(h, l), n \in Nat, n <= s PROVE LargeEnough(g, m)
    <2> SUFFICES ASSUME NEW p \in DOMAIN m PROVE m[p] \in Nat /\ m[p] <= g[Header(p)].size
        BY DEF LargeEnough
    <2>1. CASE p = Payload(b)
        BY <1>1, <1>2, <1>3, <1>6, <2>1
    <2>2. CASE p # Payload(b)
        BY <1>3, <1>4, <1>6, <2>2 DEF LargeEnough
    <2> QED
        BY <2>1, <2>2
  <1> QED
      BY <1>5, <1>6

(* kfree takes the block back.                                             *)
LEMMA FreedOwned ==
  ASSUME NEW h, WellFormed(h), NEW b \in DOMAIN h, PairsOnlyAt(h, NULL), NEW g, g = Freed(h, b),
         NEW l, Owned(h, l), NEW m, m = WithoutLive(l, Payload(b))
  PROVE  /\ Owned(g, m)
         /\ LargeEnough(h, l) => LargeEnough(g, m)
  <1>1. /\ DOMAIN g = DOMAIN h /\ ~ g[b].used
        /\ \A c \in DOMAIN h : g[c].size = h[c].size
        /\ \A c \in DOMAIN h \ {b} : g[c].used = h[c].used
      BY FreedIs
  <1>2. DOMAIN m = DOMAIN l \ {Payload(b)} /\ \A p \in DOMAIN m : m[p] = l[p]
      BY DEF WithoutLive
  <1>3. DOMAIN h \subseteq Int
      BY DEF WellFormed
  <1>4. ASSUME NEW p \in DOMAIN m
        PROVE  p \in Int /\ Header(p) \in DOMAIN g /\ g[Header(p)].used
    <2>1. p \in Int /\ Header(p) \in DOMAIN h /\ h[Header(p)].used /\ p # Payload(b)
        BY <1>2 DEF Owned
    <2>2. Header(p) # b
        BY <2>1, HeaderPayload
    <2> QED
        BY <1>1, <2>1, <2>2
  <1>5. ASSUME NEW c \in DOMAIN g, g[c].used PROVE Payload(c) \in DOMAIN m
    <2>1. c \in DOMAIN h /\ h[c].used /\ c # b /\ c \in Int /\ b \in Int
        BY <1>1, <1>3, <1>5
    <2>2. Payload(c) \in DOMAIN l /\ Payload(c) # Payload(b)
        BY <2>1, HeaderPayload DEF Owned
    <2> QED
        BY <1>2, <2>2
  <1>6. LargeEnough(h, l) => LargeEnough(g, m)
      BY <1>1, <1>2 DEF LargeEnough, Owned
  <1> QED
      BY <1>4, <1>5, <1>6 DEF Owned

(* coalesce removes free blocks only and enlarges the others.              *)
LEMMA MergeOwned ==
  ASSUME NEW h, WellFormed(h), NEW b \in DOMAIN h, NEW c, c = h[b].next, c # NULL,
         NEW g, g = Merge(h, b, c), ~ h[c].used, NEW l, Owned(h, l)
  PROVE  Owned(g, l) /\ (LargeEnough(h, l) => LargeEnough(g, l))
  <1>1. /\ WellFormed(g)
        /\ c \in DOMAIN h /\ c > b /\ DOMAIN g = DOMAIN h \ {c}
        /\ g[b].used = h[b].used /\ g[b].size >= h[b].size
        /\ \A d \in DOMAIN g \ {b} : g[d].used = h[d].used /\ g[d].size = h[d].size
      BY MergeWellFormed
  <1>2. \A d \in DOMAIN g : /\ g[d].used = h[d].used /\ g[d].size >= h[d].size
                            /\ g[d].size \in Nat /\ h[d].size \in Nat
      BY <1>1 DEF WellFormed, Headers
  <1>3. Owned(g, l)
      BY <1>1, <1>2 DEF Owned
  <1>4. LargeEnough(h, l) => LargeEnough(g, l)
    <2> SUFFICES ASSUME LargeEnough(h, l), NEW p \in DOMAIN l
                 PROVE  l[p] \in Nat /\ l[p] <= g[Header(p)].size
        BY DEF LargeEnough
    <2>1. Header(p) \in DOMAIN g
        BY <1>3 DEF Owned
    <2>2. l[p] \in Nat /\ l[p] <= h[Header(p)].size
        BY DEF LargeEnough
    <2> QED
        BY <1>2, <2>1, <2>2
  <1> QED
      BY <1>3, <1>4
-----------------------------------------------------------------------------
(* No request, nor a product kcalloc computes, is so close to the range of *)
(* size_t that rounding it up wraps: the kernel's own requests are for     *)
(* structures, stacks and sectors.                                         *)
NoWrap ==
    \A size \in Requests :
        /\ size + Align <= SizeMod
        /\ \A n \in Counts : n * size + Align <= SizeMod

(* Rounding up does not shrink a size that is far enough from the end.     *)
LEMMA AlignUpEnough ==
  ASSUME NEW x \in Nat, x + Align <= SizeMod
  PROVE  AlignUp(x) >= x
  <1>1. SizeMod \in Nat \ {0} /\ Align \in Nat \ {0}
      BY HeapAssumption
  <1> DEFINE y == x + Align - 1
             z == (y \div Align) * Align
  <1>2. y \in Nat
      BY <1>1
  <1>3. y = Align * (y \div Align) + (y % Align) /\ y % Align \in 0 .. Align - 1 /\ y \div Align \in Nat
    <2> HIDE DEF y
    <2> QED
        BY <1>1, <1>2
  <1>4. z \in Nat /\ z <= y /\ z > y - Align
    <2>1. z = Align * (y \div Align) /\ z \in Nat
        BY <1>1, <1>3
    <2> HIDE DEF y, z
    <2> QED
        BY <1>1, <1>2, <1>3, <2>1
  <1>5. z < SizeMod /\ z >= x
    <2> HIDE DEF z
    <2> QED
        BY <1>1, <1>4
  <1>6. z % SizeMod = z
    <2> HIDE DEF z
    <2> QED
        BY <1>1, <1>4, <1>5
  <1>7. AlignUp(x) = z % SizeMod
      BY DEF AlignUp
  <1> HIDE DEF z
  <1> QED
      BY <1>5, <1>6, <1>7

(* What callers hold, as an invariant.                                     *)
Held == Owned(hdr, live) /\ (NoWrap => LargeEnough(hdr, live))

(* kmalloc and kcalloc keep it, if what was asked for is not cut off.      *)
LEMMA kmallocHeld ==
  ASSUME Inv, Held, NEW size \in Nat, NEW asked, kmalloc(size, asked),
         NoWrap => asked \in Nat /\ asked <= AlignUp(size)
  PROVE  Held'
  <1> DEFINE s == AlignUp(size)
  <1>1. CASE UNCHANGED <<hdr, live>>
      BY <1>1 DEF Held
  <1>2. CASE \E b \in Blocks : /\ IsFirstFit(hdr, b, s) /\ hdr' = Taken(hdr, b, s)
                               /\ live' = WithLive(live, Payload(b), asked)
    <2>1. PICK b \in Blocks : /\ IsFirstFit(hdr, b, s) /\ hdr' = Taken(hdr, b, s)
                             /\ live' = WithLive(live, Payload(b), asked)
        BY <1>2
    <2>2. s \in Nat
        BY AlignUpNat
    <2>3. ~ hdr[b].used /\ hdr[b].size >= s /\ b \in DOMAIN hdr
        BY <2>1 DEF IsFirstFit, Fits, Blocks
    <2>4. freeing = NULL
        BY DEF kmalloc, Ready
    <2> HIDE DEF s
    <2>5. /\ Owned(hdr', live')
          /\ LargeEnough(hdr, live) /\ asked \in Nat /\ asked <= s => LargeEnough(hdr', live')
        BY <2>1, <2>2, <2>3, <2>4, TakenOwned DEF Inv, Held
    <2> QED
        BY <2>5 DEF Held, s
  <1> QED
      BY <1>1, <1>2 DEF kmalloc, vars

(* kfree.                                                                  *)
LEMMA kfreeHeld ==
  ASSUME Inv, Held, NEW b \in Blocks, kfree(Payload(b))
  PROVE  Held'
  <1>0. b \in DOMAIN hdr /\ freeing = NULL /\ Header(Payload(b)) = b
    <2>1. b \in DOMAIN hdr /\ freeing = NULL
        BY DEF Blocks, kfree, Ready
    <2>2. b \in Int
        BY <2>1 DEF Inv, WellFormed
    <2> QED
        BY <2>1, <2>2, HeaderPayload
  <1>1. CASE UNCHANGED <<hdr, live>>
      BY <1>1 DEF Held
  <1>2. CASE hdr' = Freed(hdr, b) /\ live' = WithoutLive(live, Payload(b))
    <2>1. Owned(hdr', live') /\ (LargeEnough(hdr, live) => LargeEnough(hdr', live'))
        BY <1>0, <1>2, FreedOwned DEF Inv, Held
    <2> QED
        BY <2>1 DEF Held
  <1> QED
      BY <1>0, <1>1, <1>2 DEF kfree, Freed

(* krealloc.                                                               *)
LEMMA kreallocHeld ==
  ASSUME Inv, Held, NEW p \in DOMAIN live, NEW size \in Nat, krealloc(p, size),
         NoWrap => size <= AlignUp(size)
  PROVE  Held'
  <1> DEFINE b == Header(p)
             s == AlignUp(size)
  <1>0. b \in DOMAIN hdr /\ freeing = NULL /\ hdr[b].used /\ p \in Int /\ Payload(b) = p /\ b \in Int
      BY HeaderPayload DEF Blocks, krealloc, Ready, Held, Owned
  <1>1. CASE UNCHANGED <<hdr, live>>
      BY <1>1 DEF Held
  <1>2. CASE hdr[b].size >= size /\ live' = [live EXCEPT ![p] = size] /\ hdr' = hdr
    <2>1. DOMAIN live' = DOMAIN live /\ live'[p] = size /\ \A q \in DOMAIN live \ {p} : live'[q] = live[q]
        BY <1>2
    <2>2. hdr[b].size \in Nat
        BY <1>0 DEF Inv, WellFormed, Headers
    <2>3. Owned(hdr', live')
        BY <1>2, <2>1 DEF Held, Owned
    <2>4. LargeEnough(hdr, live) => LargeEnough(hdr', live')
        BY <1>2, <2>1, <2>2 DEF LargeEnough
    <2> QED
        BY <2>3, <2>4 DEF Held
  <1>3. CASE \E c \in Blocks : /\ IsFirstFit(hdr, c, s) /\ hdr' = Freed(Taken(hdr, c, s), b)
                               /\ live' = WithLive(WithoutLive(live, p), Payload(c), size)
    <2>1. PICK c \in Blocks : /\ IsFirstFit(hdr, c, s) /\ hdr' = Freed(Taken(hdr, c, s), b)
                             /\ live' = WithLive(WithoutLive(live, p), Payload(c), size)
        BY <1>3
    <2>2. s \in Nat
        BY AlignUpNat
    <2>3. ~ hdr[c].used /\ hdr[c].size >= s /\ c \in DOMAIN hdr
        BY <2>1 DEF IsFirstFit, Fits, Blocks
    <2> DEFINE g == Taken(hdr, c, s)
               m == WithLive(live, Payload(c), size)
    <2>4. p # Payload(c)
      <3>1. c \in Int /\ c # b
          BY <1>0, <2>3 DEF Inv, WellFormed
      <3>2. Header(Payload(c)) = c
          BY <3>1, HeaderPayload
      <3> QED
          BY <3>1, <3>2
    <2>5. live' = WithoutLive(m, p)
        BY <2>1, <2>4 DEF WithLive, WithoutLive
    <2>6. hdr' = Freed(g, b)
        BY <2>1
    <2> HIDE DEF s, b
    <2>7. WellFormed(g) /\ DOMAIN hdr \subseteq DOMAIN g /\ PairsOnlyAt(g, NULL)
        BY <1>0, <2>2, <2>3, TakenIs DEF Inv
    <2>8. /\ Owned(g, m)
          /\ LargeEnough(hdr, live) /\ size <= s => LargeEnough(g, m)
        BY <1>0, <2>2, <2>3, TakenOwned DEF Inv, Held
    <2> HIDE DEF g, m
    <2>9. b \in DOMAIN g
        BY <1>0, <2>7
    <2>10. Owned(hdr', live') /\ (LargeEnough(g, m) => LargeEnough(hdr', live'))
        BY <1>0, <2>5, <2>6, <2>7, <2>8, <2>9, FreedOwned
    <2> QED
        BY <2>8, <2>10 DEF Held, s
  <1> QED
      BY <1>1, <1>2, <1>3 DEF krealloc, Freed

(* coalesce.                                                               *)
LEMMA CoalesceHeld ==
  ASSUME Inv, Held, CoalesceNext \/ CoalescePrev
  PROVE  Held'
  <1>0. freeing # NULL /\ freeing \in DOMAIN hdr /\ ~ hdr[freeing].used
      BY DEF Inv, CoalesceNext, CoalescePrev, Blocks
  <1>1. CASE CoalesceNext
    <2>1. Owned(hdr', live) /\ (LargeEnough(hdr, live) => LargeEnough(hdr', live))
        BY <1>0, <1>1, MergeOwned DEF Inv, Held, CoalesceNext, NextFree
    <2> QED
        BY <1>1, <2>1 DEF Held, CoalesceNext
  <1>2. CASE CoalescePrev
    <2> DEFINE a == hdr[freeing].prev
    <2>1. CASE PrevFree(hdr, freeing)
      <3>1. a \in DOMAIN hdr /\ hdr[a].next = freeing
          BY <1>0, <2>1 DEF PrevFree, Inv, WellFormed, Tiles
      <3>2. hdr' = Merge(hdr, a, freeing)
          BY <1>2, <2>1 DEF CoalescePrev, MergeBack
      <3> HIDE DEF a
      <3>3. Owned(hdr', live) /\ (LargeEnough(hdr, live) => LargeEnough(hdr', live))
          BY <1>0, <3>1, <3>2, MergeOwned DEF Inv, Held
      <3> QED
          BY <1>2, <3>3 DEF Held, CoalescePrev
    <2>2. CASE ~ PrevFree(hdr, freeing)
        BY <1>2, <2>2 DEF CoalescePrev, MergeBack, Held
    <2> QED
        BY <2>1, <2>2
  <1> QED
      BY <1>1, <1>2

-----------------------------------------------------------------------------
(* One block that covers the heap, and nothing given out.                  *)
LEMMA InitInv == Init => Inv /\ Held
  <1> SUFFICES ASSUME Init PROVE Inv /\ Held
      OBVIOUS
  <1> DEFINE first == [size |-> HeapSize - HdrSize, used |-> FALSE, next |-> NULL, prev |-> NULL]
  <1>0. /\ HeapStart \in Nat \ {0} /\ HeapSize \in Nat /\ HdrSize \in Nat
        /\ HeapSize - HdrSize \in Nat /\ first \in Headers
    <2>1. HeapSize - HdrSize \in Nat /\ NULL \in Nat
        BY HeapAssumption DEF NULL
    <2> QED
        BY <2>1, HeapAssumption DEF Headers
  <1>1. DOMAIN hdr = {HeapStart} /\ hdr[HeapStart] = first /\ hdr = [b \in {HeapStart} |-> first]
      BY DEF Init
  <1>2. WellFormed(hdr)
    <2>1. Disjoint(hdr)
        BY <1>0, <1>1 DEF Disjoint
    <2>2. Tiles(hdr)
        BY <1>0, <1>1 DEF Tiles, End, HeapEnd
    <2> HIDE DEF first
    <2>3. hdr \in [DOMAIN hdr -> Headers] /\ DOMAIN hdr \subseteq Nat \ {0}
        BY <1>0, <1>1
    <2> QED
        BY <2>1, <2>2, <2>3 DEF WellFormed
  <1>3. PairsOnlyAt(hdr, freeing)
      BY <1>1 DEF PairsOnlyAt
  <1>4. Held
      BY <1>1 DEF Held, Owned, LargeEnough, Init
  <1> QED
      BY <1>2, <1>3, <1>4 DEF Inv, Init

(* Every operation preserves the invariant.                                *)
LEMMA NextInv == Inv /\ Held /\ [Next]_vars => Inv' /\ Held'
  <1> SUFFICES ASSUME Inv, Held, [Next]_vars PROVE Inv' /\ Held'
      OBVIOUS
  <1>1. ASSUME NEW size \in Requests, kmalloc(size, size) PROVE Inv' /\ Held'
    <2>1. size \in Nat
        BY HeapAssumption
    <2>2. NoWrap => size <= AlignUp(size)
      <3>1. AlignUp(size) \in Nat /\ (NoWrap => AlignUp(size) >= size)
          BY <2>1, AlignUpNat, AlignUpEnough DEF NoWrap
      <3> QED
          BY <2>1, <3>1
    <2> QED
        BY <1>1, <2>1, <2>2, kmallocInv, kmallocHeld
  <1>2. ASSUME NEW n \in Counts, NEW size \in Requests, kcalloc(n, size) PROVE Inv' /\ Held'
    <2> DEFINE t == n * size
    <2>1. t \in Nat /\ SizeMod \in Nat \ {0} /\ Align \in Nat \ {0}
        BY HeapAssumption
    <2>2. NoWrap => t + Align <= SizeMod
        BY DEF NoWrap
    <2>3. kmalloc(t % SizeMod, t)
        BY <1>2 DEF kcalloc
    <2> HIDE DEF t
    <2>4. t % SizeMod \in Nat
        BY <2>1
    <2>5. NoWrap => t % SizeMod = t
        BY <2>1, <2>2
    <2>6. AlignUp(t) \in Nat /\ (NoWrap => AlignUp(t) >= t)
        BY <2>1, <2>2, AlignUpNat, AlignUpEnough
    <2>7. NoWrap => t \in Nat /\ t <= AlignUp(t % SizeMod)
        BY <2>1, <2>5, <2>6
    <2> QED
        BY <2>3, <2>4, <2>7, kmallocInv, kmallocHeld
  <1>3. CASE Free
    <2>1. PICK b \in Blocks : kfree(Payload(b))
        BY <1>3 DEF Free
    <2>2. Header(Payload(b)) = b
        BY HeaderPayload DEF Inv, WellFormed, Blocks
    <2> QED
        BY <2>1, <2>2, kfreeInv, kfreeHeld
  <1>4. CASE Realloc
    <2>1. PICK p \in DOMAIN live, size \in Requests \ {0} : krealloc(p, size)
        BY <1>4 DEF Realloc
    <2>2. size \in Nat /\ Header(p) \in Blocks
        BY HeapAssumption DEF Held, Owned, Blocks
    <2>3. NoWrap => size <= AlignUp(size)
      <3>1. AlignUp(size) \in Nat /\ (NoWrap => AlignUp(size) >= size)
          BY <2>2, AlignUpNat, AlignUpEnough DEF NoWrap
      <3> QED
          BY <2>2, <3>1
    <2> QED
        BY <2>1, <2>2, <2>3, kreallocInv, kreallocHeld
  <1>5. CASE CoalesceNext \/ CoalescePrev
      BY <1>5, CoalesceInv, CoalesceHeld
  <1>6. CASE UNCHANGED vars
      BY <1>6 DEF vars, Inv, Held, Blocks
  <1> QED
      BY <1>1, <1>2, <1>3, <1>4, <1>5, <1>6 DEF Next

(* The invariant holds in every state of the heap.                         *)
LEMMA HeapInv == Spec => [](Inv /\ Held)
  BY InitInv, NextInv, PTL DEF Spec

-----------------------------------------------------------------------------
(* The list heap.c splices tiles the heap from end to end, whatever is     *)
(* split, merged, freed twice or reallocated, for every heap and alignment.*)
THEOREM HeapTiles == Spec => []ListTilesHeap
  <1>1. Inv => ListTilesHeap
      BY DEF Inv, WellFormed, Tiles, End, ListTilesHeap, BlockEnd, Blocks
  <1> QED
      BY <1>1, HeapInv, PTL

(* When coalesce has returned, no two neighbouring blocks are both free,   *)
(* although it looks only one block back.                                  *)
THEOREM HeapCoalesces == Spec => []NoFreeNeighbours
  <1>1. Inv => NoFreeNeighbours
    <2> SUFFICES ASSUME Inv, freeing = NULL, NEW b \in Blocks, ~ hdr[b].used, NextFree(hdr, b)
                 PROVE  FALSE
        BY DEF NoFreeNeighbours
    <2>1. b # NULL /\ hdr[b].next # NULL /\ ~ hdr[hdr[b].next].used
        BY DEF Inv, WellFormed, Blocks, NextFree, NULL
    <2> QED
        BY <2>1 DEF Inv, PairsOnlyAt, Blocks
  <1> QED
      BY <1>1, HeapInv, PTL

(* As long as no size wraps in ALIGN_UP or in kcalloc's product, a caller  *)
(* holds a block of at least the size asked for that no other caller's     *)
(* block overlaps.                                                         *)
THEOREM HeapLive == ASSUME NoWrap PROVE Spec => []LiveBlocksSound
  <1>1. ASSUME Inv, Held PROVE LiveBlocksSound
    <2>0. Owned(hdr, live) /\ LargeEnough(hdr, live) /\ WellFormed(hdr) /\ DOMAIN hdr \subseteq Int
        BY <1>1 DEF Held, Inv, WellFormed
    <2>1. DOMAIN live = {Payload(b) : b \in {c \in Blocks : hdr[c].used}}
      <3>1. ASSUME NEW p \in DOMAIN live PROVE p \in {Payload(b) : b \in {c \in Blocks : hdr[c].used}}
        <4>1. Header(p) \in Blocks /\ hdr[Header(p)].used /\ Payload(Header(p)) = p
            BY <2>0, HeaderPayload DEF Owned, Blocks
        <4> QED
            BY <4>1
      <3>2. ASSUME NEW b \in Blocks, hdr[b].used PROVE Payload(b) \in DOMAIN live
          BY <2>0, <3>2 DEF Owned, Blocks
      <3> QED
          BY <3>1, <3>2
    <2>2. \A p \in DOMAIN live : hdr[Header(p)].size >= live[p]
      <3> SUFFICES ASSUME NEW p \in DOMAIN live PROVE hdr[Header(p)].size >= live[p]
          OBVIOUS
      <3>1. hdr[Header(p)].size \in Nat /\ live[p] \in Nat /\ live[p] <= hdr[Header(p)].size
          BY <2>0 DEF Owned, LargeEnough, WellFormed, Headers
      <3> QED
          BY <3>1
    <2>3. ASSUME NEW p \in DOMAIN live, NEW q \in DOMAIN live, p < q
          PROVE  p + live[p] <= Header(q)
      <3> DEFINE b == Header(p)
                 c == Header(q)
      <3>1. /\ b \in DOMAIN hdr /\ c \in DOMAIN hdr /\ p \in Int /\ q \in Int
            /\ live[p] \in Nat /\ live[p] <= hdr[b].size /\ hdr[b].size \in Nat
          BY <2>0 DEF Owned, LargeEnough, WellFormed, Headers
      <3>2. b < c /\ b \in Int /\ c \in Int /\ p = b + HdrSize /\ HdrSize \in Nat
          BY <2>3, <3>1, HeapAssumption DEF Header
      <3> HIDE DEF b, c
      <3>3. b + HdrSize + hdr[b].size <= c
          BY <2>0, <3>1, <3>2 DEF WellFormed, Disjoint, End
      <3>4. p + live[p] <= c
          BY <3>1, <3>2, <3>3
      <3> QED
          BY <3>4 DEF c
    <2> QED
        BY <2>1, <2>2, <2>3 DEF LiveBlocksSound
  <1> QED
      BY <1>1, HeapInv, PTL
=============================================================================
