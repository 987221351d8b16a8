-------------------------------- MODULE Vmm --------------------------------
(***************************************************************************)
(* The page tables of both builds, kernel/mm/vmm.c (x86, two levels) and   *)
(* arch/x86_64/mm/vmm.c (four), on top of the page allocator of module     *)
(* Pmm, whose other callers run between the calls.  A virtual page is its  *)
(* number; a physical page that holds no table holds anything.             *)
(***************************************************************************)
EXTENDS Pmm

CONSTANTS
    PageTables,    \* the client that stands for this code
    EfiDescriptors,\* memory maps of UEFI firmware
    MaxE820,       \* 128: the entries efi_main makes at most
    NVirt,         \* virtual pages
    Fans,          \* entries of a table at each level, for each build
    IdentityRoots, \* root entries that vmm_init fills, for each build
    Requests       \* the <<virt, phys>> that callers map

(* build_e820 of arch/x86_64/boot/efi_main.c, which hands the firmware's   *)
(* map over in the form of the BIOS; the loader's own memory is free.      *)
build_e820(descs) ==
    [k \in 1 .. IF Len(descs) < MaxE820 THEN Len(descs) ELSE MaxE820 |->
        [base   |-> descs[k].start,
         length |-> descs[k].pages * PageSize,
         type   |-> IF descs[k].type \in {"Conventional", "LoaderCode", "LoaderData"}
                    THEN E820_TYPE_USABLE ELSE 2]]

EfiMaps == {build_e820(d) : d \in EfiDescriptors}

Virt == 0 .. NVirt - 1
Build == IF map \in EfiMaps THEN "x86_64" ELSE "x86"
Depth == Len(Fans[Build])
Fan(l) == Fans[Build][l]

Root == -1                 \* page_dir or pml4, in the kernel's image
NoTable == -2
NoEntry == [to |-> 0, kind |-> "none"]
Small(p) == [to |-> p, kind |-> "small"]
Huge(p) == [to |-> p, kind |-> "huge"]

VARIABLES
    tab,           \* what each page holds, read as a table
    vpc,           \* "off", "idle", "walk" in vmm_map, or "stopped"
    filled,        \* tables vmm_init has made
    walk           \* vmm_map's arguments, and the table and level it has come to

vmmVars == <<tab, vpc, filled, walk>>
mvars == <<vars, vmmVars>>

(* The entries of a table: as many as the largest level has.               *)
Slots == UNION {UNION {0 .. Fans[b][l] - 1 : l \in DOMAIN Fans[b]} : b \in DOMAIN Fans}
Junk == [k \in Slots |-> Small(1)]
ZeroTable == [k \in Slots |-> NoEntry]

NoWalk == [v |-> 0, p |-> 0, t |-> Root, l |-> 1]

MInit ==
    /\ Init
    /\ tab = [t \in Pages \cup {Root} |-> IF t = Root THEN ZeroTable ELSE Junk]
    /\ vpc = "off"
    /\ filled = 0
    /\ walk = NoWalk

-----------------------------------------------------------------------------
(* Pages below an entry of level l, and the entry for page v.              *)
Spans ==
    [b \in DOMAIN Fans |->
        LET n == Len(Fans[b])
            Product[l \in 1 .. n] == IF l = n THEN 1 ELSE Fans[b][l + 1] * Product[l + 1]
        IN  Product]
Span(l) == Spans[Build][l]
Index(v, l) == (v \div Span(l)) % Fan(l)

(* The low pages are under entries that the root has, and callers name     *)
(* pages that have entries.                                                *)
ASSUME VmmAssumption ==
    /\ PageTables \in Clients
    /\ DOMAIN Fans = {"x86", "x86_64"}
    /\ Fans["x86"] \in [1 .. 2 -> Nat \ {0}] /\ Fans["x86_64"] \in [1 .. 4 -> Nat \ {0}]
    /\ NVirt \in Nat
    /\ \A b \in DOMAIN Fans : /\ IdentityRoots[b] \in 1 .. Fans[b][1]
                              /\ NVirt <= Fans[b][1] * Spans[b][1]
    /\ Requests \subseteq Virt \X Nat

(* The tables on the way to page v.                                        *)
Path(v) ==
    LET T[l \in 1 .. Depth] ==
            IF l = 1 THEN Root
            ELSE LET above == T[l - 1]
                     k     == Index(v, l - 1)
                 IN  IF above = NoTable \/ tab[above][k].kind # "small" THEN NoTable
                     ELSE tab[above][k].to
    IN  T

(* The physical page, or 0.                                                *)
vmm_phys(v) ==
    LET T   == Path(v)
        dir == T[Depth - 1]
        e   == tab[dir][Index(v, Depth - 1)]
    IN  IF dir = NoTable THEN 0
        ELSE CASE e.kind = "none" -> 0
               [] e.kind = "huge" -> e.to + Index(v, Depth)
               [] OTHER -> tab[e.to][Index(v, Depth)].to

(* A table is read and written at its physical address.                    *)
Reachable(t) == t = Root \/ vmm_phys(t) = t

-----------------------------------------------------------------------------
(* vmm_init.                                                               *)

(* The entry k of a table of large pages.                                  *)
IdentityTable(first, n) ==
    [k \in Slots |-> IF k < n THEN Huge(first + k * Fan(Depth)) ELSE NoEntry]

InitX86 ==
    /\ Build = "x86" /\ up /\ vpc = "off"
    /\ tab' = [tab EXCEPT ![Root] = IdentityTable(0, IdentityRoots[Build])]
    /\ vpc' = "idle"
    /\ UNCHANGED <<vars, filled, walk>>

(* The page pmm_alloc returned, none for 0.                                *)
Allocated == owner'[PageTables] \ owner[PageTables]

(* Leaves in the new table what was there.                                 *)
ClearedNot(t) == tab[t]

Cleared(t) == ZeroTable

(* x86_64: one table at a time, a pdpt and then its directories.  A 0 from *)
(* pmm_alloc is used as a table: page 0 is overwritten.                    *)
InitX64 ==
    /\ Build = "x86_64" /\ up /\ vpc = "off"
    /\ pmm_alloc(PageTables)
    /\ LET r   == filled \div (1 + Fan(2))
           j   == (filled % (1 + Fan(2))) - 1
           end == filled + 1 = IdentityRoots[Build] * (1 + Fan(2))
       IN  IF Allocated = {} THEN vpc' = "stopped" /\ UNCHANGED <<tab, filled>>
           ELSE /\ \E t \in Allocated :
                      tab' = IF j < 0 THEN [tab EXCEPT ![Root][r] = Small(t), ![t] = Cleared(t)]
                             ELSE [tab EXCEPT ![tab[Root][r].to][j] = Small(t),
                                     ![t] = IdentityTable(r * Span(1) + j * Span(2), Fan(3))]
                /\ filled' = filled + 1
                /\ vpc' = IF end THEN "idle" ELSE "off"
    /\ UNCHANGED walk

-----------------------------------------------------------------------------
(* vmm_map, one table at a time.                                           *)
StartMap(v, p) ==
    /\ vpc = "idle" /\ vpc' = "walk"
    /\ walk' = [NoWalk EXCEPT !.v = v, !.p = p]
    /\ UNCHANGED <<vars, tab, filled>>

Slot == Index(walk.v, walk.l)
Found == tab[walk.t][Slot]

Down(t) ==
    IF Reachable(t) THEN walk' = [walk EXCEPT !.t = t, !.l = @ + 1] /\ UNCHANGED vpc
                    ELSE vpc' = "stopped" /\ UNCHANGED walk

MapDown ==
    /\ vpc = "walk" /\ walk.l < Depth
    /\ Found.kind = "small"
    /\ Down(Found.to)
    /\ UNCHANGED <<vars, tab, filled>>

(* Inside a large page: kpanic on x86, nothing on x86_64.                  *)
MapHuge ==
    /\ vpc = "walk" /\ walk.l < Depth
    /\ Found.kind = "huge"
    /\ vpc' = IF Build = "x86" THEN "stopped" ELSE "idle"
    /\ walk' = NoWalk
    /\ UNCHANGED <<vars, tab, filled>>

(* Forgets to enter the new table into the one above.                      *)
LinkNot(t) == [tab EXCEPT ![t] = Cleared(t)]

Link(t) == [tab EXCEPT ![t] = Cleared(t), ![walk.t][Slot] = Small(t)]

(* get_or_create makes a table.  Without memory x86 panics and x86_64 goes *)
(* on with a null pointer.                                                 *)
MapNew ==
    /\ vpc = "walk" /\ walk.l < Depth
    /\ Found.kind = "none"
    /\ pmm_alloc(PageTables)
    /\ IF Allocated = {} THEN vpc' = "stopped" /\ UNCHANGED <<tab, walk>>
       ELSE \E t \in Allocated :
                Down(t) /\ tab' = IF Reachable(t) THEN Link(t) ELSE tab
    /\ UNCHANGED filled

MapSet ==
    /\ vpc = "walk" /\ walk.l = Depth
    /\ tab' = [tab EXCEPT ![walk.t][Slot] = Small(walk.p)]
    /\ vpc' = "idle"
    /\ walk' = NoWalk
    /\ UNCHANGED <<vars, filled>>

(* vmm_unmap: nothing inside a large page or without a table.              *)
vmm_unmap(v) ==
    /\ vpc = "idle"
    /\ LET T == Path(v)
       IN  IF \E l \in 1 .. Depth : T[l] # NoTable /\ ~ Reachable(T[l])
           THEN vpc' = "stopped" /\ UNCHANGED tab
           ELSE /\ tab' = IF T[Depth] = NoTable THEN tab
                          ELSE [tab EXCEPT ![T[Depth]][Index(v, Depth)] = NoEntry]
                /\ UNCHANGED vpc
    /\ UNCHANGED <<vars, filled, walk>>

-----------------------------------------------------------------------------
(* pmm_init comes first, and the other callers between calls of this code. *)
PmmInit == (InitEntry \/ InitFinish) /\ UNCHANGED vmmVars

Others ==
    /\ vpc = "idle"
    /\ \/ MarkRange
       \/ \E c \in Clients \ {PageTables} :
             \/ pmm_alloc(c)
             \/ FreePage(c)
             \/ \E n \in 0 .. MaxPages : pmm_alloc_n(c, n) \/ FreeRun(c, n)
    /\ UNCHANGED vmmVars

MNext ==
    \/ PmmInit \/ InitX86 \/ InitX64 \/ Others
    \/ MapDown \/ MapHuge \/ MapNew \/ MapSet
    \/ \E r \in Requests : StartMap(r[1], r[2]) \/ vmm_unmap(r[1])

MSpec == MInit /\ [][MNext]_mvars

-----------------------------------------------------------------------------
TablesAt ==
    LET At[l \in 1 .. Depth] ==
            IF l = 1 THEN {Root}
            ELSE {p \in Pages : \E t \in At[l - 1], k \in Slots : tab[t][k] = Small(p)}
    IN  At

(* The tables linked from the root form a tree of exactly the pages that   *)
(* were allocated for them: no table is reached twice, lost, or shared     *)
(* with another owner of memory, whatever was mapped and freed around it.  *)
(* A stop in the middle of a call may lose a page.                         *)
TablesPrivate ==
    vpc # "stopped" =>
        LET links == {x \in (owner[PageTables] \cup {Root}) \X Slots :
                         /\ \E l \in 1 .. Depth - 1 : x[1] \in TablesAt[l]
                         /\ tab[x[1]][x[2]].kind = "small"}
        IN  /\ {tab[x[1]][x[2]].to : x \in links} = owner[PageTables]
            /\ Cardinality(links) = Cardinality(owner[PageTables])

(* The state of AddressSpace.                                              *)
Low == 0 .. IdentityRoots[Build] * Span(1) - 1
Mapping == [v \in Virt |-> IF vpc = "off" THEN 0 ELSE vmm_phys(v)]
Asked == IF vpc = "walk" THEN <<walk.v, walk.p>> ELSE <<>>
Mode == IF vpc \in {"idle", "walk"} THEN "on" ELSE vpc

Space == INSTANCE AddressSpace WITH
    low <- Low, space <- Mapping, asked <- Asked, mode <- Mode

(* In both builds the tables are an address space: a new table brings no   *)
(* mapping of its own, vmm_map and vmm_unmap change one page only, and the *)
(* low pages, where the tables themselves are reached, stay as they are.   *)
IsAddressSpace == Space!ASSpec
=============================================================================
