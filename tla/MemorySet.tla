------------------------------ MODULE MemorySet ------------------------------
(***************************************************************************)
(* The memory set of a task (modules/axmem): areas of consecutive pages    *)
(* kept in a BTreeMap, and the page table they are mapped in.  An area is  *)
(* filled lazily, by page faults or by manual_alloc_for_lazy; munmap,      *)
(* mprotect and mmap over existing areas shrink and split them.            *)
(*                                                                         *)
(* Addresses and sizes count pages.  A physical page is named after the    *)
(* virtual page it was allocated for: pages never move to another address. *)
(* A page table entry is Unused, Fault (not present, of a lazy page) or    *)
(* the physical page and flags.  ok becomes FALSE where the code panics.   *)
(* An area may be empty: calls of size zero leave or make such areas.      *)
(***************************************************************************)
EXTENDS Integers, Sequences, FiniteSets, FiniteSetsExt

CONSTANTS
  NPage,          \* the user address space is the pages 0 .. NPage - 1
  FileLen,        \* the pages of the one file that is mapped
  Offsets,        \* the offsets at which mmap maps it
  MaxCalls,       \* bound on the system calls of one run
  R, RW,          \* the flags; both contain READ, as set_flags asserts
  Zero, Dirty,    \* the data of a new and of a written anonymous page
  Unused, Fault, None

ASSUME MemoryAssumption ==
  /\ NPage \in Nat /\ NPage > 2 /\ FileLen \in Nat /\ MaxCalls \in Nat
  /\ Offsets \subseteq 0 .. FileLen
  /\ R # RW /\ Unused # Fault
  /\ None \notin Nat \cup {Zero, Dirty}
  /\ \A p \in 0 .. (NPage - 1), f \in {R, RW} : [page |-> p, flags |-> f] \notin {Unused, Fault}
  /\ None \notin [flags : {R, RW}, src : Nat \cup {None}, data : Nat \cup {Zero, Dirty, None}]
  /\ None \notin [from : Nat, old : Nat, to : Nat, new : Nat, next : Nat, before : [0 .. (NPage - 1) ->
       [flags : {R, RW}, src : Nat \cup {None}, data : Nat \cup {Zero, Dirty, None}] \cup {None}]]

Page == 0 .. (NPage - 1)
Flags == {R, RW}
Span(s, n) == s .. (s + n - 1)

VARIABLES
  ms,     \* the memory set: owned_mem (a set of areas), pt, ok
  mem,    \* the data of each physical page
  file,   \* the data of each page of the file
  move,   \* the mremap in progress, or None
  odd,    \* one of the calls had size zero, or was an mremap to fewer pages
  calls   \* the number of system calls so far

vars == << ms, mem, file, move, odd, calls >>

-----------------------------------------------------------------------------
(* MapArea                                                                 *)

size(a) == Len(a.pages)
end_va(a) == a.vaddr + size(a)

(* The addresses of an area, and the physical page it has at address p.    *)
Cells(a) == Span(a.vaddr, size(a))
page_at(a, p) == a.pages[p - a.vaddr + 1]

overlap_with(a, start, end) ==
  \/ a.vaddr <= start /\ start < end_va(a)
  \/ start <= a.vaddr /\ a.vaddr < end

contained_in(a, start, end) == start <= a.vaddr /\ end_va(a) <= end

strict_contain(a, start, end) == a.vaddr < start /\ end < end_va(a)

(* The pages of a from address s to e, as an area; its file offset moves   *)
(* with it (SeekFrom::Current).  split, split3, remove_mid and the shrink  *)
(* functions cut areas this way.                                           *)
CutSameOffset(a, s, e) ==
  [a EXCEPT !.vaddr = s, !.pages = SubSeq(@, s - a.vaddr + 1, e - a.vaddr)]

Cut(a, s, e) ==
  [a EXCEPT !.vaddr = s, !.pages = SubSeq(@, s - a.vaddr + 1, e - a.vaddr),
            !.off = IF @ = None THEN None ELSE @ + (s - a.vaddr)]

-----------------------------------------------------------------------------
(* PageTable: map_fault_region and map_region fail on a page in use,       *)
(* unmap_region on an unused one; the callers unwrap.                      *)

map_region(m, s, n, entry) ==
  [m EXCEPT !.ok = @ /\ \A p \in Span(s, n) : p \in Page /\ m.pt[p] = Unused,
            !.pt = [p \in Page |-> IF p \in Span(s, n) THEN entry[p] ELSE @[p]]]

(* unmap_region of the pages that each area of A has among P, one area     *)
(* after the other: a page of two areas is unused the second time.         *)
unmap_region(m, A, P) ==
  [m EXCEPT
     !.ok = @ /\ \A a \in A : \A p \in Cells(a) \cap P :
                   /\ p \in Page /\ m.pt[p] # Unused
                   /\ \A b \in A \ {a} : p \notin Cells(b),
     !.pt = [p \in Page |-> IF p \in P /\ \E a \in A : p \in Cells(a) THEN Unused ELSE @[p]]]

update_regionAll(m, A, P, flags) ==
  [m EXCEPT !.pt = [p \in Page |->
     IF p \in P /\ \E a \in A : p \in Cells(a) THEN [page |-> p, flags |-> flags] ELSE @[p]]]

(* update_region of these pages: update passes over entries without a      *)
(* physical page.                                                          *)
update_region(m, A, P, flags) ==
  [m EXCEPT !.pt = [p \in Page |->
     IF /\ p \in P /\ \E a \in A : p \in Cells(a)
        /\ @[p] \notin {Unused, Fault}
     THEN [@[p] EXCEPT !.flags = flags] ELSE @[p]]]

-----------------------------------------------------------------------------
(* MemorySet                                                               *)

(* The areas of A are put into owned_mem under their addresses, each       *)
(* asserted to be new.                                                     *)
insert(m, A) ==
  [m EXCEPT !.ok = @ /\ \A a \in A : \A b \in m.owned \cup (A \ {a}) : b.vaddr # a.vaddr,
            !.owned = @ \cup A]

(* new_region without data: a lazy area.                                   *)
new_lazy(m, s, n, flags, off) ==
  insert(map_region(m, s, n, [p \in Page |-> Fault]),
         {[vaddr |-> s, pages |-> [i \in 1 .. n |-> None], flags |-> flags, off |-> off]})

(* new_region with data: its pages are allocated at once.                  *)
new_alloc(m, s, n, flags, off) ==
  insert(map_region(m, s, n, [p \in Page |-> [page |-> p, flags |-> flags]]),
         {[vaddr |-> s, pages |-> [i \in 1 .. n |-> s + i - 1], flags |-> flags, off |-> off]})

(* The parts of an area that overlaps start .. end - 1 outside of it, as   *)
(* split_for_area and mprotect cut it.                                     *)
RestSameOffset(a, start, end) ==
  IF contained_in(a, start, end) THEN {}
  ELSE IF strict_contain(a, start, end)
  THEN {Cut(a, a.vaddr, start), CutSameOffset(a, end, end_va(a))}
  ELSE IF start <= a.vaddr /\ a.vaddr < end
  THEN {Cut(a, end, end_va(a))}
  ELSE {Cut(a, a.vaddr, start)}

Rest(a, start, end) ==
  IF contained_in(a, start, end) THEN {}                       \* all of it inside
  ELSE IF strict_contain(a, start, end)
  THEN {Cut(a, a.vaddr, start), Cut(a, end, end_va(a))}        \* remove_mid, split3
  ELSE IF start <= a.vaddr /\ a.vaddr < end
  THEN {Cut(a, end, end_va(a))}                                \* shrink_left, split
  ELSE {Cut(a, a.vaddr, start)}                                \* shrink_right, split

CellsOf(A) == UNION {Cells(a) : a \in A}

max(i, j) == IF i > j THEN i ELSE j
min(i, j) == IF i < j THEN i ELSE j

overlapped(m, start, n) == {a \in m.owned : overlap_with(a, start, start + n)}

split_for_areaInside(m, start, n) ==
  unmap_region([m EXCEPT !.owned = {a \in @ : ~contained_in(a, start, start + n)}],
               {a \in m.owned : contained_in(a, start, start + n)}, Span(start, n))

(* The overlapped areas are taken out, cut, and what is left is put back;  *)
(* the pages that are in none of the parts are unmapped.                   *)
split_for_area(m, start, n) ==
  LET over  == overlapped(m, start, n)
      out   == [m EXCEPT !.owned = @ \ over]
      parts == UNION {Rest(a, start, start + n) : a \in over}
  IN insert(unmap_region(out, over, CellsOf(over) \ CellsOf(parts)), parts)

(* find_free_area: the segments in order; the room before the first one    *)
(* from the hint on, then the room between two of them.                    *)
find_free_areaHint(m, hint, n) ==
  LET ends == {hint} \cup {end_va(a) : a \in m.owned}
      fit  == {x \in ends : \E a \in m.owned : x + n <= a.vaddr}
  IN IF fit = {} THEN None ELSE Min(fit)

find_free_area(m, hint, n) ==
  LET first == Min({a.vaddr : a \in m.owned})
      Room(a) == {b.vaddr : b \in {b \in m.owned : b.vaddr > a.vaddr}}
      fit == {a \in m.owned : Room(a) # {} /\ end_va(a) + n <= Min(Room(a))}
  IN IF m.owned = {} THEN None
     ELSE IF hint + n <= first THEN hint
     ELSE IF fit = {} THEN None ELSE Min({end_va(a) : a \in fit})

(* The part of an area inside start .. end - 1, with its new flags.        *)
Inside(a, start, end, flags) ==
  [Cut(a, max(start, a.vaddr), min(end, end_va(a))) EXCEPT !.flags = flags]

area_of(m, p) == {a \in m.owned : a.vaddr <= p /\ p < end_va(a)}

(* MapArea::handle_page_fault once its tests have passed: the pages P of   *)
(* area a get physical pages; map_overwrite fails on an unused entry.      *)
load(m, a, P) ==
  LET loaded == [i \in DOMAIN a.pages |->
                   IF a.vaddr + i - 1 \in P THEN a.vaddr + i - 1 ELSE a.pages[i]]
  IN [m EXCEPT !.owned = (@ \ {a}) \cup {[a EXCEPT !.pages = loaded]},
               !.pt = [p \in Page |->
                         IF p \in P THEN [page |-> p, flags |-> a.flags] ELSE @[p]],
               !.ok = @ /\ \A p \in P : m.pt[p] # Unused]

(* The page of the file that an area has at address p, and what a new      *)
(* page there holds: zeros, or the page of the file.                       *)
source(a, p) == IF a.off = None THEN None ELSE a.off + (p - a.vaddr)
data(a, p) == IF a.off = None THEN Zero ELSE file[source(a, p)]

(* The page table entry that area a asks for at address p.                 *)
pte(a, p) ==
  IF page_at(a, p) = None THEN Fault ELSE [page |-> page_at(a, p), flags |-> a.flags]

(* clone_or_err: a new page table with the same areas, page by page.       *)
clone_orSkipLazy(m) ==
  [m EXCEPT !.pt = [p \in Page |-> IF m.pt[p] = Fault THEN Unused ELSE m.pt[p]]]

clone_or_err(m) ==
  [m EXCEPT
     !.ok = @ /\ \A a \in m.owned :     \* new_alloc takes pages[0]
              size(a) > 0 /\ \A p \in Cells(a) : p \in Page /\ area_of(m, p) = {a},
     !.pt = [p \in Page |-> IF area_of(m, p) = {} THEN Unused
                            ELSE pte(CHOOSE a \in area_of(m, p) : TRUE, p)]]

-----------------------------------------------------------------------------
(* The operations                                                          *)

Present(m, p) == m.pt[p] \notin {Unused, Fault}

(* Freed physical pages do not keep their data.                            *)
Keep(m, data_of) == [p \in Page |-> IF Present(m, p) THEN data_of[p] ELSE Zero]

(* The address space that the areas stand for, page by page.               *)
Bar == [p \in Page |->
          LET over == area_of(ms, p) IN
          IF over = {} THEN None
          ELSE LET a == CHOOSE a \in over : TRUE
                   f == page_at(a, p)
               IN [flags |-> a.flags, src |-> source(a, p),
                   data  |-> IF f = None THEN None ELSE mem[f]]]

AS == INSTANCE AddressSpace WITH vm <- Bar

(* A program is loaded at the bottom and the user stack at the top.        *)
Init ==
  LET empty == [owned |-> {}, pt |-> [p \in Page |-> Unused], ok |-> TRUE]
  IN /\ ms = new_alloc(new_alloc(empty, 0, 1, R, None), NPage - 1, 1, RW, None)
     /\ mem = [p \in Page |-> IF p \in {0, NPage - 1} THEN Dirty ELSE Zero]
     /\ file = [k \in 0 .. (FileLen - 1) |-> k]
     /\ move = None /\ odd = FALSE /\ calls = 0

(* The memory set becomes m.  A panic stops the kernel: what the operation *)
(* has done before it panics is left out.                                  *)
Becomes(m) == ms' = IF m.ok THEN m ELSE [ms EXCEPT !.ok = FALSE]

(* A call has the memory set for itself: an mremap in progress runs on.    *)
Ready == ms.ok /\ move = None

Call(unusual) == /\ Ready /\ calls < MaxCalls
                 /\ calls' = calls + 1 /\ odd' = (odd \/ unusual)

Backing(n) == {None} \cup {off \in Offsets : off + n <= FileLen}

mmap(start, n, flags, fixed, off) ==
  LET at == IF fixed THEN start ELSE find_free_area(ms, start, n)
      m  == IF fixed THEN split_for_area(ms, start, n) ELSE ms
  IN /\ Call(n = 0)
     /\ Becomes(IF at = None THEN ms ELSE new_lazy(m, at, n, flags, off))
     /\ mem' = Keep(ms', mem)
     /\ UNCHANGED << file, move >>

munmap(start, n) ==
  /\ Call(n = 0)
  /\ Becomes(split_for_area(ms, start, n))
  /\ mem' = Keep(ms', mem)
  /\ UNCHANGED << file, move >>

(* With size zero, split3 asserts start < end, and split at the start of   *)
(* an area makes two areas with one key.                                   *)
mprotect(start, n, flags) ==
  LET over == overlapped(ms, start, n)
      out  == [ms EXCEPT !.owned = @ \ over, !.ok = @ /\ (n = 0 => over = {})]
      Cuts(a) == Rest(a, start, start + n) \cup {Inside(a, start, start + n, flags)}
  IN /\ Call(n = 0)
     /\ Becomes(insert(update_region(out, over, Span(start, n), flags),
                       UNION {Cuts(a) : a \in over}))
     /\ UNCHANGED << mem, file, move >>

(* The pages of an area are numbered from its start: sync_page_with_backend *)
(* writes page i of the area to page i of the file (SeekFrom::Start), which *)
(* is taken to be writable.                                                *)
msync(start, n) ==
  LET Writers(k) == {a \in ms.owned : /\ a.off # None /\ k < size(a)
                                      /\ a.vaddr + k \in Span(start, n)
                                      /\ a.pages[k + 1] # None}
      last(k) == CHOOSE a \in Writers(k) : \A b \in Writers(k) : b.vaddr <= a.vaddr
  IN /\ Call(FALSE)
     /\ file' = [k \in DOMAIN file |->
                   IF Writers(k) = {} THEN file[k] ELSE mem[last(k).vaddr + k]]
     /\ UNCHANGED << ms, mem, move >>

(* mremap of n pages from s to a free place for k pages: the new region is *)
(* made, the old pages are copied one by one, the old region is unmapped.  *)
(* before is the address space at the call.                                *)
mremap(s, n, k) ==
  LET t == find_free_area(ms, s, k)
  IN /\ Call(n = 0 \/ k < n)
     /\ Becomes(IF t = None THEN ms ELSE new_lazy(ms, t, k, RW, None))
     /\ move' = IF t = None \/ ~ms'.ok THEN None
                ELSE [from |-> s, old |-> n, to |-> t, new |-> k, next |-> 0, before |-> Bar]
     /\ mem' = Keep(ms', mem)
     /\ UNCHANGED file

Moving == ms.ok /\ move # None

MovesOn == /\ move' = [move EXCEPT !.next = @ + 1]
           /\ UNCHANGED << file, odd, calls >>

(* A page that is present is copied to its place, also if the new region   *)
(* ends before it: manual_alloc_for_lazy allocates the page of whatever    *)
(* area is there.  The copy is a store, which must be allowed.             *)
copy_page ==
  LET p == move.from + move.next
      q == move.to + move.next
  IN /\ Moving /\ move.next < move.old /\ Present(ms, p)
     /\ \E a \in area_of(ms, q) :
          LET m == IF Present(ms, q) THEN ms ELSE load(ms, a, {q})
          IN /\ Becomes([m EXCEPT !.ok = @ /\ m.pt[q].flags = RW])
             /\ mem' = IF ms'.ok THEN [mem EXCEPT ![q] = mem[p]] ELSE mem
     /\ MovesOn

(* A page that is not present is passed over (NotMapped), and one that has *)
(* no page to be copied to.                                                *)
skip_page ==
  /\ Moving /\ move.next < move.old
  /\ \/ ~Present(ms, move.from + move.next)
     \/ area_of(ms, move.to + move.next) = {}
  /\ UNCHANGED << ms, mem >>
  /\ MovesOn

GivesUp == /\ move' = None
           /\ UNCHANGED << ms, mem, file, odd, calls >>

give_upLazy ==
  /\ Moving /\ move.next < move.old
  /\ ~Present(ms, move.from + move.next)
  /\ GivesUp

(* If the page table has no table for an unused page, mremap returns -1:   *)
(* the new region and the copies stay.                                     *)
give_up ==
  /\ Moving /\ move.next < move.old
  /\ ms.pt[move.from + move.next] = Unused
  /\ GivesUp

unmap_old ==
  /\ Moving /\ move.next >= move.old
  /\ Becomes(split_for_area(ms, move.from, move.old))
  /\ mem' = Keep(ms', mem)
  /\ move' = None
  /\ UNCHANGED << file, odd, calls >>

(* Dropping the set, or exec.                                              *)
unmap_user_areas ==
  /\ Call(FALSE)
  /\ Becomes([unmap_region(ms, ms.owned, CellsOf(ms.owned)) EXCEPT !.owned = {}])
  /\ mem' = Keep(ms', mem)
  /\ UNCHANGED << file, move >>

(* A page fault at a lazy page of an area that allows the access, and      *)
(* manual_alloc_for_lazy, which does not ask for access; other faults are  *)
(* errors that change nothing.                                             *)
handle_page_fault(p) ==
  /\ Ready /\ ~Present(ms, p)
  /\ \E a \in area_of(ms, p) :
       /\ page_at(a, p) = None
       /\ Becomes(load(ms, a, {p}))
       /\ mem' = [mem EXCEPT ![p] = data(a, p)]
  /\ UNCHANGED << file, move, odd, calls >>

(* The program writes to a page.                                           *)
store(p) ==
  /\ Ready /\ Present(ms, p) /\ ms.pt[p].flags = RW
  /\ mem' = [mem EXCEPT ![ms.pt[p].page] = Dirty]
  /\ UNCHANGED << ms, file, move, odd, calls >>

Next ==
  \/ \E p \in Page : handle_page_fault(p) \/ store(p)
  \/ \E s \in Page : \E n \in 0 .. (NPage - s) :
       \/ \E f \in Flags, off \in Backing(n), fixed \in BOOLEAN : mmap(s, n, f, fixed, off)
       \/ munmap(s, n)
       \/ \E f \in Flags : mprotect(s, n, f)
       \/ msync(s, n)
       \/ \E k \in 0 .. (NPage - 1) : mremap(s, n, k)
  \/ copy_page \/ skip_page \/ give_up \/ unmap_old
  \/ unmap_user_areas

Spec == Init /\ [][Next]_vars

-----------------------------------------------------------------------------
(* Until a call of size zero or an mremap to fewer pages is made, no       *)
(* assertion and no unwrap of the module fails: areas are put back under   *)
(* fresh keys, what is unmapped was mapped, and copies go to pages that    *)
(* may be written.                                                         *)
NoPanic == odd \/ ms.ok

(* The areas do not overlap, and the page table agrees with them page by   *)
(* page: the physical page and flags of a loaded one, a fault entry for a  *)
(* lazy one, nothing elsewhere.  Empty areas and a half-done or abandoned  *)
(* mremap are no exception.                                                *)
PageTableAgrees ==
  \A p \in Page :
    \/ area_of(ms, p) = {} /\ ms.pt[p] = Unused
    \/ \E a \in ms.owned : area_of(ms, p) = {a} /\ ms.pt[p] = pte(a, p)

(* What find_free_area returns is free, and it fails only if between any   *)
(* two areas there is no room or another area in the way.                  *)
FindFree ==
  \A hint \in Page, n \in 1 .. NPage :
    LET at == find_free_area(ms, hint, n)
    IN IF at # None THEN \A p \in Span(at, n) : p \in Page /\ area_of(ms, p) = {}
       ELSE \A a, b \in ms.owned :
              end_va(a) + n <= b.vaddr => overlapped(ms, end_va(a), n) \ {a} # {}

(* A clone maps the same pages the same way, lazy ones included, and is    *)
(* made without a panic unless there is an empty area.                     *)
CloneFaithful == (\A a \in ms.owned : size(a) > 0) => clone_or_err(ms) = ms

(* However areas are cut, each page keeps its flags, its data and its      *)
(* place in the file until a step maps, unmaps, protects, fills or copies  *)
(* it: the memory set implements the address space.                        *)
Implements == AS!Spec

(* An mremap of mapped pages to at least as many moves them, with their    *)
(* data, and leaves every other page as it was.                            *)
MoveFaithful ==
  [][/\ move # None /\ move' = None
     /\ 0 < move.old /\ move.old <= move.new
     /\ \A p \in Span(move.from, move.old) : move.before[p] # None
     => Bar' = AS!Moved(move.before, move.from, move.old, move.to, move.new)]_vars

(* "Sync pages in index back to self.backend": msync writes a page to the  *)
(* place of the file it belongs to.                                        *)
MsyncWritesBack ==
  [][\A s \in Page, n \in 1 .. NPage :
       msync(s, n) => \A p \in Span(s, n) \cap Page :
         (Bar[p] # None /\ Bar[p].src # None /\ Bar[p].data # None)
           => file'[Bar[p].src] = Bar[p].data]_vars
=============================================================================
