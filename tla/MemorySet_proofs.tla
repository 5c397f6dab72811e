--------------------------- MODULE MemorySet_proofs ---------------------------
(* Proofs about MemorySet, for an address space of any size: areas and     *)
(* page table stay in agreement whatever is mapped, cut and unmapped, the  *)
(* memory set implements the address space it promises, and nothing fails  *)
(* until a call of size zero, or an mremap to fewer pages, is made.        *)
EXTENDS MemorySet, SequenceTheorems, WellFoundedInduction, TLAPS

-----------------------------------------------------------------------------
(* The invariant.                                                          *)

AreaRec == [vaddr : Page, pages : Seq(Page \cup {None}), flags : Flags, off : Nat \cup {None}]

(* The pages of an area are in the address space and in the file; what is  *)
(* loaded at an address is the physical page named after it.               *)
Area(a) ==
  /\ a \in AreaRec
  /\ end_va(a) <= NPage
  /\ \A p \in Cells(a) : page_at(a, p) \in {None, p}
  /\ a.off # None => a.off + size(a) <= FileLen

(* Areas have different keys, and do not overlap.  This also says that an  *)
(* empty area does not lie in the middle of another one.                   *)
Beside(a, s, e) == end_va(a) <= s \/ e <= a.vaddr
Apart(a, b) == a.vaddr # b.vaddr /\ Beside(a, b.vaddr, end_va(b))

AreasOK(O) ==
  /\ \A a \in O : Area(a)
  /\ \A a, b \in O : a = b \/ Apart(a, b)

Covered(O, p) == \E a \in O : p \in Cells(a)

TableOK(m) ==
  /\ \A a \in m.owned : \A p \in Cells(a) : m.pt[p] = pte(a, p)
  /\ \A p \in Page : ~Covered(m.owned, p) => m.pt[p] = Unused

Entry == {Unused, Fault} \cup [page : Page, flags : Flags]

MS == [owned : SUBSET AreaRec, pt : [Page -> Entry], ok : BOOLEAN]

Sound(m) == m \in MS /\ AreasOK(m.owned) /\ TableOK(m)
MSOK(m) == Sound(m) /\ m.ok

(* No area is empty.                                                       *)
Filled(O) == \A a \in O : size(a) > 0

-----------------------------------------------------------------------------
(* Areas.                                                                  *)

(* What the constants are.                                                 *)
LEMMA Numbers ==
  /\ NPage \in Nat /\ NPage > 2 /\ FileLen \in Nat /\ None \notin Nat
  /\ Unused # Fault /\ R # RW
  /\ \A p \in Page, f \in Flags : [page |-> p, flags |-> f] \notin {Unused, Fault}
BY MemoryAssumption DEF Page, Flags

(* The numbers of an area.                                                 *)
LEMMA AreaFacts ==
  ASSUME NEW a, Area(a)
  PROVE  /\ a.vaddr \in Nat /\ a.vaddr \in Page /\ size(a) \in Nat /\ end_va(a) \in Nat
         /\ a.vaddr <= end_va(a) /\ end_va(a) = a.vaddr + size(a) /\ end_va(a) <= NPage
         /\ a.flags \in Flags /\ a.off \in Nat \cup {None} /\ a \in AreaRec
         /\ \A p : p \in Cells(a) <=> p \in Int /\ a.vaddr <= p /\ p < end_va(a)
         /\ Cells(a) \subseteq Page
<1>1. a.vaddr \in Page /\ a.pages \in Seq(Page \cup {None}) /\ a.flags \in Flags
      /\ a.off \in Nat \cup {None} /\ a \in AreaRec
  BY DEF Area, AreaRec
<1>2. a.vaddr \in Nat /\ size(a) \in Nat
  BY <1>1, Numbers DEF Page, size
<1>3. end_va(a) = a.vaddr + size(a) /\ end_va(a) <= NPage
  BY DEF Area, end_va
<1>4. \A p : p \in Cells(a) <=> p \in Int /\ a.vaddr <= p /\ p < end_va(a)
  BY <1>2, <1>3 DEF Cells, Span
<1>5. Cells(a) \subseteq Page
  BY <1>2, <1>3, <1>4, Numbers DEF Page
<1> QED BY <1>1, <1>2, <1>3, <1>4, <1>5

(* Two areas show the same page at address p.                              *)
SameView(a, b, p) ==
  a.flags = b.flags /\ page_at(a, p) = page_at(b, p) /\ source(a, p) = source(b, p)

(* The same page has the same entry in the page table.                     *)
LEMMA SameEntry == ASSUME NEW a, NEW b, NEW p, SameView(a, b, p) PROVE pte(a, p) = pte(b, p)
BY DEF SameView, pte

(* The entry of a page is in use, and present if the page is loaded.       *)
LEMMA EntryOf ==
  ASSUME NEW a, Area(a), NEW p \in Cells(a)
  PROVE  /\ pte(a, p) \in Entry /\ pte(a, p) # Unused /\ page_at(a, p) \in {None, p}
         /\ page_at(a, p) = None => pte(a, p) = Fault
         /\ page_at(a, p) = p => pte(a, p) = [page |-> p, flags |-> a.flags] /\ p # None
         /\ pte(a, p) = Fault => page_at(a, p) = None
<1>1. page_at(a, p) \in {None, p} /\ p \in Page /\ a.flags \in Flags /\ p # None
  BY AreaFacts, Numbers DEF Area, Page
<1> QED BY <1>1, Numbers DEF pte, Entry

(* b lies in a; its key is not the end of a.                               *)
Within(a, b) ==
  /\ Area(b) /\ a.vaddr <= b.vaddr /\ end_va(b) <= end_va(a)
  /\ b.vaddr = a.vaddr \/ b.vaddr < end_va(a)

(* b is a part of a.                                                       *)
Part(a, b) ==
  /\ Within(a, b)
  /\ \A p \in Cells(b) : SameView(a, b, p)

(* Cut yields a part: pages and file offset move with the address.         *)
LEMMA CutPart ==
  ASSUME NEW a, Area(a), NEW s \in Int, NEW e \in Int, a.vaddr <= s, s <= e, e <= end_va(a),
         s = a.vaddr \/ s < end_va(a)
  PROVE  Part(a, Cut(a, s, e)) /\ Cut(a, s, e).vaddr = s /\ end_va(Cut(a, s, e)) = e
<1> DEFINE b == Cut(a, s, e)
           v == s - a.vaddr + 1
           w == e - a.vaddr
           q == SubSeq(a.pages, v, w)
<1>1. /\ a.vaddr \in Nat /\ size(a) \in Nat /\ end_va(a) = a.vaddr + size(a)
      /\ end_va(a) <= NPage /\ a.flags \in Flags /\ a.off \in Nat \cup {None} /\ a \in AreaRec
      /\ \A p : p \in Cells(a) <=> p \in Int /\ a.vaddr <= p /\ p < end_va(a)
  BY AreaFacts
<1>2. a.pages \in Seq(Page \cup {None}) /\ Len(a.pages) = size(a)
  BY <1>1 DEF AreaRec, size
<1>3. /\ v \in Int /\ w \in Int /\ w - v + 1 = e - s
      /\ \A i \in v .. w : i \in 1 .. Len(a.pages)
  BY <1>1, <1>2
<1>4. /\ q \in Seq(Page \cup {None}) /\ Len(q) = e - s
      /\ \A i \in 1 .. (e - s) : q[i] = a.pages[v + i - 1]
  <2> HIDE DEF v, w
  <2>1. \A i \in v .. w : a.pages[i] \in Page \cup {None}
    BY <1>2, <1>3, ElementOfSeq
  <2>2. /\ q \in Seq(Page \cup {None})
        /\ Len(q) = IF v <= w THEN w - v + 1 ELSE 0
        /\ \A i \in 1 .. (w - v + 1) : q[i] = a.pages[v + i - 1]
    BY <1>3, <2>1, SubSeqProperties
  <2> QED BY <1>3, <2>2
<1>5. /\ b.vaddr = s /\ b.pages = q /\ b.flags = a.flags
      /\ b.off = IF a.off = None THEN None ELSE a.off + (s - a.vaddr)
  BY <1>1 DEF Cut, AreaRec
<1>6. b \in AreaRec
  <2>1. s \in Page
    BY <1>1, AreaFacts, Numbers DEF Page
  <2>2. ASSUME NEW o \in Nat \cup {None}, NEW r \in Seq(Page \cup {None})
        PROVE  [a EXCEPT !.vaddr = s, !.pages = r, !.off = o] \in AreaRec
    BY <1>1, <2>1 DEF AreaRec
  <2>3. b = [a EXCEPT !.vaddr = s, !.pages = q, !.off = b.off]
    BY <1>1 DEF Cut, AreaRec
  <2>4. b.off \in Nat \cup {None}
    BY <1>1, <1>5
  <2> HIDE DEF b, q
  <2> QED BY <1>4, <2>2, <2>3, <2>4
<1> HIDE DEF q, b
<1>7. size(b) = e - s /\ end_va(b) = e
  <2>1. size(b) = e - s
    BY <1>4, <1>5, Zenon DEF size
  <2>2. b.vaddr = s /\ s + (e - s) = e
    BY <1>5
  <2> QED BY <2>1, <2>2, Zenon DEF end_va
<1>8. \A p : p \in Cells(b) <=> p \in Int /\ s <= p /\ p < e
  BY <1>5, <1>7 DEF Cells, Span
<1>9. \A p \in Cells(b) : page_at(b, p) = page_at(a, p)
  <2> SUFFICES ASSUME NEW p \in Cells(b) PROVE q[p - s + 1] = a.pages[p - a.vaddr + 1]
    BY <1>5 DEF page_at
  <2>1. p - s + 1 \in 1 .. (e - s) /\ v + (p - s + 1) - 1 = p - a.vaddr + 1
    BY <1>1, <1>8
  <2> HIDE DEF v
  <2> QED BY <1>4, <2>1
<1>10. \A p \in Cells(b) : source(b, p) = source(a, p)
  <2> SUFFICES ASSUME NEW p \in Cells(b) PROVE source(b, p) = source(a, p)
    OBVIOUS
  <2>1. CASE a.off = None
    BY <1>5, <2>1 DEF source
  <2>2. CASE a.off # None
    <3>1. b.off # None /\ b.off = a.off + (s - a.vaddr) /\ p \in Int /\ a.off \in Nat
      BY <1>1, <1>5, <1>8, <2>2, Numbers
    <3> QED BY <1>1, <1>5, <2>2, <3>1 DEF source
  <2> QED BY <2>1, <2>2
<1>11. Area(b)
  <2>1. end_va(b) <= NPage
    BY <1>1, <1>7, Numbers
  <2>2. \A p \in Cells(b) : page_at(b, p) \in {None, p}
    BY <1>1, <1>8, <1>9 DEF Area
  <2>3. b.off # None => b.off + size(b) <= FileLen
    <3> SUFFICES ASSUME b.off # None PROVE b.off + size(b) <= FileLen
      OBVIOUS
    <3>1. a.off # None /\ a.off \in Nat /\ a.off + size(a) <= FileLen
      BY <1>1, <1>5 DEF Area
    <3>2. b.off = a.off + (s - a.vaddr)
      BY <1>5, <3>1
    <3> QED BY <1>1, <1>7, <3>1, <3>2, Numbers
  <2> QED BY <1>6, <2>1, <2>2, <2>3 DEF Area
<1> QED BY <1>1, <1>5, <1>7, <1>9, <1>10, <1>11 DEF Part, Within, SameView, b

(* The parts of an area outside s .. e - 1 lie apart and are all of it,    *)
(* unless it starts at an empty region: then shrink_right empties it.      *)
LEMMA RestParts ==
  ASSUME NEW a, Area(a), NEW s \in Int, NEW e \in Int, s <= e, overlap_with(a, s, e)
  PROVE  /\ \A b \in Rest(a, s, e) : Part(a, b) /\ Beside(b, s, e)
         /\ \A b, c \in Rest(a, s, e) : b = c \/ Apart(b, c)
         /\ \A p \in Cells(a) :
              p \in s .. (e - 1) \/ Covered(Rest(a, s, e), p) \/ (s = e /\ s = a.vaddr)
         /\ s < e => \A b \in Rest(a, s, e) : b.vaddr < end_va(b)
         /\ s = e /\ s = a.vaddr => \A b \in Rest(a, s, e) : Cells(b) = {}
<1> DEFINE l == Cut(a, a.vaddr, s)
           r == Cut(a, e, end_va(a))
<1>1. /\ a.vaddr \in Int /\ end_va(a) \in Int /\ a.vaddr <= end_va(a)
      /\ \A p : p \in Cells(a) <=> p \in Int /\ a.vaddr <= p /\ p < end_va(a)
  BY AreaFacts
<1>2. \/ a.vaddr <= s /\ s < end_va(a)
      \/ s <= a.vaddr /\ a.vaddr < e
  BY DEF overlap_with
<1>3. a.vaddr <= s /\ s <= end_va(a) => Part(a, l) /\ l.vaddr = a.vaddr /\ end_va(l) = s
  BY <1>1, CutPart
<1>4. a.vaddr <= e /\ e < end_va(a) => Part(a, r) /\ r.vaddr = e /\ end_va(r) = end_va(a)
  BY <1>1, CutPart
<1>5. /\ a.vaddr <= s /\ s <= end_va(a) =>
           \A p : p \in Cells(l) <=> p \in Int /\ a.vaddr <= p /\ p < s
      /\ a.vaddr <= e /\ e < end_va(a) =>
           \A p : p \in Cells(r) <=> p \in Int /\ e <= p /\ p < end_va(a)
  BY <1>3, <1>4, AreaFacts DEF Part, Within
<1> HIDE DEF l, r
<1>6. CASE contained_in(a, s, e)
  <2>1. Rest(a, s, e) = {}
    BY <1>6 DEF Rest
  <2> QED BY <1>1, <1>6, <2>1 DEF contained_in
<1>7. CASE a.vaddr < s /\ e < end_va(a)
  <2>1. Rest(a, s, e) = {l, r}
    BY <1>1, <1>7 DEF Rest, contained_in, strict_contain, l, r
  <2>2. Apart(l, r) /\ Apart(r, l)
    BY <1>1, <1>3, <1>4, <1>7 DEF Apart, Beside
  <2> QED BY <1>1, <1>3, <1>4, <1>5, <1>7, <2>1, <2>2 DEF Covered, Beside
<1>8. CASE s <= a.vaddr /\ a.vaddr < e /\ e < end_va(a)
  <2>1. Rest(a, s, e) = {r}
    BY <1>1, <1>8 DEF Rest, contained_in, strict_contain, r
  <2> QED BY <1>1, <1>4, <1>5, <1>8, <2>1 DEF Covered, Beside
<1>9. CASE a.vaddr < s /\ s < end_va(a) /\ end_va(a) <= e
  <2>1. Rest(a, s, e) = {l}
    BY <1>1, <1>9 DEF Rest, contained_in, strict_contain, l
  <2> QED BY <1>1, <1>3, <1>5, <1>9, <2>1 DEF Covered, Beside
<1>10. CASE s = a.vaddr /\ s = e /\ e < end_va(a)
  <2>1. Rest(a, s, e) = {l}
    BY <1>1, <1>10 DEF Rest, contained_in, strict_contain, l
  <2> QED BY <1>1, <1>3, <1>5, <1>10, <2>1 DEF Beside
<1> QED BY <1>1, <1>2, <1>6, <1>7, <1>8, <1>9, <1>10 DEF contained_in

(* A has the areas C[a] inside each area a of over, apart from each other. *)
Fits(over, C, A) ==
  /\ \A b : b \in A <=> \E a \in over : b \in C[a]
  /\ \A a \in over : \A b \in C[a] : Within(a, b)
  /\ \A a \in over : \A b, c \in C[a] : b = c \/ Apart(b, c)

(* The keys of the areas A are new.                                        *)
Fresh(A, O) == \A a \in A : \A b \in O \cup (A \ {a}) : b.vaddr # a.vaddr

(* Each area of over is replaced by those inside of it.                    *)
LEMMA Refit ==
  ASSUME NEW O, AreasOK(O), NEW over \in SUBSET O, NEW C, NEW A, Fits(over, C, A)
  PROVE  /\ AreasOK((O \ over) \cup A) /\ A \subseteq AreaRec
         /\ Fresh(A, O \ over)
<1> USE DEF Fits
<1>1. \A a \in (O \ over) \cup A : Area(a)
  BY DEF AreasOK, Within
<1>2. \A a \in O : Area(a)
  BY DEF AreasOK
<1>3. ASSUME NEW b \in A, NEW c \in O \ over PROVE Apart(b, c) /\ Apart(c, b)
  <2>1. PICK a \in over : b \in C[a]
    OBVIOUS
  <2>2. Apart(a, c)
    BY DEF AreasOK
  <2>3. Area(a) /\ Area(b) /\ Area(c) /\ Within(a, b)
    BY <1>1, <1>2, <2>1
  <2> QED BY <2>2, <2>3, AreaFacts DEF Apart, Beside, Within
<1>4. ASSUME NEW b \in A, NEW c \in A PROVE b = c \/ Apart(b, c)
  <2>1. PICK a \in over : b \in C[a]
    OBVIOUS
  <2>2. PICK d \in over : c \in C[d]
    OBVIOUS
  <2>3. Area(a) /\ Area(b) /\ Within(a, b) /\ Area(d) /\ Area(c) /\ Within(d, c)
    BY <1>1, <1>2, <2>1, <2>2
  <2>4. CASE a = d
    BY <2>1, <2>2, <2>4
  <2>5. CASE Apart(a, d)
    BY <2>3, <2>5, AreaFacts DEF Apart, Beside, Within
  <2> QED BY <2>4, <2>5 DEF AreasOK
<1>5. \A b, c : Apart(b, c) => b.vaddr # c.vaddr
  BY DEF Apart
<1>6. AreasOK((O \ over) \cup A)
  BY <1>1, <1>3, <1>4 DEF AreasOK
<1>7. A \subseteq AreaRec
  BY <1>1 DEF Area
<1> QED BY <1>3, <1>4, <1>5, <1>6, <1>7 DEF Fresh

-----------------------------------------------------------------------------
(* The operators on memory sets, field by field.                           *)

(* insert asserts that the keys are fresh.                                 *)
LEMMA InsertEffect ==
  ASSUME NEW m \in MS, NEW A \in SUBSET AreaRec
  PROVE  /\ insert(m, A) \in MS
         /\ insert(m, A).owned = m.owned \cup A /\ insert(m, A).pt = m.pt
         /\ m.ok /\ Fresh(A, m.owned) => insert(m, A).ok
         /\ insert(m, A).ok => m.ok /\ Fresh(A, m.owned)
BY DEF insert, MS, Fresh

(* Areas taken out of owned_mem.                                           *)
LEMMA WithoutEffect ==
  ASSUME NEW m \in MS, NEW over
  PROVE  LET w == [m EXCEPT !.owned = @ \ over]
         IN w \in MS /\ w.owned = m.owned \ over /\ w.pt = m.pt /\ w.ok = m.ok
BY DEF MS

(* unmap_region, if each page is mapped and in one of the areas.           *)
LEMMA UnmapEffect ==
  ASSUME NEW m \in MS, NEW A, NEW P
  PROVE  /\ unmap_region(m, A, P) \in MS
         /\ unmap_region(m, A, P).owned = m.owned
         /\ \A p \in Page : unmap_region(m, A, P).pt[p]
              = IF p \in P /\ Covered(A, p) THEN Unused ELSE m.pt[p]
         /\ m.ok /\ (\A a \in A : \A p \in Cells(a) \cap P :
                       /\ p \in Page /\ m.pt[p] # Unused
                       /\ \A b \in A \ {a} : p \notin Cells(b))
              => unmap_region(m, A, P).ok
<1> DEFINE f == [p \in Page |-> IF p \in P /\ \E a \in A : p \in Cells(a) THEN Unused ELSE m.pt[p]]
           k == m.ok /\ \A a \in A : \A p \in Cells(a) \cap P :
                          /\ p \in Page /\ m.pt[p] # Unused
                          /\ \A b \in A \ {a} : p \notin Cells(b)
<1>1. f \in [Page -> Entry]
  BY DEF MS, Entry
<1>2. unmap_region(m, A, P) = [m EXCEPT !.ok = k, !.pt = f]
  BY DEF unmap_region, MS
<1>3. k \in BOOLEAN
  OBVIOUS
<1>4. \A p \in Page : f[p] = IF p \in P /\ Covered(A, p) THEN Unused ELSE m.pt[p]
  BY DEF Covered
<1>5. ASSUME NEW g \in [Page -> Entry], NEW j \in BOOLEAN
      PROVE  LET w == [m EXCEPT !.ok = j, !.pt = g]
             IN w \in MS /\ w.owned = m.owned /\ w.pt = g /\ w.ok = j
  BY DEF MS
<1>6. k => [m EXCEPT !.ok = k, !.pt = f].ok
  BY <1>1, <1>3, <1>5
<1> HIDE DEF f, k
<1>7. /\ [m EXCEPT !.ok = k, !.pt = f] \in MS
      /\ [m EXCEPT !.ok = k, !.pt = f].owned = m.owned
      /\ [m EXCEPT !.ok = k, !.pt = f].pt = f
  BY <1>1, <1>3, <1>5
<1>8. (k => unmap_region(m, A, P).ok) /\ unmap_region(m, A, P).pt = f
  BY <1>2, <1>6, <1>7
<1> QED BY <1>2, <1>4, <1>7, <1>8 DEF k

(* update_region: present entries get the flags.                           *)
LEMMA UpdateEffect ==
  ASSUME NEW m \in MS, NEW A, NEW P, NEW f \in Flags
  PROVE  LET w == update_region(m, A, P, f)
         IN /\ w \in MS /\ w.owned = m.owned /\ w.ok = m.ok
            /\ \A p \in Page : w.pt[p] = IF p \in P /\ Covered(A, p) /\ m.pt[p] \notin {Unused, Fault}
                                         THEN [page |-> m.pt[p].page, flags |-> f] ELSE m.pt[p]
<1> DEFINE g == [p \in Page |-> IF /\ p \in P /\ \E a \in A : p \in Cells(a)
                                   /\ m.pt[p] \notin {Unused, Fault}
                                THEN [m.pt[p] EXCEPT !.flags = f] ELSE m.pt[p]]
<1>1. ASSUME NEW p \in Page
      PROVE  /\ m.pt[p] \in Entry
             /\ m.pt[p] \notin {Unused, Fault} =>
                  /\ [m.pt[p] EXCEPT !.flags = f] = [page |-> m.pt[p].page, flags |-> f]
                  /\ [m.pt[p] EXCEPT !.flags = f] \in Entry
  BY DEF MS, Entry
<1>2. g \in [Page -> Entry]
  BY <1>1
<1>3. \A p \in Page : g[p] = IF p \in P /\ Covered(A, p) /\ m.pt[p] \notin {Unused, Fault}
                             THEN [page |-> m.pt[p].page, flags |-> f] ELSE m.pt[p]
  BY <1>1 DEF Covered
<1>4. update_region(m, A, P, f) = [m EXCEPT !.pt = g]
  BY DEF update_region, MS
<1> HIDE DEF g
<1>5. LET w == [m EXCEPT !.pt = g] IN w \in MS /\ w.owned = m.owned /\ w.ok = m.ok /\ w.pt = g
  BY <1>2 DEF MS
<1> QED BY <1>3, <1>4, <1>5

-----------------------------------------------------------------------------
(* split_for_area and mprotect.                                            *)

(* The areas Q show at address p what the areas O show.                    *)
Shows(O, Q, p) ==
  /\ Covered(O, p) <=> Covered(Q, p)
  /\ \A a \in O, b \in Q : p \in Cells(a) /\ p \in Cells(b) => SameView(a, b, p)

(* An area with a page in the region overlaps it.                          *)
LEMMA Overlapping ==
  ASSUME NEW a, Area(a), NEW s \in Int, NEW n \in Int, NEW p \in Cells(a), p \in Span(s, n)
  PROVE  overlap_with(a, s, s + n)
<1>1. /\ a.vaddr \in Int /\ end_va(a) \in Int /\ a.vaddr <= p /\ p < end_va(a)
      /\ p \in Int /\ s <= p /\ p < s + n
  BY AreaFacts DEF Span
<1> QED BY <1>1 DEF overlap_with

(* An area that does not overlap a region lies beside it.                  *)
LEMMA NotOverlapping ==
  ASSUME NEW a, Area(a), NEW s \in Int, NEW n \in Nat, ~overlap_with(a, s, s + n)
  PROVE  Beside(a, s, s + n)
<1>1. a.vaddr \in Int /\ end_va(a) \in Int /\ a.vaddr <= end_va(a)
  BY AreaFacts
<1> QED BY <1>1 DEF overlap_with, Beside

(* Two areas of a memory set that have a common address are the same.      *)
LEMMA OneArea ==
  ASSUME NEW O, AreasOK(O), NEW a \in O, NEW b \in O, NEW p, p \in Cells(a), p \in Cells(b)
  PROVE  a = b
<1>1. Area(a) /\ Area(b) /\ (a = b \/ Apart(a, b))
  BY DEF AreasOK
<1> QED BY <1>1, AreaFacts DEF Apart, Beside

(* w has nothing at the pages S, and shows m elsewhere.                    *)
Without(m, w, S) ==
  \A p \in Page : IF p \in S THEN ~Covered(w.owned, p) ELSE Shows(m.owned, w.owned, p)

(* The pages that split_for_area frees: with size zero, those of the area  *)
(* that starts there.                                                      *)
Removed(m, s, n) == IF n = 0 THEN CellsOf({a \in m.owned : a.vaddr = s}) ELSE Span(s, n)

(* What split_for_area leaves of an area, and the pages it frees.          *)
LEMMA SplitParts ==
  ASSUME NEW m, AreasOK(m.owned), NEW s \in Int, NEW n \in Nat,
         NEW a \in m.owned, overlap_with(a, s, s + n)
  PROVE  /\ \A b \in Rest(a, s, s + n) :
              /\ Part(a, b) /\ Beside(b, s, s + n) /\ (n > 0 => b.vaddr < end_va(b))
              /\ \A p \in Cells(b) : p \in Cells(a) /\ p \notin Removed(m, s, n)
         /\ \A b, c \in Rest(a, s, s + n) : b = c \/ Apart(b, c)
         /\ \A p \in Cells(a) : p \in Removed(m, s, n) \/ Covered(Rest(a, s, s + n), p)
<1> DEFINE A == Rest(a, s, s + n)
           e == s + n
<1>1. /\ Area(a) /\ a.vaddr \in Int /\ end_va(a) \in Int /\ a.vaddr <= end_va(a)
      /\ \A p : p \in Cells(a) <=> p \in Int /\ a.vaddr <= p /\ p < end_va(a)
  BY AreaFacts DEF AreasOK
<1>2. /\ \A b \in A : Part(a, b) /\ Beside(b, s, e)
      /\ \A b, c \in A : b = c \/ Apart(b, c)
      /\ \A p \in Cells(a) : p \in s .. (e - 1) \/ Covered(A, p) \/ (n = 0 /\ s = a.vaddr)
      /\ n > 0 => \A b \in A : b.vaddr < end_va(b)
      /\ n = 0 /\ s = a.vaddr => \A b \in A : Cells(b) = {}
  <2>1. e \in Int /\ s <= e /\ (n > 0 <=> s < e) /\ (n = 0 <=> s = e)
    OBVIOUS
  <2> HIDE DEF A
  <2> QED BY <1>1, <2>1, RestParts DEF A
<1>3. /\ \A p : p \in Span(s, n) <=> p \in Int /\ s <= p /\ p < e
      /\ \A p \in s .. (e - 1) : p \in Span(s, n) /\ n # 0
  BY DEF Span
<1> HIDE DEF A, e
<1>4. ASSUME NEW p \in Cells(a), n = 0 PROVE p \in Removed(m, s, n) <=> a.vaddr = s
  <2>1. ASSUME NEW b \in m.owned, b.vaddr = s, p \in Cells(b) PROVE a.vaddr = s
    BY <2>1, OneArea
  <2> QED BY <1>4, <2>1 DEF Removed, CellsOf
<1>5. ASSUME NEW b \in A, NEW p \in Cells(b) PROVE p \in Cells(a) /\ p \notin Removed(m, s, n)
  <2>1. /\ b.vaddr \in Int /\ end_va(b) \in Int /\ a.vaddr <= b.vaddr /\ end_va(b) <= end_va(a)
        /\ p \in Int /\ b.vaddr <= p /\ p < end_va(b) /\ Beside(b, s, e)
    BY <1>2, AreaFacts DEF Part, Within
  <2>2. p \in Cells(a)
    BY <1>1, <2>1
  <2>3. CASE n = 0
    BY <1>2, <1>4, <2>2, <2>3
  <2>4. CASE n # 0
    <3>1. p \notin Span(s, n)
      BY <1>3, <2>1 DEF Beside, e
    <3> QED BY <2>2, <2>4, <3>1 DEF Removed
  <2> QED BY <2>3, <2>4
<1>6. ASSUME NEW p \in Cells(a) PROVE p \in Removed(m, s, n) \/ Covered(A, p)
  <2>1. p \in s .. (e - 1) => p \in Removed(m, s, n)
    BY <1>3 DEF Removed
  <2> QED BY <1>2, <1>4, <2>1
<1> QED BY <1>2, <1>5, <1>6 DEF A, e

(* split_for_area: nothing is left in the region, nothing else changes,    *)
(* and nothing fails.                                                      *)
LEMMA SplitOK ==
  ASSUME NEW m, MSOK(m), NEW s \in Int, NEW n \in Nat, NEW w, w = split_for_area(m, s, n)
  PROVE  /\ MSOK(w) /\ Without(m, w, Removed(m, s, n))
         /\ \A b \in w.owned : Beside(b, s, s + n)
         /\ Filled(m.owned) /\ n > 0 => Filled(w.owned)
<1> DEFINE S == Removed(m, s, n)
           over == overlapped(m, s, n)
           C == [a \in over |-> Rest(a, s, s + n)]
           A == UNION {Rest(a, s, s + n) : a \in over}
           out == [m EXCEPT !.owned = @ \ over]
           P == CellsOf(over) \ CellsOf(A)
           u == unmap_region(out, over, P)
<1>1. m \in MS /\ m.ok /\ AreasOK(m.owned) /\ TableOK(m)
  BY DEF MSOK, Sound
<1>2. /\ over \in SUBSET m.owned
      /\ \A a \in over : Area(a) /\ overlap_with(a, s, s + n)
      /\ \A a \in m.owned \ over : Area(a) /\ ~overlap_with(a, s, s + n)
  BY <1>1 DEF overlapped, AreasOK
<1>3. w = insert(u, A)
  BY DEF split_for_area
<1> HIDE DEF S, over
<1>4. \A a \in over :
        /\ \A b \in Rest(a, s, s + n) :
             /\ Part(a, b) /\ Beside(b, s, s + n) /\ (n > 0 => b.vaddr < end_va(b))
             /\ \A p \in Cells(b) : p \in Cells(a) /\ p \notin S
        /\ \A b, c \in Rest(a, s, s + n) : b = c \/ Apart(b, c)
        /\ \A p \in Cells(a) : p \in S \/ Covered(Rest(a, s, s + n), p)
  BY <1>1, <1>2, SplitParts DEF S
<1>5. \A b : b \in A <=> \E a \in over : b \in C[a]
  OBVIOUS
<1>6. \A b \in A : \E a \in over :
        /\ Part(a, b) /\ Beside(b, s, s + n) /\ (n > 0 => b.vaddr < end_va(b))
        /\ \A p \in Cells(b) : p \in Cells(a) /\ p \notin S
  BY <1>4
<1>7. AreasOK((m.owned \ over) \cup A) /\ A \subseteq AreaRec /\ Fresh(A, m.owned \ over)
  <2>1. \A a \in over : \A b \in C[a] : Within(a, b)
    BY <1>4 DEF Part
  <2>2. \A a \in over : \A b, c \in C[a] : b = c \/ Apart(b, c)
    BY <1>4
  <2>3. AreasOK(m.owned) /\ over \in SUBSET m.owned
    BY <1>1, <1>2
  <2> HIDE DEF A, C
  <2>4. Fits(over, C, A)
    BY <1>5, <2>1, <2>2 DEF Fits
  <2> QED BY <2>3, <2>4, Refit
<1>8. \A a \in over : Rest(a, s, s + n) \subseteq A
  OBVIOUS
<1> HIDE DEF C
<1>9. out \in MS /\ out.owned = m.owned \ over /\ out.pt = m.pt /\ out.ok
  BY <1>1, WithoutEffect
<1> HIDE DEF out, A
<1>10. \A p : p \in P <=> Covered(over, p) /\ ~Covered(A, p)
  BY DEF CellsOf, Covered
<1> HIDE DEF P
<1>11. /\ u \in MS /\ u.owned = m.owned \ over /\ u.ok
       /\ \A p \in Page : u.pt[p] = IF Covered(over, p) /\ ~Covered(A, p) THEN Unused ELSE m.pt[p]
  <2>1. ASSUME NEW a \in over, NEW p \in Cells(a) \cap P
        PROVE  p \in Page /\ out.pt[p] # Unused /\ \A b \in over \ {a} : p \notin Cells(b)
    <3>1. p \in Page /\ m.pt[p] # Unused
      BY <1>1, <1>2, AreaFacts, EntryOf DEF TableOK
    <3>2. \A b \in over \ {a} : p \notin Cells(b)
      BY <1>1, <1>2, OneArea
    <3> QED BY <1>9, <3>1, <3>2
  <2> QED BY <1>9, <1>10, <2>1, UnmapEffect
<1> HIDE DEF u
<1>12. w \in MS /\ w.owned = (m.owned \ over) \cup A /\ w.pt = u.pt /\ w.ok
  <2>1. A \in SUBSET AreaRec /\ Fresh(A, u.owned) /\ w = insert(u, A)
    BY <1>3, <1>7, <1>11
  <2>2. w \in MS /\ w.owned = u.owned \cup A /\ w.pt = u.pt
    BY <1>11, <2>1, InsertEffect
  <2>3. w.ok
    <3>1. u.ok /\ Fresh(A, u.owned)
      BY <1>11, <2>1
    <3>2. insert(u, A).ok
      BY <1>11, <2>1, <3>1, InsertEffect, Zenon
    <3> QED BY <2>1, <3>2
  <2> QED BY <1>11, <2>2, <2>3
<1>13. ASSUME NEW p \in Page
       PROVE  IF p \in S THEN ~Covered(w.owned, p) ELSE Shows(m.owned, w.owned, p)
  <2>1. CASE p \in S
    <3>1. ASSUME NEW a \in m.owned \ over, p \in Cells(a) PROVE FALSE
      <4>1. CASE n # 0
        BY <1>2, <2>1, <3>1, <4>1, Overlapping DEF S, Removed
      <4>2. CASE n = 0
        <5>1. PICK b \in m.owned : b.vaddr = s /\ p \in Cells(b)
          BY <2>1, <4>2 DEF S, Removed, CellsOf
        <5>2. a = b
          BY <1>1, <3>1, <5>1, OneArea
        <5>3. a.vaddr = s /\ s < end_va(a)
          BY <1>2, <3>1, <5>1, <5>2, AreaFacts
        <5> QED BY <1>2, <5>3 DEF overlap_with
      <4> QED BY <4>1, <4>2
    <3> QED BY <1>6, <1>12, <2>1, <3>1 DEF Covered
  <2>2. CASE p \notin S
    <3>1. Covered(m.owned, p) => Covered(w.owned, p)
      <4> SUFFICES ASSUME NEW a \in m.owned, p \in Cells(a) PROVE Covered(w.owned, p)
        BY DEF Covered
      <4>1. CASE a \notin over
        BY <1>12, <4>1 DEF Covered
      <4>2. CASE a \in over
        BY <1>4, <1>8, <1>12, <2>2, <4>2 DEF Covered
      <4> QED BY <4>1, <4>2
    <3>2. ASSUME NEW b \in w.owned, p \in Cells(b)
          PROVE  \E a \in m.owned : p \in Cells(a) /\ SameView(a, b, p)
      <4>1. CASE b \in m.owned \ over
        BY <3>2, <4>1 DEF SameView
      <4>2. CASE b \in A
        BY <1>2, <1>6, <3>2, <4>2 DEF Part
      <4> QED BY <1>12, <4>1, <4>2
    <3>3. \A a \in m.owned, b \in w.owned : p \in Cells(a) /\ p \in Cells(b) => SameView(a, b, p)
      BY <1>1, <3>2, OneArea
    <3> QED BY <2>2, <3>1, <3>2, <3>3 DEF Shows, Covered
  <2> QED BY <2>1, <2>2
<1>14. ASSUME NEW b \in w.owned, NEW p \in Cells(b) PROVE w.pt[p] = pte(b, p)
  <2>1. p \in Page
    BY <1>7, <1>12, AreaFacts DEF AreasOK
  <2>2. p \notin S /\ Shows(m.owned, w.owned, p)
    BY <1>13, <2>1 DEF Covered
  <2>3. PICK a \in m.owned : p \in Cells(a) /\ SameView(a, b, p)
    BY <2>2 DEF Shows, Covered
  <2>4. ~(Covered(over, p) /\ ~Covered(A, p))
    <3>1. CASE b \in A
      BY <3>1 DEF Covered
    <3>2. CASE b \in m.owned \ over
      BY <1>1, <1>2, <3>2, OneArea DEF Covered
    <3> QED BY <1>12, <3>1, <3>2
  <2>5. u.pt[p] = m.pt[p]
    BY <1>11, <2>1, <2>4
  <2> QED BY <1>1, <1>12, <2>3, <2>5, SameEntry DEF TableOK
<1>15. ASSUME NEW p \in Page, ~Covered(w.owned, p) PROVE w.pt[p] = Unused
  <2>1. ~Covered(A, p) /\ ~Covered(m.owned \ over, p)
    BY <1>12, <1>15 DEF Covered
  <2>2. CASE Covered(over, p)
    BY <1>11, <1>12, <2>1, <2>2
  <2>3. CASE ~Covered(over, p)
    <3>1. ~Covered(m.owned, p)
      BY <2>1, <2>3 DEF Covered
    <3> QED BY <1>1, <1>11, <1>12, <2>3, <3>1 DEF TableOK
  <2> QED BY <2>2, <2>3
<1>16. ASSUME NEW b \in w.owned PROVE Beside(b, s, s + n)
  BY <1>2, <1>6, <1>12, NotOverlapping
<1>17. ASSUME Filled(m.owned), n > 0 PROVE Filled(w.owned)
  <2>1. \A b \in A : size(b) > 0
    <3>1. \A b \in A : Area(b) /\ b.vaddr < end_va(b)
      BY <1>6, <1>17 DEF Part, Within
    <3> QED BY <3>1, AreaFacts
  <2> QED BY <1>12, <1>17, <2>1 DEF Filled
<1> QED BY <1>7, <1>12, <1>13, <1>14, <1>15, <1>16, <1>17 DEF MSOK, Sound, TableOK, Without, S

(* The same page, with flags f.                                            *)
ViewWith(a, b, p, f) ==
  b.flags = f /\ page_at(a, p) = page_at(b, p) /\ source(a, p) = source(b, p)

(* The part of an area inside a region, with its new flags.                *)
LEMMA InsidePart ==
  ASSUME NEW a, Area(a), NEW s \in Int, NEW e \in Int, s < e, overlap_with(a, s, e),
         NEW f \in Flags, NEW b, b = Inside(a, s, e, f)
  PROVE  /\ Within(a, b) /\ s <= b.vaddr /\ end_va(b) <= e /\ b.vaddr < e
         /\ size(a) > 0 => size(b) > 0
         /\ \A p : p \in Cells(b) <=> p \in Cells(a) /\ p \in s .. (e - 1)
         /\ \A p \in Cells(b) : ViewWith(a, b, p, f)
<1> DEFINE x == max(s, a.vaddr)
           y == min(e, end_va(a))
           c == Cut(a, x, y)
<1>1. /\ a.vaddr \in Int /\ end_va(a) \in Int /\ a.vaddr <= end_va(a)
      /\ end_va(a) = a.vaddr + size(a) /\ size(a) \in Nat
      /\ \A p : p \in Cells(a) <=> p \in Int /\ a.vaddr <= p /\ p < end_va(a)
  BY AreaFacts
<1>2. a.vaddr < e /\ s <= end_va(a) /\ (s = end_va(a) => a.vaddr = end_va(a))
  BY <1>1 DEF overlap_with
<1>3. /\ x \in Int /\ y \in Int /\ a.vaddr <= x /\ x <= y /\ y <= end_va(a) /\ s <= x /\ y <= e
      /\ x < e /\ (a.vaddr < end_va(a) => x < y) /\ (x = a.vaddr \/ x < end_va(a))
  BY <1>1, <1>2 DEF max, min
<1>4. /\ \A p \in Int : x <= p <=> (s <= p /\ a.vaddr <= p)
      /\ \A p \in Int : p < y <=> (p < e /\ p < end_va(a))
  BY <1>1, <1>2 DEF max, min
<1> HIDE DEF x, y
<1>5. Part(a, c) /\ c.vaddr = x /\ end_va(c) = y
  BY <1>3, CutPart
<1>6. b = [c EXCEPT !.flags = f]
  BY DEF Inside, x, y
<1> HIDE DEF c
<1>7. Area(c) /\ c \in AreaRec
  BY <1>5, AreaFacts DEF Part, Within
<1>8. b \in AreaRec /\ b.vaddr = c.vaddr /\ b.pages = c.pages /\ b.off = c.off /\ b.flags = f
  BY <1>6, <1>7 DEF AreaRec
<1>9. size(b) = size(c) /\ end_va(b) = end_va(c) /\ Cells(b) = Cells(c)
      /\ \A p : page_at(b, p) = page_at(c, p) /\ source(b, p) = source(c, p)
  BY <1>8 DEF size, end_va, Cells, page_at, source
<1>10. Area(b)
  BY <1>7, <1>8, <1>9 DEF Area
<1>11. \A p \in Cells(b) : ViewWith(a, b, p, f)
  BY <1>5, <1>8, <1>9 DEF Part, SameView, ViewWith
<1>12. \A p : p \in Cells(b) <=> p \in Cells(a) /\ p \in s .. (e - 1)
  <2>1. \A p : p \in Cells(b) <=> p \in Int /\ x <= p /\ p < y
    BY <1>5, <1>7, <1>9, AreaFacts
  <2> QED BY <1>1, <1>4, <2>1
<1>13. Within(a, b)
  BY <1>3, <1>5, <1>8, <1>9, <1>10 DEF Within
<1>14. size(a) > 0 => size(b) > 0
  <2>1. end_va(c) = c.vaddr + size(c) /\ size(c) \in Nat
    BY <1>7, AreaFacts
  <2> QED BY <1>1, <1>3, <1>5, <1>9, <2>1
<1> QED BY <1>3, <1>5, <1>8, <1>9, <1>11, <1>12, <1>13, <1>14

(* Of a page in use with an entry for it, only the flags change.           *)
LEMMA Reflagged ==
  ASSUME NEW a, Area(a), NEW b, NEW p \in Cells(a), NEW f, ViewWith(a, b, p, f)
  PROVE  pte(b, p) = IF pte(a, p) \notin {Unused, Fault}
                     THEN [page |-> pte(a, p).page, flags |-> f] ELSE pte(a, p)
<1>1. CASE page_at(a, p) = None
  BY <1>1, EntryOf DEF pte, ViewWith
<1>2. CASE page_at(a, p) = p /\ p # None
  <2>1. pte(a, p) = [page |-> p, flags |-> a.flags] /\ pte(a, p) \notin {Unused, Fault}
    BY <1>2, EntryOf
  <2>2. pte(b, p) = [page |-> p, flags |-> f]
    BY <1>2 DEF pte, ViewWith
  <2> QED BY <2>1, <2>2
<1> QED BY <1>1, <1>2, EntryOf

(* What mprotect leaves of an area, and of the memory set.                 *)
Pieces(a, s, n, f) == Rest(a, s, s + n) \cup {Inside(a, s, s + n, f)}

Protected(m, s, n, f) ==
  insert(update_region([m EXCEPT !.owned = @ \ overlapped(m, s, n)],
                       overlapped(m, s, n), Span(s, n), f),
         UNION {Pieces(a, s, n, f) : a \in overlapped(m, s, n)})

(* mprotect: the areas and entries of the pages change their flags.        *)
LEMMA ProtectOK ==
  ASSUME NEW m, MSOK(m), NEW s \in Int, NEW n \in Int, n > 0, NEW f \in Flags,
         NEW w, w = Protected(m, s, n, f)
  PROVE  /\ MSOK(w)
         /\ Filled(m.owned) => Filled(w.owned)
         /\ \A p \in Page :
              IF p \in Span(s, n)
              THEN /\ Covered(m.owned, p) <=> Covered(w.owned, p)
                   /\ \A a \in m.owned, b \in w.owned :
                        p \in Cells(a) /\ p \in Cells(b) => ViewWith(a, b, p, f)
              ELSE Shows(m.owned, w.owned, p)
<1> DEFINE over == overlapped(m, s, n)
           C == [a \in over |-> Pieces(a, s, n, f)]
           A == UNION {Pieces(a, s, n, f) : a \in over}
           out == [m EXCEPT !.owned = @ \ over]
           u == update_region(out, over, Span(s, n), f)
<1>1. m \in MS /\ m.ok /\ AreasOK(m.owned) /\ TableOK(m)
  BY DEF MSOK, Sound
<1>2. over \in SUBSET m.owned /\ \A a \in over : Area(a) /\ overlap_with(a, s, s + n)
  BY <1>1 DEF overlapped, AreasOK
<1>3. \A p : p \in Span(s, n) <=> p \in s .. (s + n - 1)
  BY DEF Span
<1>4. ASSUME NEW a \in over
      PROVE  /\ \A b \in Pieces(a, s, n, f) : Within(a, b) /\ (size(a) > 0 => size(b) > 0)
             /\ \A b \in Pieces(a, s, n, f) : \A p \in Cells(b) :
                  /\ p \in Cells(a)
                  /\ IF p \in Span(s, n) THEN ViewWith(a, b, p, f) ELSE SameView(a, b, p)
             /\ \A b, c \in Pieces(a, s, n, f) : b = c \/ Apart(b, c)
             /\ \A p \in Cells(a) : Covered(Pieces(a, s, n, f), p)
  <2> DEFINE i == Inside(a, s, s + n, f)
  <2>1. Area(a) /\ overlap_with(a, s, s + n) /\ s + n \in Int /\ s < s + n
    BY <1>2
  <2>2. /\ \A b \in Rest(a, s, s + n) : Part(a, b) /\ Beside(b, s, s + n) /\ b.vaddr < end_va(b)
        /\ \A b, c \in Rest(a, s, s + n) : b = c \/ Apart(b, c)
        /\ \A p \in Cells(a) : p \in s .. (s + n - 1) \/ Covered(Rest(a, s, s + n), p)
    BY <2>1, RestParts
  <2>3. /\ Within(a, i) /\ s <= i.vaddr /\ end_va(i) <= s + n /\ i.vaddr < s + n
        /\ size(a) > 0 => size(i) > 0
        /\ \A p : p \in Cells(i) <=> p \in Cells(a) /\ p \in s .. (s + n - 1)
        /\ \A p \in Cells(i) : ViewWith(a, i, p, f)
    BY <2>1, InsidePart
  <2> HIDE DEF i
  <2>4. Pieces(a, s, n, f) = Rest(a, s, s + n) \cup {i}
    BY DEF i, Pieces
  <2>5. ASSUME NEW b \in Rest(a, s, s + n)
        PROVE  /\ Within(a, b) /\ size(b) > 0
               /\ Apart(b, i) /\ Apart(i, b)
               /\ \A p \in Cells(b) : p \in Cells(a) /\ p \notin Span(s, n) /\ SameView(a, b, p)
    <3>1. Within(a, b) /\ Beside(b, s, s + n) /\ b.vaddr < end_va(b)
          /\ \A p \in Cells(b) : SameView(a, b, p)
      BY <2>2 DEF Part
    <3>2. /\ b.vaddr \in Int /\ end_va(b) \in Int /\ i.vaddr \in Int /\ end_va(i) \in Int
          /\ i.vaddr <= end_va(i) /\ size(b) \in Nat /\ end_va(b) = b.vaddr + size(b)
          /\ a.vaddr <= b.vaddr /\ end_va(b) <= end_va(a)
          /\ \A p : p \in Cells(b) <=> p \in Int /\ b.vaddr <= p /\ p < end_va(b)
          /\ a.vaddr \in Int /\ end_va(a) \in Int
          /\ \A p : p \in Cells(a) <=> p \in Int /\ a.vaddr <= p /\ p < end_va(a)
      BY <2>1, <2>3, <3>1, AreaFacts DEF Within
    <3>3. Apart(b, i) /\ Apart(i, b)
      BY <2>3, <3>1, <3>2 DEF Apart, Beside
    <3>4. \A p \in Cells(b) : p \in Cells(a) /\ p \notin Span(s, n)
      BY <1>3, <3>1, <3>2 DEF Beside
    <3> QED BY <3>1, <3>2, <3>3, <3>4
  <2>6. \A b, c \in Pieces(a, s, n, f) : b = c \/ Apart(b, c)
    BY <2>2, <2>4, <2>5
  <2>7. \A p \in Cells(a) : Covered(Pieces(a, s, n, f), p)
    BY <2>2, <2>3, <2>4 DEF Covered
  <2>8. \A b \in Pieces(a, s, n, f) : \A p \in Cells(b) :
          /\ p \in Cells(a)
          /\ IF p \in Span(s, n) THEN ViewWith(a, b, p, f) ELSE SameView(a, b, p)
    BY <1>3, <2>3, <2>4, <2>5
  <2>9. \A b \in Pieces(a, s, n, f) : Within(a, b) /\ (size(a) > 0 => size(b) > 0)
    BY <2>3, <2>4, <2>5
  <2> QED BY <2>6, <2>7, <2>8, <2>9
<1> HIDE DEF over
<1>5. \A b : b \in A <=> \E a \in over : b \in Pieces(a, s, n, f)
  OBVIOUS
<1>6. /\ AreasOK((m.owned \ over) \cup A) /\ A \subseteq AreaRec
      /\ Fresh(A, m.owned \ over)
  <2>1. \A a \in over : C[a] = Pieces(a, s, n, f)
    OBVIOUS
  <2> HIDE DEF A, C, out, u
  <2>2. Fits(over, C, A)
    BY <1>4, <1>5, <2>1 DEF Fits
  <2>3. AreasOK(m.owned) /\ over \in SUBSET m.owned
    BY <1>1, <1>2
  <2> QED BY <2>2, <2>3, Refit, ZenonT(60)
<1> HIDE DEF C
<1>7. out \in MS /\ out.owned = m.owned \ over /\ out.pt = m.pt /\ out.ok
  BY <1>1, WithoutEffect
<1> HIDE DEF out
<1>8. /\ u \in MS /\ u.owned = m.owned \ over /\ u.ok
      /\ \A p \in Page : u.pt[p] = IF p \in Span(s, n) /\ Covered(over, p)
                                        /\ m.pt[p] \notin {Unused, Fault}
                                   THEN [page |-> m.pt[p].page, flags |-> f] ELSE m.pt[p]
  BY <1>7, UpdateEffect
<1> HIDE DEF u
<1>9. w = insert(u, A)
  BY DEF u, out, over, Protected
<1> HIDE DEF A
<1>10. w \in MS /\ w.owned = (m.owned \ over) \cup A /\ w.pt = u.pt /\ w.ok
  <2>1. A \in SUBSET AreaRec /\ Fresh(A, u.owned)
    BY <1>6, <1>8
  <2>2. w \in MS /\ w.owned = u.owned \cup A /\ w.pt = u.pt
    BY <1>8, <1>9, <2>1, InsertEffect
  <2>3. w.ok
    <3>1. u.ok /\ Fresh(A, u.owned)
      BY <1>8, <2>1
    <3>2. insert(u, A).ok
      BY <1>8, <2>1, <3>1, InsertEffect, Zenon
    <3> QED BY <1>9, <3>2
  <2> QED BY <1>8, <2>2, <2>3
<1>11. \A b \in A : \E a \in over : \A p \in Cells(b) :
         /\ p \in Cells(a)
         /\ IF p \in Span(s, n) THEN ViewWith(a, b, p, f) ELSE SameView(a, b, p)
  BY <1>4, <1>5
<1>12. \A a \in m.owned \ over : \A p \in Cells(a) : p \notin Span(s, n)
  BY <1>1, Overlapping DEF over, overlapped, AreasOK
<1>13. ASSUME NEW b \in w.owned, NEW p \in Cells(b)
       PROVE  \E a \in m.owned :
                /\ p \in Cells(a)
                /\ IF p \in Span(s, n) THEN a \in over /\ ViewWith(a, b, p, f)
                                       ELSE SameView(a, b, p)
  <2> HIDE DEF A
  <2>1. CASE b \in m.owned \ over
    BY <1>12, <2>1 DEF SameView
  <2>2. CASE b \in A
    BY <1>2, <1>11, <2>2
  <2> QED BY <1>10, <2>1, <2>2
<1>14. ASSUME NEW a \in m.owned, NEW p \in Cells(a) PROVE Covered(w.owned, p)
  <2>1. CASE a \notin over
    BY <1>10, <2>1 DEF Covered
  <2>2. CASE a \in over
    <3>1. Pieces(a, s, n, f) \subseteq w.owned
      BY <1>5, <1>10, <2>2
    <3> QED BY <1>4, <2>2, <3>1 DEF Covered
  <2> QED BY <2>1, <2>2
<1> HIDE DEF A
<1>15. ASSUME NEW p \in Page
       PROVE  IF p \in Span(s, n)
              THEN /\ Covered(m.owned, p) <=> Covered(w.owned, p)
                   /\ \A a \in m.owned, b \in w.owned :
                        p \in Cells(a) /\ p \in Cells(b) => ViewWith(a, b, p, f)
              ELSE Shows(m.owned, w.owned, p)
  <2>1. Covered(m.owned, p) <=> Covered(w.owned, p)
    BY <1>13, <1>14 DEF Covered
  <2>2. ASSUME NEW a \in m.owned, NEW b \in w.owned, p \in Cells(a), p \in Cells(b)
        PROVE  IF p \in Span(s, n) THEN ViewWith(a, b, p, f) ELSE SameView(a, b, p)
    <3>1. PICK d \in m.owned :
            /\ p \in Cells(d)
            /\ IF p \in Span(s, n) THEN d \in over /\ ViewWith(d, b, p, f) ELSE SameView(d, b, p)
      BY <1>13, <2>2
    <3>2. d = a
      BY <1>1, <2>2, <3>1, OneArea
    <3> QED BY <3>1, <3>2
  <2> QED BY <2>1, <2>2 DEF Shows
<1>16. TableOK(w)
  <2>1. ASSUME NEW b \in w.owned, NEW p \in Cells(b) PROVE w.pt[p] = pte(b, p)
    <3>1. p \in Page
      BY <1>6, <1>10, AreaFacts DEF AreasOK
    <3>2. PICK a \in m.owned :
            /\ p \in Cells(a)
            /\ IF p \in Span(s, n) THEN a \in over /\ ViewWith(a, b, p, f) ELSE SameView(a, b, p)
      BY <1>13
    <3>3. m.pt[p] = pte(a, p) /\ Area(a)
      BY <1>1, <3>2 DEF TableOK, AreasOK
    <3>4. CASE p \in Span(s, n)
      <4>1. Covered(over, p) /\ ViewWith(a, b, p, f)
        BY <3>2, <3>4 DEF Covered
      <4>2. w.pt[p] = IF m.pt[p] \notin {Unused, Fault}
                      THEN [page |-> m.pt[p].page, flags |-> f] ELSE m.pt[p]
        BY <1>8, <1>10, <3>1, <3>4, <4>1
      <4>3. pte(b, p) = IF pte(a, p) \notin {Unused, Fault}
                        THEN [page |-> pte(a, p).page, flags |-> f] ELSE pte(a, p)
        BY <3>2, <3>3, <4>1, Reflagged
      <4> QED BY <3>3, <4>2, <4>3
    <3>5. CASE p \notin Span(s, n)
      <4>1. w.pt[p] = m.pt[p]
        BY <1>8, <1>10, <3>1, <3>5
      <4>2. pte(a, p) = pte(b, p)
        BY <3>2, <3>5, SameEntry
      <4> QED BY <3>3, <4>1, <4>2
    <3> QED BY <3>4, <3>5
  <2>2. ASSUME NEW p \in Page, ~Covered(w.owned, p) PROVE w.pt[p] = Unused
    <3>1. ~Covered(m.owned, p)
      BY <1>14, <2>2 DEF Covered
    <3> QED BY <1>1, <1>8, <1>10, <3>1 DEF TableOK
  <2> QED BY <2>1, <2>2 DEF TableOK
<1>17. Filled(m.owned) => Filled(w.owned)
  <2>1. \A b \in A : \E a \in m.owned : size(a) > 0 => size(b) > 0
    BY <1>2, <1>4, <1>5
  <2> QED BY <1>10, <2>1 DEF Filled
<1> QED BY <1>6, <1>10, <1>15, <1>16, <1>17 DEF MSOK, Sound

-----------------------------------------------------------------------------
(* new_region: one area more, where there was none.                        *)

(* map_region, if the pages are unused.                                    *)
LEMMA MapEffect ==
  ASSUME NEW m \in MS, NEW s, NEW n, NEW e, \A p \in Span(s, n) : p \in Page => e[p] \in Entry
  PROVE  LET w == map_region(m, s, n, e)
         IN /\ w \in MS /\ w.owned = m.owned
            /\ \A p \in Page : w.pt[p] = IF p \in Span(s, n) THEN e[p] ELSE m.pt[p]
            /\ m.ok /\ (\A p \in Span(s, n) : p \in Page /\ m.pt[p] = Unused) => w.ok
<1> DEFINE g == [p \in Page |-> IF p \in Span(s, n) THEN e[p] ELSE m.pt[p]]
           k == m.ok /\ \A p \in Span(s, n) : p \in Page /\ m.pt[p] = Unused
<1>1. g \in [Page -> Entry]
  BY DEF MS
<1>2. map_region(m, s, n, e) = [m EXCEPT !.ok = k, !.pt = g]
  BY DEF map_region, MS
<1>3. \A p \in Page : g[p] = IF p \in Span(s, n) THEN e[p] ELSE m.pt[p]
  OBVIOUS
<1>4. k \in BOOLEAN
  OBVIOUS
<1>5. ASSUME NEW h \in [Page -> Entry], NEW j \in BOOLEAN
      PROVE  LET w == [m EXCEPT !.ok = j, !.pt = h]
             IN w \in MS /\ w.owned = m.owned /\ w.pt = h /\ w.ok = j
  BY DEF MS
<1> HIDE DEF g
<1>6. k => [m EXCEPT !.ok = k, !.pt = g].ok
  BY <1>1, <1>4, <1>5
<1> HIDE DEF k
<1>7. LET w == [m EXCEPT !.ok = k, !.pt = g]
      IN w \in MS /\ w.owned = m.owned /\ w.pt = g
  BY <1>1, <1>4, <1>5
<1>8. k => map_region(m, s, n, e).ok
  BY <1>2, <1>6
<1> QED BY <1>2, <1>3, <1>7, <1>8 DEF k

Added(m, a, e) == insert(map_region(m, a.vaddr, size(a), e), {a})

(* There is room for n pages at s.                                         *)
Room(m, s, n) == \A b \in m.owned : Beside(b, s, s + n)

(* A region with a page that is in an area has no room.                    *)
LEMMA RoomFree ==
  ASSUME NEW m, AreasOK(m.owned), NEW s \in Int, NEW n \in Int, Room(m, s, n), NEW p \in Span(s, n)
  PROVE  ~Covered(m.owned, p)
<1> SUFFICES ASSUME NEW b \in m.owned, p \in Cells(b) PROVE FALSE
  BY DEF Covered
<1>1. /\ b.vaddr \in Int /\ end_va(b) \in Int /\ b.vaddr <= p /\ p < end_va(b)
      /\ p \in Int /\ s <= p /\ p < s + n
  BY AreaFacts DEF AreasOK, Span
<1> QED BY <1>1 DEF Room, Beside

(* Where there is room for a page, only an empty area can start.           *)
LEMMA RoomFresh ==
  ASSUME NEW m, AreasOK(m.owned), NEW s \in Int, NEW n \in Nat, n > 0, Room(m, s, n),
         Filled(m.owned), NEW b \in m.owned
  PROVE  b.vaddr # s
<1>1. /\ b.vaddr \in Int /\ end_va(b) \in Int /\ size(b) \in Nat
      /\ end_va(b) = b.vaddr + size(b) /\ size(b) > 0
  BY AreaFacts DEF AreasOK, Filled
<1> QED BY <1>1 DEF Room, Beside

(* A new area on free pages, with the entries it asks for.                 *)
LEMMA AddOK ==
  ASSUME NEW m, MSOK(m), NEW a, Area(a), Room(m, a.vaddr, size(a)),
         NEW e, \A p \in Cells(a) : e[p] = pte(a, p),
         NEW w, w = Added(m, a, e)
  PROVE  /\ w.ok => MSOK(w) /\ w.owned = m.owned \cup {a}
         /\ (\A b \in m.owned : b.vaddr # a.vaddr) => w.ok
<1> DEFINE u == map_region(m, a.vaddr, size(a), e)
<1>1. m \in MS /\ m.ok /\ AreasOK(m.owned) /\ TableOK(m)
  BY DEF MSOK, Sound
<1>2. /\ a.vaddr \in Nat /\ size(a) \in Nat /\ end_va(a) = a.vaddr + size(a) /\ a \in AreaRec
      /\ Cells(a) \subseteq Page
  BY AreaFacts
<1>3. \A p \in Cells(a) : e[p] \in Entry
  BY EntryOf
<1>4. Cells(a) = Span(a.vaddr, size(a))
  BY DEF Cells
<1>5. /\ u \in MS /\ u.owned = m.owned
      /\ \A p \in Page : u.pt[p] = IF p \in Cells(a) THEN e[p] ELSE m.pt[p]
      /\ m.ok /\ (\A p \in Cells(a) : p \in Page /\ m.pt[p] = Unused) => u.ok
  BY <1>1, <1>3, <1>4, MapEffect
<1>13. \A p \in Cells(a) : ~Covered(m.owned, p)
  BY <1>1, <1>2, <1>4, RoomFree
<1>6. \A p \in Cells(a) : p \in Page /\ m.pt[p] = Unused
  BY <1>1, <1>2, <1>13 DEF TableOK
<1> HIDE DEF u
<1>7. ASSUME NEW b \in m.owned, b.vaddr # a.vaddr PROVE Apart(a, b) /\ Apart(b, a)
  <2>1. Beside(b, a.vaddr, end_va(a))
    BY <1>2 DEF Room
  <2> QED BY <1>7, <2>1 DEF Apart, Beside
<1> DEFINE A == {a}
<1>8. w = insert(u, A)
  BY DEF u, Added
<1>9. /\ w \in MS /\ w.owned = m.owned \cup {a} /\ w.pt = u.pt
      /\ w.ok <=> \A b \in m.owned : b.vaddr # a.vaddr
  <2>1. u \in MS /\ A \in SUBSET AreaRec /\ u.ok /\ u.owned = m.owned
    BY <1>1, <1>2, <1>5, <1>6
  <2>2. Fresh(A, u.owned) <=> \A b \in m.owned : b.vaddr # a.vaddr
    BY <2>1 DEF Fresh
  <2>3. w.owned = m.owned \cup A => w.owned = m.owned \cup {a}
    OBVIOUS
  <2> HIDE DEF A
  <2> QED BY <1>8, <2>1, <2>2, <2>3, InsertEffect
<1> SUFFICES ASSUME w.ok PROVE MSOK(w) /\ w.owned = m.owned \cup {a}
  BY <1>9
<1>10. AreasOK(w.owned)
  BY <1>1, <1>7, <1>9 DEF AreasOK
<1>11. ASSUME NEW b \in w.owned, NEW p \in Cells(b) PROVE w.pt[p] = pte(b, p)
  <2>1. p \in Page
    BY <1>10, AreaFacts DEF AreasOK
  <2>2. CASE b = a
    BY <1>5, <1>9, <2>1, <2>2
  <2>3. CASE b \in m.owned
    <3>1. p \notin Cells(a)
      BY <1>13, <2>3 DEF Covered
    <3> QED BY <1>1, <1>5, <1>9, <2>1, <2>3, <3>1 DEF TableOK
  <2> QED BY <1>9, <2>2, <2>3
<1>12. ASSUME NEW p \in Page, ~Covered(w.owned, p) PROVE w.pt[p] = Unused
  <2>1. ~Covered(m.owned, p) /\ p \notin Cells(a)
    BY <1>9, <1>12 DEF Covered
  <2> QED BY <1>1, <1>5, <1>9, <2>1 DEF TableOK
<1> QED BY <1>9, <1>10, <1>11, <1>12 DEF MSOK, Sound, TableOK

(* The area of new_region, lazy or allocated.                              *)
LEMMA NewArea ==
  ASSUME NEW s \in Page, NEW n \in Nat, s + n <= NPage, NEW f \in Flags,
         NEW off \in Nat \cup {None}, off # None => off + n <= FileLen,
         NEW g \in [1 .. n -> Page \cup {None}], \A i \in 1 .. n : g[i] \in {None, s + i - 1},
         NEW a, a = [vaddr |-> s, pages |-> g, flags |-> f, off |-> off]
  PROVE  /\ Area(a) /\ a.vaddr = s /\ size(a) = n /\ a.flags = f /\ a.off = off
         /\ Cells(a) = Span(s, n) /\ \A p \in Cells(a) : page_at(a, p) = g[p - s + 1]
<1>1. g \in Seq(Page \cup {None}) /\ Len(g) = n
  BY SeqDef, LenProperties
<1>2. a.vaddr = s /\ a.pages = g /\ a.flags = f /\ a.off = off
  OBVIOUS
<1>3. size(a) = n /\ end_va(a) = s + n /\ Cells(a) = Span(s, n)
  BY <1>1, <1>2 DEF size, end_va, Cells
<1>5. a \in AreaRec
  BY <1>1 DEF AreaRec
<1>6. \A p \in Cells(a) : page_at(a, p) = g[p - s + 1]
  BY <1>2 DEF page_at
<1>7. ASSUME NEW p \in Cells(a) PROVE page_at(a, p) \in {None, p}
  <2>1. p \in Int /\ p - s + 1 \in 1 .. n /\ s + (p - s + 1) - 1 = p
    BY <1>3, Numbers DEF Span, Page
  <2> QED BY <1>6, <2>1
<1>8. Area(a)
  BY <1>2, <1>3, <1>5, <1>7 DEF Area
<1> QED BY <1>2, <1>3, <1>6, <1>8

(* w has the new area a of n pages at s, none of them loaded.              *)
LazyArea(m, w, a, s, n, f, off) ==
  /\ Area(a) /\ w.owned = m.owned \cup {a} /\ a.vaddr = s /\ size(a) = n
  /\ Cells(a) = Span(s, n) /\ a.flags = f /\ a.off = off
  /\ \A p \in Cells(a) : page_at(a, p) = None

(* new_region without data fails only at the key of an empty area.         *)
LEMMA LazyOK ==
  ASSUME NEW m, MSOK(m), NEW s \in Page, NEW n \in Nat, s + n <= NPage, NEW f \in Flags,
         NEW off \in Nat \cup {None}, off # None => off + n <= FileLen, Room(m, s, n),
         NEW w, w = new_lazy(m, s, n, f, off)
  PROVE  /\ w.ok => MSOK(w) /\ \E a : LazyArea(m, w, a, s, n, f, off)
         /\ n > 0 /\ Filled(m.owned) => w.ok /\ Filled(w.owned)
<1> DEFINE g == [i \in 1 .. n |-> None]
           a == [vaddr |-> s, pages |-> g, flags |-> f, off |-> off]
           e == [p \in Page |-> Fault]
<1>1. g \in [1 .. n -> Page \cup {None}] /\ \A i \in 1 .. n : g[i] \in {None, s + i - 1}
  OBVIOUS
<1>2. w = insert(map_region(m, s, n, e), {a})
  BY DEF new_lazy
<1>3. \A p \in Span(s, n) : p - s + 1 \in 1 .. n
  BY Numbers DEF Span, Page
<1>4. \A p \in Span(s, n) : g[p - s + 1] = None
  BY <1>3
<1>5. \A p \in Page : e[p] = Fault
  OBVIOUS
<1> HIDE DEF g, e
<1>6. /\ Area(a) /\ a.vaddr = s /\ size(a) = n /\ a.flags = f /\ a.off = off
      /\ Cells(a) = Span(s, n) /\ \A p \in Cells(a) : page_at(a, p) = g[p - s + 1]
  BY <1>1, NewArea
<1> HIDE DEF a
<1>7. \A p \in Cells(a) : page_at(a, p) = None
  BY <1>4, <1>6
<1>8. \A p \in Cells(a) : e[p] = pte(a, p)
  BY <1>5, <1>6, <1>7, AreaFacts DEF pte
<1>9. w = Added(m, a, e)
  BY <1>2, <1>6 DEF Added
<1>10. /\ w.ok => MSOK(w) /\ w.owned = m.owned \cup {a}
       /\ (\A b \in m.owned : b.vaddr # s) => w.ok
  BY <1>6, <1>8, <1>9, AddOK
<1>11. w.ok => LazyArea(m, w, a, s, n, f, off)
  BY <1>6, <1>7, <1>10 DEF LazyArea
<1>12. n > 0 /\ Filled(m.owned) => w.ok /\ Filled(w.owned)
  <2>1. AreasOK(m.owned) /\ s \in Int
    BY Numbers DEF MSOK, Sound, Page
  <2> QED BY <1>6, <1>10, <2>1, RoomFresh DEF Filled
<1> QED BY <1>10, <1>11, <1>12

(* The same, all of them loaded.                                           *)
AllocArea(m, w, a, s, n, f, off) ==
  /\ Area(a) /\ w.owned = m.owned \cup {a} /\ a.vaddr = s /\ size(a) = n
  /\ Cells(a) = Span(s, n) /\ a.flags = f /\ a.off = off
  /\ \A p \in Cells(a) : page_at(a, p) = p

(* new_region with data.                                                   *)
LEMMA AllocOK ==
  ASSUME NEW m, MSOK(m), NEW s \in Page, NEW n \in Nat, s + n <= NPage, NEW f \in Flags,
         NEW off \in Nat \cup {None}, off # None => off + n <= FileLen, Room(m, s, n),
         NEW w, w = new_alloc(m, s, n, f, off)
  PROVE  /\ w.ok => MSOK(w) /\ \E a : AllocArea(m, w, a, s, n, f, off)
         /\ n > 0 /\ Filled(m.owned) => w.ok /\ Filled(w.owned)
<1> DEFINE g == [i \in 1 .. n |-> s + i - 1]
           a == [vaddr |-> s, pages |-> g, flags |-> f, off |-> off]
           e == [p \in Page |-> [page |-> p, flags |-> f]]
<1>1. g \in [1 .. n -> Page \cup {None}] /\ \A i \in 1 .. n : g[i] \in {None, s + i - 1}
  BY Numbers DEF Page
<1>2. w = insert(map_region(m, s, n, e), {a})
  BY DEF new_alloc
<1>3. \A p \in Span(s, n) : p - s + 1 \in 1 .. n /\ s + (p - s + 1) - 1 = p
  BY Numbers DEF Span, Page
<1>4. \A p \in Span(s, n) : g[p - s + 1] = p
  BY <1>3
<1>5. \A p \in Page : e[p] = [page |-> p, flags |-> f]
  OBVIOUS
<1> HIDE DEF g, e
<1>6. /\ Area(a) /\ a.vaddr = s /\ size(a) = n /\ a.flags = f /\ a.off = off
      /\ Cells(a) = Span(s, n) /\ \A p \in Cells(a) : page_at(a, p) = g[p - s + 1]
  BY <1>1, NewArea
<1> HIDE DEF a
<1>7. \A p \in Cells(a) : page_at(a, p) = p
  BY <1>4, <1>6
<1>8. ASSUME NEW p \in Cells(a) PROVE e[p] = pte(a, p)
  <2>1. p \in Page /\ p # None /\ page_at(a, p) = p
    BY <1>6, <1>7, AreaFacts, Numbers DEF Page
  <2> QED BY <1>5, <1>6, <2>1 DEF pte
<1>9. w = Added(m, a, e)
  BY <1>2, <1>6 DEF Added
<1>10. /\ w.ok => MSOK(w) /\ w.owned = m.owned \cup {a}
       /\ (\A b \in m.owned : b.vaddr # s) => w.ok
  BY <1>6, <1>8, <1>9, AddOK
<1>11. w.ok => AllocArea(m, w, a, s, n, f, off)
  BY <1>6, <1>7, <1>10 DEF AllocArea
<1>12. n > 0 /\ Filled(m.owned) => w.ok /\ Filled(w.owned)
  <2>1. AreasOK(m.owned) /\ s \in Int
    BY Numbers DEF MSOK, Sound, Page
  <2> QED BY <1>6, <1>10, <2>1, RoomFresh DEF Filled
<1> QED BY <1>10, <1>11, <1>12

-----------------------------------------------------------------------------
(* load: pages of an area get the physical pages named after them.         *)

LoadedPages(a, P) ==
  [i \in DOMAIN a.pages |-> IF a.vaddr + i - 1 \in P THEN a.vaddr + i - 1 ELSE a.pages[i]]

(* Of the area only the loaded pages change.                               *)
LEMMA LoadedArea ==
  ASSUME NEW a, Area(a), NEW P, P \subseteq Cells(a),
         NEW b, b = [a EXCEPT !.pages = LoadedPages(a, P)]
  PROVE  /\ Area(b) /\ b.vaddr = a.vaddr /\ b.flags = a.flags /\ b.off = a.off
         /\ size(b) = size(a) /\ end_va(b) = end_va(a) /\ Cells(b) = Cells(a)
         /\ \A p \in Cells(b) : page_at(b, p) = IF p \in P THEN p ELSE page_at(a, p)
         /\ \A p \in Cells(b) : source(b, p) = source(a, p)
<1> DEFINE g == LoadedPages(a, P)
<1>1. /\ a.vaddr \in Nat /\ size(a) \in Nat /\ end_va(a) = a.vaddr + size(a)
      /\ end_va(a) <= NPage /\ a.flags \in Flags /\ a.off \in Nat \cup {None} /\ a \in AreaRec
      /\ \A p : p \in Cells(a) <=> p \in Int /\ a.vaddr <= p /\ p < end_va(a)
      /\ Cells(a) \subseteq Page
  BY AreaFacts
<1>2. /\ a.pages \in Seq(Page \cup {None}) /\ Len(a.pages) = size(a)
      /\ DOMAIN a.pages = 1 .. size(a) /\ \A i \in 1 .. size(a) : a.pages[i] \in Page \cup {None}
  <2>1. a.pages \in Seq(Page \cup {None}) /\ Len(a.pages) = size(a)
    BY <1>1 DEF AreaRec, size
  <2> QED BY <2>1, LenProperties, ElementOfSeq
<1>3. /\ g \in [1 .. size(a) -> Page \cup {None}]
      /\ \A i \in 1 .. size(a) : g[i] = IF a.vaddr + i - 1 \in P THEN a.vaddr + i - 1 ELSE a.pages[i]
  BY <1>1, <1>2 DEF LoadedPages
<1> HIDE DEF g
<1>4. g \in Seq(Page \cup {None}) /\ Len(g) = size(a)
  BY <1>1, <1>3, SeqDef, LenProperties
<1>5. b = [a EXCEPT !.pages = g]
  BY DEF g
<1>6. /\ b \in AreaRec /\ b.vaddr = a.vaddr /\ b.flags = a.flags /\ b.off = a.off /\ b.pages = g
  BY <1>1, <1>4, <1>5 DEF AreaRec
<1>7. size(b) = size(a) /\ end_va(b) = end_va(a) /\ Cells(b) = Cells(a)
  BY <1>4, <1>6 DEF size, end_va, Cells
<1>8. ASSUME NEW p \in Cells(b)
      PROVE  /\ page_at(b, p) = IF p \in P THEN p ELSE page_at(a, p)
             /\ source(b, p) = source(a, p)
  <2>1. p - a.vaddr + 1 \in 1 .. size(a) /\ a.vaddr + (p - a.vaddr + 1) - 1 = p
    BY <1>1, <1>7
  <2>2. g[p - a.vaddr + 1] = IF p \in P THEN p ELSE a.pages[p - a.vaddr + 1]
    BY <1>3, <2>1
  <2> QED BY <1>6, <2>2 DEF page_at, source
<1>9. Area(b)
  <2>1. \A p \in Cells(b) : page_at(b, p) \in {None, p}
    BY <1>7, <1>8 DEF Area
  <2> QED BY <1>6, <1>7, <2>1 DEF Area
<1> QED BY <1>6, <1>7, <1>8, <1>9

(* A load keeps areas and page table in agreement.                         *)
LEMMA LoadOK ==
  ASSUME NEW m, MSOK(m), NEW a \in m.owned, NEW P, P \subseteq Cells(a),
         NEW w, w = load(m, a, P), NEW b, b = [a EXCEPT !.pages = LoadedPages(a, P)]
  PROVE  /\ MSOK(w) /\ w.owned = (m.owned \ {a}) \cup {b}
         /\ \A p \in P : w.pt[p] = [page |-> p, flags |-> a.flags]
         /\ Filled(m.owned) => Filled(w.owned)
<1> DEFINE g == [p \in Page |-> IF p \in P THEN [page |-> p, flags |-> a.flags] ELSE m.pt[p]]
           O == (m.owned \ {a}) \cup {b}
           k == m.ok /\ \A p \in P : m.pt[p] # Unused
<1>1. m \in MS /\ m.ok /\ AreasOK(m.owned) /\ TableOK(m) /\ Area(a)
  BY DEF MSOK, Sound, AreasOK
<1>2. /\ Area(b) /\ b.vaddr = a.vaddr /\ b.flags = a.flags /\ end_va(b) = end_va(a)
      /\ size(b) = size(a) /\ Cells(b) = Cells(a)
      /\ \A p \in Cells(b) : page_at(b, p) = IF p \in P THEN p ELSE page_at(a, p)
  BY <1>1, LoadedArea
<1>3. a.flags \in Flags /\ Cells(a) \subseteq Page /\ b \in AreaRec
  BY <1>1, <1>2, AreaFacts
<1>4. g \in [Page -> Entry]
  BY <1>1, <1>3 DEF MS, Entry
<1>5. \A p \in P : m.pt[p] # Unused
  BY <1>1, EntryOf DEF TableOK
<1>6. O \in SUBSET AreaRec
  BY <1>1, <1>3 DEF MS
<1>7. w = [m EXCEPT !.owned = O, !.pt = g, !.ok = k]
  BY <1>1 DEF load, LoadedPages, MS
<1>8. k = TRUE
  BY <1>1, <1>5 DEF MS
<1>9. \A p \in Page : g[p] = IF p \in P THEN [page |-> p, flags |-> a.flags] ELSE m.pt[p]
  OBVIOUS
<1> HIDE DEF g, k
<1>10. w \in MS /\ w.owned = O /\ w.pt = g /\ w.ok
  <2> HIDE DEF O
  <2> QED BY <1>1, <1>4, <1>6, <1>7, <1>8 DEF MS
<1>11. AreasOK(O)
  <2>1. \A c \in O : Area(c)
    BY <1>1, <1>2 DEF AreasOK
  <2>2. \A c \in m.owned \ {a} : Apart(b, c) /\ Apart(c, b)
    BY <1>1, <1>2 DEF AreasOK, Apart, Beside
  <2> QED BY <1>1, <2>1, <2>2 DEF AreasOK
<1>12. ASSUME NEW c \in O, NEW p \in Cells(c) PROVE w.pt[p] = pte(c, p)
  <2>1. p \in Page
    BY <1>11, AreaFacts DEF AreasOK
  <2>2. CASE c = b
    <3>1. CASE p \in P
      <4>1. page_at(b, p) = p /\ p # None
        BY <1>2, <2>1, <2>2, <3>1, Numbers DEF Page
      <4> QED BY <1>2, <1>9, <1>10, <2>1, <2>2, <3>1, <4>1 DEF pte
    <3>2. CASE p \notin P
      <4>1. pte(b, p) = pte(a, p)
        BY <1>2, <2>2, <3>2 DEF pte
      <4>2. m.pt[p] = pte(a, p)
        BY <1>1, <1>2, <2>2 DEF TableOK
      <4> QED BY <1>9, <1>10, <2>1, <2>2, <3>2, <4>1, <4>2
    <3> QED BY <3>1, <3>2
  <2>3. CASE c \in m.owned \ {a}
    <3>1. p \notin P
      BY <1>1, <2>3, OneArea
    <3> QED BY <1>1, <1>9, <1>10, <2>1, <2>3, <3>1 DEF TableOK
  <2> QED BY <2>2, <2>3
<1>13. ASSUME NEW p \in Page, ~Covered(O, p) PROVE w.pt[p] = Unused
  <2>1. ~Covered(m.owned, p)
    BY <1>2, <1>13 DEF Covered
  <2>2. p \notin P
    BY <1>2, <1>13 DEF Covered
  <2> QED BY <1>1, <1>9, <1>10, <2>1, <2>2 DEF TableOK
<1>14. \A p \in P : w.pt[p] = [page |-> p, flags |-> a.flags]
  BY <1>3, <1>9, <1>10
<1>15. Filled(m.owned) => Filled(w.owned)
  BY <1>2, <1>10 DEF Filled
<1> QED BY <1>10, <1>11, <1>12, <1>13, <1>14, <1>15 DEF MSOK, Sound, TableOK

-----------------------------------------------------------------------------
(* Looking areas up.                                                       *)

(* At an address there is the area that covers it, and no other.           *)
LEMMA AreaOf ==
  ASSUME NEW m, AreasOK(m.owned), NEW p \in Int
  PROVE  /\ \A a : a \in area_of(m, p) <=> a \in m.owned /\ p \in Cells(a)
         /\ Covered(m.owned, p) <=> area_of(m, p) # {}
         /\ \A a \in m.owned : p \in Cells(a) => area_of(m, p) = {a}
<1>1. \A a \in m.owned : p \in Cells(a) <=> a.vaddr <= p /\ p < end_va(a)
  BY AreaFacts DEF AreasOK
<1>2. \A a : a \in area_of(m, p) <=> a \in m.owned /\ p \in Cells(a)
  BY <1>1 DEF area_of
<1>3. ASSUME NEW a \in m.owned, p \in Cells(a) PROVE area_of(m, p) = {a}
  <2>1. \A b \in area_of(m, p) : b = a
    BY <1>2, <1>3, OneArea
  <2> QED BY <1>2, <1>3, <2>1
<1> QED BY <1>2, <1>3 DEF Covered

LEMMA ChosenArea ==
  ASSUME NEW m, AreasOK(m.owned), NEW p \in Int, NEW a \in m.owned, p \in Cells(a)
  PROVE  (CHOOSE b \in area_of(m, p) : TRUE) = a
<1>1. area_of(m, p) = {a}
  BY AreaOf
<1> QED BY <1>1

(* The page table, page by page.                                           *)
LEMMA Agrees ==
  ASSUME NEW m, Sound(m), NEW p \in Page
  PROVE  \/ area_of(m, p) = {} /\ m.pt[p] = Unused /\ ~Covered(m.owned, p)
         \/ \E a \in m.owned : area_of(m, p) = {a} /\ p \in Cells(a) /\ m.pt[p] = pte(a, p)
<1>1. AreasOK(m.owned) /\ TableOK(m) /\ p \in Int
  BY Numbers DEF Sound, Page
<1>2. CASE Covered(m.owned, p)
  <2>1. PICK a \in m.owned : p \in Cells(a)
    BY <1>2 DEF Covered
  <2>2. area_of(m, p) = {a}
    BY <1>1, <2>1, AreaOf
  <2> QED BY <1>1, <2>1, <2>2 DEF TableOK
<1>3. CASE ~Covered(m.owned, p)
  BY <1>1, <1>3, AreaOf DEF TableOK
<1> QED BY <1>2, <1>3

(* A clone is the memory set itself.                                       *)
LEMMA CloneSame == ASSUME NEW m, Sound(m), Filled(m.owned) PROVE clone_or_err(m) = m
<1> DEFINE g == [p \in Page |-> IF area_of(m, p) = {} THEN Unused
                                ELSE pte(CHOOSE a \in area_of(m, p) : TRUE, p)]
           k == m.ok /\ \A a \in m.owned :
                          size(a) > 0 /\ \A p \in Cells(a) : p \in Page /\ area_of(m, p) = {a}
<1>1. m \in MS /\ AreasOK(m.owned)
  BY DEF Sound
<1>2. ASSUME NEW p \in Page PROVE g[p] = m.pt[p]
  <2>1. CASE area_of(m, p) = {} /\ m.pt[p] = Unused
    BY <2>1
  <2>2. CASE \E a \in m.owned : area_of(m, p) = {a} /\ p \in Cells(a) /\ m.pt[p] = pte(a, p)
    <3>1. PICK a \in m.owned : area_of(m, p) = {a} /\ p \in Cells(a) /\ m.pt[p] = pte(a, p)
      BY <2>2
    <3>2. (CHOOSE b \in area_of(m, p) : TRUE) = a
      BY <3>1
    <3> QED BY <3>1, <3>2
  <2> QED BY <2>1, <2>2, Agrees
<1>3. g = m.pt
  <2>1. m.pt \in [Page -> Entry]
    BY <1>1 DEF MS
  <2> QED BY <1>2, <2>1
<1>4. \A a \in m.owned : \A p \in Cells(a) : p \in Page /\ area_of(m, p) = {a}
  <2> SUFFICES ASSUME NEW a \in m.owned, NEW p \in Cells(a)
               PROVE  p \in Page /\ area_of(m, p) = {a}
    OBVIOUS
  <2>1. p \in Page /\ p \in Int
    BY <1>1, AreaFacts, Numbers DEF AreasOK, Page
  <2> QED BY <1>1, <2>1, AreaOf
<1>5. k = m.ok
  BY <1>1, <1>4 DEF MS, Filled
<1>6. clone_or_err(m) = [m EXCEPT !.ok = k, !.pt = g]
  BY <1>1 DEF clone_or_err, MS
<1> HIDE DEF k, g
<1> QED BY <1>1, <1>3, <1>5, <1>6 DEF MS

-----------------------------------------------------------------------------
(* find_free_area.                                                         *)

(* A set of numbers that is not empty has a least one.                     *)
LEMMA Least ==
  ASSUME NEW T, T \subseteq Nat, T # {}
  PROVE  \E x \in T : \A y \in T : x <= y
<1>1. PICK x \in T : \A y \in T : ~ (<< y, x >> \in OpToRel(<, Nat))
  BY NatLessThanWellFounded, WFMin
<1>2. \A y \in T : ~ (y < x)
  BY <1>1 DEF OpToRel
<1> QED BY <1>2

(* Min of a set of numbers that is not empty is its least.                 *)
LEMMA MinIn ==
  ASSUME NEW T, T \subseteq Nat, T # {}
  PROVE  Min(T) \in T /\ \A y \in T : Min(T) <= y
<1>1. \E x \in T : \A y \in T : x <= y
  BY Least
<1> QED BY <1>1, Zenon DEF Min

(* The starts of the areas above a, and whether n pages fit below them.    *)
Above(m, a) == {b.vaddr : b \in {b \in m.owned : b.vaddr > a.vaddr}}
FitAfter(m, n) == {a \in m.owned : Above(m, a) # {} /\ end_va(a) + n <= Min(Above(m, a))}

(* The first start above a is that of the next area.                       *)
LEMMA AboveFacts ==
  ASSUME NEW m, AreasOK(m.owned), NEW a \in m.owned
  PROVE  /\ \A b \in m.owned : b.vaddr > a.vaddr => Above(m, a) # {} /\ Min(Above(m, a)) <= b.vaddr
         /\ Above(m, a) # {} => \E c \in m.owned : /\ c.vaddr > a.vaddr /\ c.vaddr = Min(Above(m, a))
                                                   /\ end_va(a) <= c.vaddr
<1>1. \A b \in m.owned : b.vaddr \in Nat
  BY AreaFacts DEF AreasOK
<1>2. Above(m, a) \subseteq Nat
  BY <1>1 DEF Above
<1>3. \A b \in m.owned : b.vaddr > a.vaddr => b.vaddr \in Above(m, a)
  BY DEF Above
<1>4. \A x \in Above(m, a) : \E c \in m.owned : c.vaddr > a.vaddr /\ c.vaddr = x
  BY DEF Above
<1>5. \A c \in m.owned : c.vaddr > a.vaddr => end_va(a) <= c.vaddr
  <2> SUFFICES ASSUME NEW c \in m.owned, c.vaddr > a.vaddr PROVE end_va(a) <= c.vaddr
    OBVIOUS
  <2>1. Area(a) /\ Area(c) /\ (a = c \/ Apart(a, c))
    BY DEF AreasOK
  <2> QED BY <2>1, AreaFacts DEF Apart, Beside
<1>6. Above(m, a) # {} => Min(Above(m, a)) \in Above(m, a) /\ \A y \in Above(m, a) : Min(Above(m, a)) <= y
  BY <1>2, MinIn
<1> QED BY <1>3, <1>4, <1>5, <1>6

(* Where the room after an area is too small, another area is in the way.  *)
LEMMA FitRoom ==
  ASSUME NEW m, AreasOK(m.owned), NEW n \in Nat
  PROVE  /\ \A a \in FitAfter(m, n) :
              /\ a \in m.owned /\ Room(m, end_va(a), n)
              /\ \E c \in m.owned : end_va(a) + n <= c.vaddr
         /\ \A a, b \in m.owned : n > 0 /\ end_va(a) + n <= b.vaddr /\ a \notin FitAfter(m, n)
              => overlapped(m, end_va(a), n) \ {a} # {}
<1>1. \A a \in m.owned : Area(a) /\ a.vaddr \in Nat /\ end_va(a) \in Nat /\ a.vaddr <= end_va(a)
  BY AreaFacts DEF AreasOK
<1>2. ASSUME NEW a \in FitAfter(m, n)
      PROVE  /\ a \in m.owned /\ Room(m, end_va(a), n)
             /\ \E c \in m.owned : end_va(a) + n <= c.vaddr
  <2>1. a \in m.owned /\ Above(m, a) # {} /\ end_va(a) + n <= Min(Above(m, a))
    BY DEF FitAfter
  <2>2. PICK c \in m.owned : c.vaddr = Min(Above(m, a))
    BY <2>1, AboveFacts
  <2>3. ASSUME NEW b \in m.owned PROVE Beside(b, end_va(a), end_va(a) + n)
    <3>1. CASE b.vaddr > a.vaddr
      <4>1. c.vaddr <= b.vaddr
        BY <2>1, <2>2, <3>1, AboveFacts
      <4> QED BY <1>1, <2>1, <2>2, <4>1 DEF Beside
    <3>2. CASE b.vaddr <= a.vaddr
      <4>1. a = b \/ Apart(a, b)
        BY <2>1 DEF AreasOK
      <4>2. end_va(b) <= end_va(a)
        BY <1>1, <2>1, <3>2, <4>1 DEF Apart, Beside
      <4> QED BY <4>2 DEF Beside
    <3> QED BY <1>1, <2>1, <3>1, <3>2
  <2> QED BY <2>1, <2>2, <2>3 DEF Room
<1>3. ASSUME NEW a \in m.owned, NEW b \in m.owned, n > 0, end_va(a) + n <= b.vaddr,
             a \notin FitAfter(m, n)
      PROVE  overlapped(m, end_va(a), n) \ {a} # {}
  <2>1. Above(m, a) # {}
    BY <1>1, <1>3, AboveFacts
  <2>2. PICK c \in m.owned :
          c.vaddr > a.vaddr /\ c.vaddr = Min(Above(m, a)) /\ end_va(a) <= c.vaddr
    BY <2>1, AboveFacts
  <2>3. c.vaddr < end_va(a) + n
    BY <1>1, <1>3, <2>1, <2>2 DEF FitAfter
  <2>4. c # a /\ overlap_with(c, end_va(a), end_va(a) + n)
    BY <1>1, <2>2, <2>3 DEF overlap_with
  <2> QED BY <2>4 DEF overlapped
<1> QED BY <1>2, <1>3

(* What find_free_area returns is free; it fails only without room.        *)
LEMMA FreeArea ==
  ASSUME NEW m, AreasOK(m.owned), NEW hint \in Page, NEW n \in Nat,
         NEW at, at = find_free_area(m, hint, n)
  PROVE  \/ at \in Page /\ at # None /\ at + n <= NPage /\ Room(m, at, n)
         \/ /\ at = None
            /\ \A a, b \in m.owned : n > 0 /\ end_va(a) + n <= b.vaddr
                 => overlapped(m, end_va(a), n) \ {a} # {}
<1> DEFINE V == {a.vaddr : a \in m.owned}
           E == {end_va(a) : a \in FitAfter(m, n)}
<1>1. \A a \in m.owned : /\ a.vaddr \in Nat /\ end_va(a) \in Nat /\ a.vaddr < NPage
  BY AreaFacts, Numbers DEF AreasOK, Page
<1>2. hint \in Nat
  BY Numbers DEF Page
<1>3. at = IF m.owned = {} THEN None
           ELSE IF hint + n <= Min(V) THEN hint
           ELSE IF FitAfter(m, n) = {} THEN None ELSE Min(E)
  BY DEF find_free_area, FitAfter, Above
<1>4. \A x \in Page : x # None
  BY Numbers DEF Page
<1>5. m.owned # {} => Min(V) \in V /\ \A v \in V : Min(V) <= v
  <2>1. V \subseteq Nat /\ (m.owned # {} => V # {})
    BY <1>1
  <2> HIDE DEF V
  <2> QED BY <2>1, MinIn
<1>6. FitAfter(m, n) # {} => Min(E) \in E
  <2>1. E \subseteq Nat /\ (FitAfter(m, n) # {} => E # {})
    BY <1>1 DEF FitAfter
  <2> HIDE DEF E
  <2> QED BY <2>1, MinIn
<1>7. CASE m.owned # {} /\ hint + n <= Min(V)
  <2>1. PICK c \in m.owned : c.vaddr = Min(V)
    BY <1>5, <1>7
  <2>2. \A b \in m.owned : hint + n <= b.vaddr
    <3>1. \A b \in m.owned : Min(V) <= b.vaddr
      BY <1>5, <1>7
    <3>2. Min(V) \in Int
      BY <1>1, <2>1
    <3> HIDE DEF V
    <3> QED BY <1>1, <1>2, <1>7, <3>1, <3>2
  <2>3. at = hint /\ hint + n <= NPage
    <3>1. c.vaddr \in Nat /\ c.vaddr < NPage /\ hint + n <= c.vaddr /\ NPage \in Nat
      BY <1>1, <1>7, <2>1, Numbers
    <3>2. hint + n <= NPage
      BY <1>2, <3>1
    <3> QED BY <1>3, <1>7, <3>2
  <2> QED BY <1>4, <2>2, <2>3 DEF Room, Beside
<1>8. CASE m.owned # {} /\ ~(hint + n <= Min(V)) /\ FitAfter(m, n) # {}
  <2>1. PICK a \in FitAfter(m, n) : Min(E) = end_va(a)
    BY <1>6, <1>8
  <2>2. /\ a \in m.owned /\ Room(m, end_va(a), n)
        /\ \E c \in m.owned : end_va(a) + n <= c.vaddr
    BY FitRoom
  <2>3. at = end_va(a) /\ end_va(a) \in Nat
    BY <1>1, <1>3, <1>8, <2>1, <2>2
  <2>4. at \in Page /\ at + n <= NPage
    BY <1>1, <2>2, <2>3, Numbers DEF Page
  <2> QED BY <1>4, <2>2, <2>3, <2>4
<1>9. CASE m.owned = {} \/ (~(hint + n <= Min(V)) /\ FitAfter(m, n) = {})
  <2>1. at = None
    BY <1>3, <1>9
  <2> QED BY <1>9, <2>1, FitRoom
<1> QED BY <1>7, <1>8, <1>9

-----------------------------------------------------------------------------
(* The operations, as functions of the memory set.                         *)

(* In w the n pages from s are mapped and lazy, the others as in m.        *)
Mapping(m, w, s, n, f, off) ==
  \A p \in Page :
    IF p \in Span(s, n)
    THEN \E a \in w.owned : /\ p \in Cells(a) /\ a.flags = f /\ page_at(a, p) = None
                            /\ source(a, p) = IF off = None THEN None ELSE off + (p - s)
    ELSE Shows(m.owned, w.owned, p)

LEMMA ShowsSame == ASSUME NEW O, AreasOK(O), NEW p PROVE Shows(O, O, p)
BY OneArea DEF Shows, SameView

LEMMA ShowsThrough ==
  ASSUME NEW O, NEW P, NEW Q, NEW p, Shows(O, P, p), Shows(P, Q, p)
  PROVE  Shows(O, Q, p)
<1>1. ASSUME NEW a \in O, NEW c \in Q, p \in Cells(a), p \in Cells(c) PROVE SameView(a, c, p)
  <2>1. PICK b \in P : p \in Cells(b)
    BY <1>1 DEF Shows, Covered
  <2>2. SameView(a, b, p) /\ SameView(b, c, p)
    BY <1>1, <2>1 DEF Shows
  <2> QED BY <2>2 DEF SameView
<1> QED BY <1>1 DEF Shows

(* A new area shows nothing new where it has no page.                      *)
LEMMA ShowsBeside ==
  ASSUME NEW O, AreasOK(O), NEW a, NEW p, p \notin Cells(a) PROVE Shows(O, O \cup {a}, p)
<1>1. Shows(O, O, p)
  BY ShowsSame
<1> QED BY <1>1 DEF Shows, Covered

(* new_region on free pages maps these and no other page.                  *)
LEMMA LazyMapping ==
  ASSUME NEW m, MSOK(m), NEW s \in Page, NEW n \in Nat, s + n <= NPage, NEW f \in Flags,
         NEW off \in Nat \cup {None}, off # None => off + n <= FileLen, Room(m, s, n),
         NEW w, w = new_lazy(m, s, n, f, off)
  PROVE  /\ w.ok => MSOK(w) /\ Mapping(m, w, s, n, f, off)
         /\ n > 0 /\ Filled(m.owned) => w.ok /\ Filled(w.owned)
<1>1. n > 0 /\ Filled(m.owned) => w.ok /\ Filled(w.owned)
  BY LazyOK
<1> SUFFICES ASSUME w.ok PROVE MSOK(w) /\ Mapping(m, w, s, n, f, off)
  BY <1>1
<1>2. MSOK(w) /\ \E a : LazyArea(m, w, a, s, n, f, off)
  BY LazyOK
<1>3. PICK a : LazyArea(m, w, a, s, n, f, off)
  BY <1>2
<1>4. ASSUME NEW p \in Page, p \in Span(s, n)
      PROVE  \E b \in w.owned : /\ p \in Cells(b) /\ b.flags = f /\ page_at(b, p) = None
                                /\ source(b, p) = IF off = None THEN None ELSE off + (p - s)
  BY <1>3, <1>4 DEF source, LazyArea
<1>5. ASSUME NEW p \in Page, p \notin Span(s, n) PROVE Shows(m.owned, w.owned, p)
  <2>1. AreasOK(m.owned) /\ p \notin Cells(a)
    BY <1>3, <1>5 DEF MSOK, Sound, LazyArea
  <2> QED BY <1>3, <2>1, ShowsBeside DEF LazyArea
<1> QED BY <1>2, <1>4, <1>5 DEF Mapping

(* mmap at a fixed address; of no page, it only frees pages.               *)
LEMMA FixedMapping ==
  ASSUME NEW m, MSOK(m), NEW s \in Page, NEW n \in Nat, s + n <= NPage, NEW f \in Flags,
         NEW off \in Nat \cup {None}, off # None => off + n <= FileLen,
         NEW w, w = new_lazy(split_for_area(m, s, n), s, n, f, off)
  PROVE  /\ w.ok => /\ MSOK(w)
                    /\ IF n > 0 THEN Mapping(m, w, s, n, f, off) ELSE Without(m, w, Removed(m, s, n))
         /\ n > 0 /\ Filled(m.owned) => w.ok /\ Filled(w.owned)
<1> DEFINE x == split_for_area(m, s, n)
<1>1. s \in Int
  BY Numbers DEF Page
<1>2. /\ MSOK(x) /\ Without(m, x, Removed(m, s, n)) /\ Room(x, s, n)
      /\ Filled(m.owned) /\ n > 0 => Filled(x.owned)
  BY <1>1, SplitOK DEF Room
<1>3. w = new_lazy(x, s, n, f, off)
  OBVIOUS
<1> HIDE DEF x
<1>4. /\ w.ok => MSOK(w) /\ Mapping(x, w, s, n, f, off)
      /\ n > 0 /\ Filled(x.owned) => w.ok /\ Filled(w.owned)
  BY <1>2, <1>3, LazyMapping
<1>5. ASSUME n > 0, Mapping(x, w, s, n, f, off) PROVE Mapping(m, w, s, n, f, off)
  <2>1. Removed(m, s, n) = Span(s, n)
    BY <1>5 DEF Removed
  <2> QED BY <1>2, <1>5, <2>1, ShowsThrough DEF Mapping, Without
<1>6. ASSUME n = 0, Mapping(x, w, s, n, f, off) PROVE Without(m, w, Removed(m, s, n))
  <2>1. \A p \in Page : p \notin Span(s, n)
    BY <1>1, <1>6 DEF Span
  <2>2. \A p \in Page : Shows(x.owned, w.owned, p)
    BY <1>6, <2>1 DEF Mapping
  <2> QED BY <1>2, <2>2, ShowsThrough DEF Without, Shows
<1> QED BY <1>2, <1>4, <1>5, <1>6

(* munmap frees the pages of one region, or none.                          *)
Frees(m, w) == \E x \in Page, k \in 0 .. NPage : Without(m, w, Span(x, k))

LEMMA FreesNone ==
  ASSUME NEW m, AreasOK(m.owned), NEW w, \A p \in Page : Shows(m.owned, w.owned, p)
  PROVE  Frees(m, w)
<1> DEFINE z == 0
<1>1. z \in Page /\ z \in 0 .. NPage
  BY Numbers DEF Page
<1>2. Span(z, z) = {}
  BY DEF Span
<1> HIDE DEF z
<1>3. Without(m, w, Span(z, z))
  BY <1>2 DEF Without
<1> QED BY <1>1, <1>3 DEF Frees

(* What split_for_area frees is one region, also with size zero.           *)
LEMMA RemovedSpan ==
  ASSUME NEW m, AreasOK(m.owned), NEW s \in Page, NEW n \in Nat, s + n <= NPage,
         NEW w, Without(m, w, Removed(m, s, n))
  PROVE  Frees(m, w)
<1> DEFINE A == {a \in m.owned : a.vaddr = s}
<1>1. CASE n > 0
  <2>1. n \in 0 .. NPage /\ Removed(m, s, n) = Span(s, n)
    BY <1>1, Numbers DEF Removed, Page
  <2> QED BY <2>1 DEF Frees
<1>2. CASE n = 0 /\ A = {}
  <2>1. \A p \in Page : p \notin Removed(m, s, n)
    BY <1>2 DEF Removed, CellsOf
  <2>2. \A p \in Page : Shows(m.owned, w.owned, p)
    BY <2>1 DEF Without
  <2> QED BY <2>2, FreesNone
<1>3. CASE n = 0 /\ A # {}
  <2>1. PICK a \in m.owned : a.vaddr = s
    BY <1>3
  <2>2. A = {a}
    BY <2>1 DEF AreasOK, Apart
  <2>3. Removed(m, s, n) = Span(a.vaddr, size(a))
    BY <1>3, <2>2 DEF Removed, CellsOf, Cells
  <2>4. a.vaddr \in Page /\ size(a) \in 0 .. NPage
    BY AreaFacts, Numbers DEF AreasOK
  <2> QED BY <2>3, <2>4 DEF Frees
<1> QED BY <1>1, <1>2, <1>3

LEMMA EmptyOK ==
  ASSUME NEW m, m.owned = {}, m \in MS, m.ok, \A p \in Page : m.pt[p] = Unused
  PROVE  MSOK(m)
BY DEF MSOK, Sound, AreasOK, TableOK, Covered

(* unmap_user_areas leaves nothing.                                        *)
LEMMA ClearOK ==
  ASSUME NEW m, MSOK(m), NEW w,
         w = [unmap_region(m, m.owned, CellsOf(m.owned)) EXCEPT !.owned = {}]
  PROVE  MSOK(w) /\ w.owned = {}
<1> DEFINE P == CellsOf(m.owned)
           u == unmap_region(m, m.owned, P)
<1>1. m \in MS /\ m.ok /\ AreasOK(m.owned) /\ TableOK(m)
  BY DEF MSOK, Sound
<1>2. \A p : p \in P <=> Covered(m.owned, p)
  BY DEF Covered, CellsOf
<1> HIDE DEF P
<1>3. \A a \in m.owned : \A p \in Cells(a) \cap P :
        p \in Page /\ m.pt[p] # Unused /\ \A b \in m.owned \ {a} : p \notin Cells(b)
  <2> SUFFICES ASSUME NEW a \in m.owned, NEW p \in Cells(a)
               PROVE  p \in Page /\ m.pt[p] # Unused /\ \A b \in m.owned \ {a} : p \notin Cells(b)
    OBVIOUS
  <2>1. Area(a) /\ m.pt[p] = pte(a, p)
    BY <1>1 DEF AreasOK, TableOK
  <2>2. p \in Page /\ m.pt[p] # Unused
    BY <2>1, AreaFacts, EntryOf
  <2> QED BY <1>1, <2>2, OneArea
<1>4. /\ u \in MS /\ u.ok
      /\ \A p \in Page : u.pt[p] = IF p \in P /\ Covered(m.owned, p) THEN Unused ELSE m.pt[p]
  BY <1>1, <1>3, UnmapEffect
<1>5. \A p \in Page : u.pt[p] = Unused
  BY <1>1, <1>2, <1>4 DEF TableOK
<1>6. w = [u EXCEPT !.owned = {}]
  BY DEF P
<1> HIDE DEF u
<1>7. w \in MS /\ w.owned = {} /\ w.pt = u.pt /\ w.ok
  BY <1>4, <1>6 DEF MS
<1> QED BY <1>5, <1>7, EmptyOK

-----------------------------------------------------------------------------
(* The invariant of the specification.                                     *)

MoveRec(B) == [from : Page, old : Nat, to : Page, new : Nat, next : Nat, before : B]

(* While an mremap runs, its new region consists of pages that may be      *)
(* written.                                                                *)
MoveOK ==
  /\ move \in MoveRec({move.before})
  /\ move.from + move.old <= NPage /\ move.to + move.new <= NPage
  /\ \A p \in Span(move.to, move.new) : \E a \in ms.owned : p \in Cells(a) /\ a.flags = RW

(* Until an unusual call is made nothing fails and no area is empty.       *)
Usual == ms.ok /\ Filled(ms.owned) /\ (move # None => move.old > 0 /\ move.old <= move.new)

Inv == /\ Sound(ms) /\ odd \in BOOLEAN
       /\ move = None \/ MoveOK
       /\ odd \/ Usual

(* The program and the user stack are mapped apart.                        *)
LEMMA InitInv == ASSUME Init PROVE Inv
<1> DEFINE z == [owned |-> {}, pt |-> [p \in Page |-> Unused], ok |-> TRUE]
           x == new_alloc(z, 0, 1, R, None)
<1>1. MSOK(z) /\ z.owned = {}
  <2>1. z \in MS
    BY DEF MS, Entry
  <2> QED BY <2>1, EmptyOK
<1>2. ms = new_alloc(x, NPage - 1, 1, RW, None) /\ move = None /\ odd = FALSE
  BY DEF Init
<1> HIDE DEF z
<1> DEFINE o == None
           q == NPage - 1
           b == 0
           n == 1
<1>3. /\ o \in Nat \cup {None} /\ (o # None => o + n <= FileLen) /\ R \in Flags /\ RW \in Flags
      /\ b \in Page /\ n \in Nat /\ n > 0
      /\ q \in Page /\ q + n <= NPage /\ b + n <= NPage /\ b + n <= q
  BY Numbers DEF Flags, Page
<1>4. x = new_alloc(z, b, n, R, o) /\ ms = new_alloc(x, q, n, RW, o)
  BY <1>2
<1> HIDE DEF o, q, b, n, x
<1>5. /\ MSOK(x) /\ Filled(x.owned)
      /\ \E a : Area(a) /\ x.owned = z.owned \cup {a} /\ a.vaddr = b /\ size(a) = n
  <2>1. Room(z, b, n) /\ Filled(z.owned)
    BY <1>1 DEF Room, Filled
  <2>2. x.ok /\ Filled(x.owned)
    BY <1>1, <1>3, <1>4, <2>1, AllocOK
  <2>3. MSOK(x) /\ \E a : AllocArea(z, x, a, b, n, R, o)
    BY <1>1, <1>3, <1>4, <2>1, <2>2, AllocOK
  <2> QED BY <2>2, <2>3 DEF AllocArea
<1>6. Room(x, q, n)
  BY <1>1, <1>3, <1>5, AreaFacts DEF Room, Beside
<1>7. MSOK(ms) /\ Filled(ms.owned)
  <2>1. ms.ok /\ Filled(ms.owned)
    BY <1>3, <1>4, <1>5, <1>6, AllocOK
  <2> QED BY <1>3, <1>4, <1>5, <1>6, <2>1, AllocOK
<1> QED BY <1>2, <1>7 DEF Inv, Usual, MSOK

(* A panic leaves areas and page table as they were.                       *)
Kept(m, w) == w.owned = m.owned /\ w.pt = m.pt

LEMMA BecomesOK ==
  ASSUME Sound(ms), NEW w, Becomes(w), w.ok => MSOK(w)
  PROVE  /\ Sound(ms')
         /\ w.ok => ms' = w /\ MSOK(ms')
         /\ ~w.ok => Kept(ms, ms') /\ ~ms'.ok
<1>1. CASE w.ok
  BY <1>1 DEF Becomes, MSOK
<1>2. CASE ~w.ok
  <2>1. ms \in MS /\ ms' = [ms EXCEPT !.ok = FALSE]
    BY <1>2 DEF Becomes, Sound
  <2>2. ms' \in MS /\ ms'.owned = ms.owned /\ ms'.pt = ms.pt /\ ~ms'.ok
    BY <2>1 DEF MS
  <2> QED BY <1>2, <2>2 DEF Sound, TableOK, Kept
<1> QED BY <1>1, <1>2

LEMMA KeptFrees == ASSUME NEW m, AreasOK(m.owned), NEW w, Kept(m, w) PROVE Frees(m, w)
BY ShowsSame, FreesNone DEF Kept

(* A mapping of the file lies in the file.                                 *)
LEMMA BackingFacts ==
  ASSUME NEW n \in Nat, NEW off \in Backing(n)
  PROVE  off \in Nat \cup {None} /\ (off # None => off + n <= FileLen)
<1>1. off = None \/ (off \in Offsets /\ off + n <= FileLen)
  BY DEF Backing
<1>2. \A o \in Offsets : o \in 0 .. FileLen
  BY MemoryAssumption, Zenon
<1> QED BY <1>1, <1>2

(* The two ways of mmap, and its failure.                                  *)
LEMMA MmapStep ==
  ASSUME Inv, NEW s \in Page, NEW n \in 0 .. (NPage - s), NEW f \in Flags,
         NEW off \in Backing(n), NEW fixed \in BOOLEAN, mmap(s, n, f, fixed, off)
  PROVE  /\ Inv'
         /\ \/ Frees(ms, ms')
            \/ n > 0 /\ \E t \in Page : t + n <= NPage /\ Mapping(ms, ms', t, n, f, off)
<1> DEFINE at == IF fixed THEN s ELSE find_free_area(ms, s, n)
           m == IF fixed THEN split_for_area(ms, s, n) ELSE ms
           w == IF at = None THEN ms ELSE new_lazy(m, at, n, f, off)
<1>1. /\ n \in Nat /\ s + n <= NPage /\ MSOK(ms) /\ AreasOK(ms.owned) /\ Sound(ms)
      /\ move = None /\ move' = None /\ odd \in BOOLEAN /\ odd' = (odd \/ n = 0)
      /\ Becomes(w) /\ s # None
  BY Numbers DEF Page, Inv, MSOK, Sound, mmap, Call, Ready
<1>2. off \in Nat \cup {None} /\ (off # None => off + n <= FileLen)
  BY <1>1, BackingFacts
<1>3. /\ w.ok => /\ MSOK(w)
                 /\ \/ Frees(ms, w)
                    \/ n > 0 /\ \E t \in Page : t + n <= NPage /\ Mapping(ms, w, t, n, f, off)
      /\ n > 0 /\ Filled(ms.owned) => w.ok /\ Filled(w.owned)
  <2>1. CASE fixed
    <3>1. w = new_lazy(split_for_area(ms, s, n), s, n, f, off)
      BY <1>1, <2>1
    <3> HIDE DEF w
    <3>2. /\ w.ok => /\ MSOK(w)
                     /\ IF n > 0 THEN Mapping(ms, w, s, n, f, off)
                                 ELSE Without(ms, w, Removed(ms, s, n))
          /\ n > 0 /\ Filled(ms.owned) => w.ok /\ Filled(w.owned)
      BY <1>1, <1>2, <3>1, FixedMapping
    <3> QED BY <1>1, <3>2, RemovedSpan
  <2>2. CASE ~fixed
    <3> DEFINE t == find_free_area(ms, s, n)
    <3>1. w = IF t = None THEN ms ELSE new_lazy(ms, t, n, f, off)
      BY <2>2
    <3>2. (t \in Page /\ t # None /\ t + n <= NPage /\ Room(ms, t, n)) \/ t = None
      BY <1>1, FreeArea
    <3> HIDE DEF t, w
    <3>3. CASE t = None
      BY <1>1, <3>1, <3>3, ShowsSame, FreesNone DEF MSOK
    <3>4. CASE t \in Page /\ t # None /\ t + n <= NPage /\ Room(ms, t, n)
      <4>1. w = new_lazy(ms, t, n, f, off)
        BY <3>1, <3>4
      <4>2. /\ w.ok => MSOK(w) /\ Mapping(ms, w, t, n, f, off)
            /\ n > 0 /\ Filled(ms.owned) => w.ok /\ Filled(w.owned)
        BY <1>1, <1>2, <3>4, <4>1, LazyMapping
      <4>3. ASSUME n = 0, Mapping(ms, w, t, n, f, off) PROVE Frees(ms, w)
        <5>1. \A p \in Page : p \notin Span(t, n)
          BY <3>4, <4>3, Numbers DEF Span, Page
        <5> QED BY <1>1, <4>3, <5>1, FreesNone DEF Mapping
      <4> QED BY <1>1, <3>4, <4>2, <4>3
    <3> QED BY <3>2, <3>3, <3>4
  <2> QED BY <2>1, <2>2
<1> HIDE DEF w
<1>4. /\ Sound(ms') /\ (w.ok => ms' = w /\ MSOK(ms')) /\ (~w.ok => Kept(ms, ms'))
  BY <1>1, <1>3, BecomesOK
<1>5. Inv'
  <2>1. (~odd' => ~odd /\ n # 0) /\ odd' \in BOOLEAN
    BY <1>1, Zenon
  <2>2. ASSUME ~odd' PROVE Usual'
    BY <1>1, <1>3, <1>4, <2>1, <2>2 DEF Inv, Usual, MSOK
  <2> QED BY <1>1, <1>4, <2>1, <2>2 DEF Inv, MSOK
<1> QED BY <1>1, <1>3, <1>4, <1>5, KeptFrees

LEMMA MunmapStep ==
  ASSUME Inv, NEW s \in Page, NEW n \in 0 .. (NPage - s), munmap(s, n)
  PROVE  Inv' /\ Frees(ms, ms')
<1> DEFINE w == split_for_area(ms, s, n)
<1>1. /\ n \in Nat /\ s + n <= NPage /\ MSOK(ms) /\ AreasOK(ms.owned) /\ Sound(ms) /\ s \in Int
      /\ move = None /\ move' = None /\ odd \in BOOLEAN /\ odd' = (odd \/ n = 0)
      /\ Becomes(w)
  BY Numbers DEF Page, Inv, MSOK, Sound, munmap, Call, Ready
<1>2. /\ MSOK(w) /\ Without(ms, w, Removed(ms, s, n))
      /\ Filled(ms.owned) /\ n > 0 => Filled(w.owned)
  BY <1>1, SplitOK
<1> HIDE DEF w
<1>3. ms' = w
  BY <1>1, <1>2, BecomesOK DEF MSOK
<1>4. Inv'
  <2>1. (~odd' => ~odd /\ n # 0) /\ odd' \in BOOLEAN
    BY <1>1, Zenon
  <2>2. ASSUME ~odd' PROVE Usual'
    BY <1>1, <1>2, <1>3, <2>1, <2>2 DEF Inv, Usual, MSOK
  <2> QED BY <1>1, <1>2, <1>3, <2>1, <2>2 DEF Inv, MSOK
<1> QED BY <1>1, <1>2, <1>3, <1>4, RemovedSpan

LEMMA MprotectStep ==
  ASSUME Inv, NEW s \in Page, NEW n \in 0 .. (NPage - s), NEW f \in Flags, mprotect(s, n, f)
  PROVE  /\ Inv'
         /\ \/ Kept(ms, ms')
            \/ \A p \in Page :
                 IF p \in Span(s, n)
                 THEN /\ Covered(ms.owned, p) <=> Covered(ms'.owned, p)
                      /\ \A a \in ms.owned, b \in ms'.owned :
                           p \in Cells(a) /\ p \in Cells(b) => ViewWith(a, b, p, f)
                 ELSE Shows(ms.owned, ms'.owned, p)
<1> DEFINE over == overlapped(ms, s, n)
           out == [ms EXCEPT !.owned = @ \ over, !.ok = @ /\ (n = 0 => over = {})]
           A == UNION {Pieces(a, s, n, f) : a \in over}
           w == insert(update_region(out, over, Span(s, n), f), A)
<1>1. /\ n \in Nat /\ s + n <= NPage /\ MSOK(ms) /\ Sound(ms) /\ ms \in MS /\ s \in Int
      /\ move = None /\ move' = None /\ odd \in BOOLEAN /\ odd' = (odd \/ n = 0)
      /\ Becomes(w)
  BY Numbers DEF Page, Inv, MSOK, Sound, mprotect, Call, Ready, Pieces
<1>2. CASE n > 0
  <2>1. out = [ms EXCEPT !.owned = @ \ over]
    <3>1. (ms.ok /\ (n = 0 => over = {})) = ms.ok
      BY <1>1, <1>2 DEF MS
    <3> QED BY <1>1, <3>1 DEF MS
  <2>2. w = Protected(ms, s, n, f)
    BY <2>1 DEF Protected
  <2> HIDE DEF w
  <2>3. /\ MSOK(w) /\ (Filled(ms.owned) => Filled(w.owned))
        /\ \A p \in Page :
             IF p \in Span(s, n)
             THEN /\ Covered(ms.owned, p) <=> Covered(w.owned, p)
                  /\ \A a \in ms.owned, b \in w.owned :
                       p \in Cells(a) /\ p \in Cells(b) => ViewWith(a, b, p, f)
             ELSE Shows(ms.owned, w.owned, p)
    BY <1>1, <1>2, <2>2, ProtectOK
  <2>4. ms' = w
    BY <1>1, <2>3, BecomesOK DEF MSOK
  <2>5. Inv'
    BY <1>1, <2>3, <2>4 DEF Inv, Usual, MSOK
  <2> QED BY <2>3, <2>4, <2>5
<1>3. CASE n = 0
  <2>1. w.ok => over = {} /\ MSOK(w) /\ Kept(ms, w)
    <3>1. /\ out \in MS /\ out.owned = ms.owned \ over /\ out.pt = ms.pt
          /\ out.ok <=> over = {}
      BY <1>1, <1>3 DEF MS, MSOK
    <3> HIDE DEF out, over
    <3>2. update_region(out, over, Span(s, n), f).ok = out.ok
      BY <3>1, UpdateEffect
    <3>3. w.ok => over = {}
      <4> DEFINE u == update_region(out, over, Span(s, n), f)
      <4>1. u \in MS
        BY <3>1, UpdateEffect
      <4> HIDE DEF u
      <4>2. insert(u, A).ok => u.ok
        BY <4>1 DEF insert, MS
      <4> QED BY <3>1, <3>2, <4>2 DEF u
    <3>4. ASSUME over = {} PROVE w = insert(update_region(out, {}, Span(s, n), f), {}) /\ out = ms
      <4>1. A = {}
        BY <3>4
      <4>2. out = ms
        BY <1>1, <3>1, <3>4 DEF MS, MSOK
      <4> QED BY <3>4, <4>1, <4>2
    <3>5. ASSUME over = {} PROVE MSOK(w) /\ Kept(ms, w)
      <4> DEFINE u == update_region(ms, {}, Span(s, n), f)
      <4>1. w = insert(u, {})
        BY <3>4, <3>5
      <4>2. /\ u \in MS /\ u.owned = ms.owned /\ u.ok = ms.ok
            /\ \A p \in Page : u.pt[p] = ms.pt[p]
        <5> DEFINE none == {}
        <5>1. none = {}
          OBVIOUS
        <5> HIDE DEF none
        <5>2. \A p : ~Covered(none, p)
          BY <5>1 DEF Covered
        <5>3. u = update_region(ms, none, Span(s, n), f)
          BY <5>1
        <5> HIDE DEF u
        <5>4. /\ u \in MS /\ u.owned = ms.owned /\ u.ok = ms.ok
              /\ \A p \in Page :
                   u.pt[p] = IF p \in Span(s, n) /\ Covered(none, p)
                                /\ ms.pt[p] \notin {Unused, Fault}
                             THEN [page |-> ms.pt[p].page, flags |-> f] ELSE ms.pt[p]
          BY <1>1, <5>3, UpdateEffect
        <5> QED BY <5>2, <5>4
      <4> HIDE DEF u, w
      <4>3. u.pt = ms.pt
        <5>1. u.pt \in [Page -> Entry] /\ ms.pt \in [Page -> Entry]
          BY <1>1, <4>2 DEF MS
        <5> QED BY <4>2, <5>1
      <4>4. w \in MS /\ w.owned = ms.owned /\ w.pt = ms.pt /\ w.ok
        <5> DEFINE none == {}
        <5>1. none = {} /\ none \in SUBSET AreaRec /\ Fresh(none, u.owned) /\ w = insert(u, none)
          BY <4>1 DEF Fresh
        <5> HIDE DEF none
        <5>2. w \in MS /\ w.owned = u.owned \cup none /\ w.pt = u.pt
          BY <4>2, <5>1, InsertEffect
        <5>3. u.ok
          BY <1>1, <4>2 DEF MSOK
        <5>4. w.ok
          BY <4>2, <5>1, <5>3, InsertEffect, Zenon
        <5> QED BY <4>2, <4>3, <5>1, <5>2, <5>4
      <4> QED BY <1>1, <4>4 DEF MSOK, Sound, TableOK, Kept
    <3> QED BY <3>3, <3>5
  <2> HIDE DEF w
  <2>2. Sound(ms') /\ Kept(ms, ms')
    BY <1>1, <2>1, BecomesOK
  <2>3. Inv'
    BY <1>1, <1>3, <2>2 DEF Inv
  <2> QED BY <2>2, <2>3
<1> QED BY <1>1, <1>2, <1>3

(* mremap starts to move the pages, or there is no room.                   *)
LEMMA MremapStep ==
  ASSUME Inv, NEW s \in Page, NEW n \in 0 .. (NPage - s), NEW k \in 0 .. (NPage - 1), mremap(s, n, k)
  PROVE  /\ Inv'
         /\ \/ Kept(ms, ms') /\ move' = None
            \/ \E t \in Page :
                 /\ t + k <= NPage /\ Room(ms, t, k) /\ Mapping(ms, ms', t, k, RW, None) /\ ms'.ok
                 /\ move' = [from |-> s, old |-> n, to |-> t, new |-> k, next |-> 0, before |-> Bar]
<1> DEFINE t == find_free_area(ms, s, k)
           o == None
           w == IF t = None THEN ms ELSE new_lazy(ms, t, k, RW, o)
           mv == [from |-> s, old |-> n, to |-> t, new |-> k, next |-> 0, before |-> Bar]
<1>1. /\ n \in Nat /\ k \in Nat /\ s + n <= NPage /\ MSOK(ms) /\ AreasOK(ms.owned) /\ Sound(ms)
      /\ move = None /\ odd \in BOOLEAN /\ odd' = (odd \/ n = 0 \/ k < n)
      /\ Becomes(w) /\ move' = IF t = None \/ ~ms'.ok THEN None ELSE mv
  BY Numbers DEF Page, Inv, MSOK, Sound, mremap, Call, Ready
<1>2. (t \in Page /\ t # None /\ t + k <= NPage /\ Room(ms, t, k)) \/ t = None
  BY <1>1, FreeArea
<1>3. o \in Nat \cup {None} /\ (o # None => o + k <= FileLen) /\ RW \in Flags
  BY DEF Flags
<1>4. o = None
  OBVIOUS
<1> HIDE DEF t, o
<1>5. CASE t = None
  <2>1. w = ms
    BY <1>5
  <2> HIDE DEF w
  <2>2. ms' = ms /\ move' = None
    BY <1>1, <1>5, <2>1, BecomesOK DEF MSOK
  <2> QED BY <1>1, <2>2 DEF Inv, Usual, Kept, MSOK
<1>6. CASE t \in Page /\ t # None /\ t + k <= NPage /\ Room(ms, t, k)
  <2>1. w = new_lazy(ms, t, k, RW, o)
    BY <1>6
  <2> HIDE DEF w
  <2>2. /\ w.ok => MSOK(w) /\ Mapping(ms, w, t, k, RW, o)
        /\ k > 0 /\ Filled(ms.owned) => w.ok /\ Filled(w.owned)
    BY <1>1, <1>3, <1>6, <2>1, LazyMapping
  <2>3. /\ Sound(ms') /\ (w.ok => ms' = w /\ MSOK(ms')) /\ (~w.ok => Kept(ms, ms') /\ ~ms'.ok)
    BY <1>1, <2>2, BecomesOK
  <2>4. CASE ~w.ok
    <3>1. move' = None /\ odd'
      <4>1. k = 0 \/ ~Filled(ms.owned)
        BY <1>1, <2>2, <2>4
      <4>2. odd \/ n = 0 \/ k < n
        BY <1>1, <4>1 DEF Inv, Usual
      <4>3. move' = None
        BY <1>1, <2>3, <2>4
      <4> QED BY <1>1, <4>2, <4>3, Zenon
    <3> QED BY <1>1, <2>3, <2>4, <3>1 DEF Inv
  <2>5. CASE w.ok
    <3>1. ms' = w /\ MSOK(ms') /\ Mapping(ms, ms', t, k, RW, o) /\ ms'.ok /\ move' = mv
      BY <1>1, <1>6, <2>2, <2>3, <2>5 DEF MSOK
    <3>2. \A p \in Span(t, k) : \E a \in ms'.owned : p \in Cells(a) /\ a.flags = RW
      <4> SUFFICES ASSUME NEW p \in Span(t, k)
                   PROVE  \E a \in ms'.owned : p \in Cells(a) /\ a.flags = RW
        OBVIOUS
      <4>1. p \in Page
        BY <1>1, <1>6, Numbers DEF Span, Page
      <4> QED BY <3>1, <4>1 DEF Mapping
    <3>3. MoveOK'
      <4>1. /\ move'.from = s /\ move'.old = n /\ move'.to = t /\ move'.new = k
            /\ move' \in MoveRec({move'.before})
        BY <1>1, <1>6, <3>1 DEF MoveRec
      <4> QED BY <1>1, <1>6, <3>2, <4>1 DEF MoveOK
    <3>4. odd' \/ Usual'
      <4> SUFFICES ASSUME ~odd' PROVE Usual'
        OBVIOUS
      <4>1. ~odd /\ n > 0 /\ n <= k /\ k > 0
        <5>1. ~odd /\ n # 0 /\ ~(k < n)
          BY <1>1, Zenon
        <5> QED BY <1>1, <5>1
      <4>2. Filled(ms.owned) /\ move'.old = n /\ move'.new = k
        BY <3>1, <4>1 DEF Inv, Usual
      <4> QED BY <2>2, <3>1, <4>1, <4>2 DEF Usual
    <3>5. Inv'
      BY <1>1, <3>1, <3>3, <3>4 DEF Inv, MSOK
    <3> QED BY <1>4, <1>6, <3>1, <3>5
  <2> QED BY <2>4, <2>5
<1> QED BY <1>2, <1>5, <1>6

(* The next page, if the areas keep the flags of the pages.                *)
LEMMA MovesOnOK ==
  ASSUME MoveOK, MovesOn,
         \A a \in ms.owned : \E b \in ms'.owned : Cells(b) = Cells(a) /\ b.flags = a.flags
  PROVE  /\ MoveOK' /\ move' = [move EXCEPT !.next = move.next + 1]
         /\ move'.old = move.old /\ move'.new = move.new
<1>1. move' = [move EXCEPT !.next = move.next + 1] /\ move \in MoveRec({move.before})
  BY DEF MoveOK, MovesOn
<1>2. /\ move' \in MoveRec({move'.before}) /\ move'.from = move.from /\ move'.old = move.old
      /\ move'.to = move.to /\ move'.new = move.new
  BY <1>1 DEF MoveRec
<1>3. ASSUME NEW p \in Span(move.to, move.new)
      PROVE  \E a \in ms'.owned : p \in Cells(a) /\ a.flags = RW
  <2>1. PICK a \in ms.owned : p \in Cells(a) /\ a.flags = RW
    BY DEF MoveOK
  <2> QED BY <2>1
<1> QED BY <1>1, <1>2, <1>3 DEF MoveOK

(* In w the writable page q is loaded, and the others are as in m.         *)
Filling(m, w, q) ==
  /\ \E a \in m.owned, b \in w.owned :
       /\ q \in Cells(a) /\ q \in Cells(b) /\ a.flags = RW /\ b.flags = RW
       /\ source(b, q) = source(a, q) /\ page_at(b, q) = q
  /\ \A p \in Page : p # q => Shows(m.owned, w.owned, p)

(* load, of one writable page.                                             *)
LEMMA LoadFilling ==
  ASSUME NEW m, MSOK(m), NEW a \in m.owned, NEW q \in Cells(a), a.flags = RW
  PROVE  Filling(m, load(m, a, {q}), q)
<1> DEFINE P == {q}
           w == load(m, a, P)
           b == [a EXCEPT !.pages = LoadedPages(a, P)]
<1>1. Area(a) /\ AreasOK(m.owned) /\ P \subseteq Cells(a)
  BY DEF MSOK, Sound, AreasOK
<1>2. /\ b = [a EXCEPT !.pages = LoadedPages(a, P)] /\ w = load(m, a, P)
      /\ w = load(m, a, {q}) /\ q \in P /\ \A p : p # q => p \notin P
  OBVIOUS
<1> HIDE DEF P, b, w
<1>3. w.owned = (m.owned \ {a}) \cup {b}
  BY <1>1, <1>2, LoadOK
<1>4. /\ b.flags = a.flags /\ Cells(b) = Cells(a)
      /\ \A p \in Cells(b) : page_at(b, p) = IF p \in P THEN p ELSE page_at(a, p)
      /\ \A p \in Cells(b) : source(b, p) = source(a, p)
  BY <1>1, <1>2, LoadedArea
<1>5. ASSUME NEW p \in Page, p # q PROVE Shows(m.owned, w.owned, p)
  <2>1. Covered(m.owned, p) <=> Covered(w.owned, p)
    BY <1>3, <1>4 DEF Covered
  <2>2. ASSUME NEW c \in m.owned, NEW d \in w.owned, p \in Cells(c), p \in Cells(d)
        PROVE  SameView(c, d, p)
    <3>1. CASE d = b
      <4>1. c = a
        BY <1>1, <1>4, <2>2, <3>1, OneArea
      <4> QED BY <1>2, <1>4, <1>5, <2>2, <3>1, <4>1 DEF SameView
    <3>2. CASE d \in m.owned
      <4>1. c = d
        BY <1>1, <2>2, <3>2, OneArea
      <4> QED BY <4>1 DEF SameView
    <3> QED BY <1>3, <3>1, <3>2
  <2> QED BY <2>1, <2>2 DEF Shows
<1>6. Filling(m, w, q)
  BY <1>2, <1>3, <1>4, <1>5 DEF Filling
<1> QED BY <1>2, <1>6

(* A page is copied, or the copy fails.                                    *)
LEMMA CopyStep ==
  ASSUME Inv, copy_page, NEW p, p = move.from + move.next, NEW q, q = move.to + move.next
  PROVE  /\ Inv' /\ p \in Page /\ Present(ms, p) /\ q \in Page
         /\ \/ Kept(ms, ms') /\ mem' = mem /\ ~ms'.ok
            \/ Filling(ms, ms', q) /\ mem' = [mem EXCEPT ![q] = mem[p]]
<1>1. /\ Moving /\ move.next < move.old /\ Present(ms, p) /\ MovesOn
      /\ \E a \in area_of(ms, q) :
           LET m == IF Present(ms, q) THEN ms ELSE load(ms, a, {q})
           IN /\ Becomes([m EXCEPT !.ok = @ /\ m.pt[q].flags = RW])
              /\ mem' = IF ms'.ok THEN [mem EXCEPT ![q] = mem[p]] ELSE mem
  BY DEF copy_page
<1>2. PICK a \in area_of(ms, q) :
        LET m == IF Present(ms, q) THEN ms ELSE load(ms, a, {q})
        IN /\ Becomes([m EXCEPT !.ok = @ /\ m.pt[q].flags = RW])
           /\ mem' = IF ms'.ok THEN [mem EXCEPT ![q] = mem[p]] ELSE mem
  BY <1>1
<1> DEFINE m == IF Present(ms, q) THEN ms ELSE load(ms, a, {q})
           w == [m EXCEPT !.ok = @ /\ m.pt[q].flags = RW]
<1>3. Becomes(w) /\ mem' = IF ms'.ok THEN [mem EXCEPT ![q] = mem[p]] ELSE mem
  BY <1>2
<1>4. /\ MSOK(ms) /\ Sound(ms) /\ AreasOK(ms.owned) /\ MoveOK /\ odd' = odd /\ odd \in BOOLEAN
      /\ move \in MoveRec({move.before}) /\ move.from + move.old <= NPage
  BY <1>1 DEF Inv, Moving, MSOK, Sound, MoveOK, MovesOn
<1>5. p \in Page /\ q \in Int /\ move.next \in Nat /\ move.old \in Nat /\ move.to \in Nat
  BY <1>1, <1>4, Numbers DEF MoveRec, Page
<1>6. a \in ms.owned /\ q \in Cells(a) /\ Area(a) /\ q \in Page
  <2>1. a \in ms.owned /\ q \in Cells(a)
    BY <1>4, <1>5, AreaOf
  <2> QED BY <1>4, <2>1, AreaFacts DEF AreasOK
<1>7. /\ MSOK(m) /\ m.pt[q] = [page |-> q, flags |-> a.flags]
      /\ a.flags = RW => Filling(ms, m, q)
      /\ \A c \in ms.owned : \E d \in m.owned : Cells(d) = Cells(c) /\ d.flags = c.flags
      /\ Filled(ms.owned) => Filled(m.owned)
  <2>1. CASE Present(ms, q)
    <3>1. m = ms /\ ms.pt[q] = pte(a, q)
      BY <1>4, <1>6, <2>1 DEF Sound, TableOK
    <3>2. page_at(a, q) = q /\ ms.pt[q] = [page |-> q, flags |-> a.flags]
      BY <1>6, <2>1, <3>1, EntryOf DEF Present
    <3>3. a.flags = RW => Filling(ms, ms, q)
      BY <1>4, <1>6, <3>2, ShowsSame DEF Filling
    <3> QED BY <1>4, <3>1, <3>2, <3>3
  <2>2. CASE ~Present(ms, q)
    <3> DEFINE P == {q}
               b == [a EXCEPT !.pages = LoadedPages(a, P)]
    <3>1. /\ m = load(ms, a, P) /\ P \subseteq Cells(a) /\ q \in P
          /\ b = [a EXCEPT !.pages = LoadedPages(a, P)]
      BY <1>6, <2>2
    <3>2. a.flags = RW => Filling(ms, m, q)
      BY <1>4, <1>6, <2>2, LoadFilling
    <3> HIDE DEF P, b, m
    <3>3. /\ MSOK(m) /\ m.owned = (ms.owned \ {a}) \cup {b}
          /\ \A x \in P : m.pt[x] = [page |-> x, flags |-> a.flags]
          /\ Filled(ms.owned) => Filled(m.owned)
      BY <1>4, <1>6, <3>1, LoadOK
    <3>4. b.flags = a.flags /\ Cells(b) = Cells(a)
      BY <1>6, <3>1, LoadedArea
    <3>5. \A c \in ms.owned : \E d \in m.owned : Cells(d) = Cells(c) /\ d.flags = c.flags
      BY <3>3, <3>4
    <3> QED BY <3>1, <3>2, <3>3, <3>5
  <2> QED BY <2>1, <2>2
<1> HIDE DEF m
<1>8. w.owned = m.owned /\ w.pt = m.pt /\ w \in MS /\ (w.ok <=> a.flags = RW)
  <2>1. m \in MS /\ m.ok /\ (m.pt[q].flags = RW) = (a.flags = RW)
    BY <1>7 DEF MSOK, Sound
  <2>2. w = [m EXCEPT !.ok = m.ok /\ m.pt[q].flags = RW]
    OBVIOUS
  <2> HIDE DEF w
  <2>3. w.owned = m.owned /\ w.pt = m.pt /\ w \in MS /\ w.ok = (m.ok /\ m.pt[q].flags = RW)
    BY <2>1, <2>2 DEF MS
  <2> QED BY <2>1, <2>3
<1>9. w.ok => w = m /\ MSOK(w)
  <2>1. m \in MS /\ m.ok = TRUE
    BY <1>7 DEF MSOK, Sound, MS
  <2> QED BY <1>7, <1>8, <2>1 DEF MS
<1> HIDE DEF w
<1>10. /\ Sound(ms') /\ (w.ok => ms' = w /\ MSOK(ms')) /\ (~w.ok => Kept(ms, ms') /\ ~ms'.ok)
  BY <1>3, <1>4, <1>9, BecomesOK
<1>11. \A c \in ms.owned : \E d \in ms'.owned : Cells(d) = Cells(c) /\ d.flags = c.flags
  BY <1>7, <1>9, <1>10 DEF Kept
<1>12. MoveOK' /\ move'.old = move.old /\ move'.new = move.new
  BY <1>1, <1>4, <1>11, MovesOnOK
<1>13. ASSUME ~odd PROVE Usual'
  <2>1. Usual /\ move # None
    BY <1>1, <1>13 DEF Inv, Moving
  <2>2. move.next < move.new /\ q \in Span(move.to, move.new)
    <3>1. move.new \in Nat /\ move.old <= move.new
      BY <1>4, <2>1 DEF MoveRec, Usual
    <3> QED BY <1>1, <1>5, <3>1 DEF Span
  <2>3. PICK c \in ms.owned : q \in Cells(c) /\ c.flags = RW
    BY <1>4, <2>2 DEF MoveOK
  <2>4. a.flags = RW
    BY <1>4, <1>6, <2>3, OneArea
  <2> QED BY <1>7, <1>8, <1>9, <1>10, <1>12, <2>1, <2>4 DEF Usual, MSOK
<1>14. Inv'
  BY <1>4, <1>10, <1>12, <1>13 DEF Inv
<1>15. CASE w.ok
  BY <1>1, <1>3, <1>5, <1>6, <1>7, <1>8, <1>9, <1>10, <1>14, <1>15 DEF MSOK
<1>16. CASE ~w.ok
  BY <1>1, <1>3, <1>5, <1>6, <1>10, <1>14, <1>16
<1> QED BY <1>15, <1>16

LEMMA SkipStep == ASSUME Inv, skip_page PROVE Inv'
<1>1. ms' = ms /\ odd' = odd /\ MovesOn /\ move # None /\ MoveOK
  BY DEF skip_page, MovesOn, Moving, Inv
<1>2. MoveOK' /\ move'.old = move.old /\ move'.new = move.new
  BY <1>1, MovesOnOK
<1> QED BY <1>1, <1>2 DEF Inv, Usual

LEMMA GiveUpStep == ASSUME Inv, give_up PROVE Inv'
BY DEF give_up, GivesUp, Inv, Usual

(* The old region goes.                                                    *)
LEMMA UnmapOldStep ==
  ASSUME Inv, unmap_old
  PROVE  /\ Inv' /\ Frees(ms, ms') /\ ms'.ok
         /\ move.old > 0 => Without(ms, ms', Span(move.from, move.old))
<1> DEFINE s == move.from
           n == move.old
           w == split_for_area(ms, s, n)
<1>1. /\ Moving /\ Becomes(w) /\ move' = None /\ odd' = odd /\ MSOK(ms) /\ Sound(ms)
      /\ AreasOK(ms.owned) /\ MoveOK
  BY DEF unmap_old, Inv, Moving, MSOK, Sound
<1>2. s \in Page /\ s \in Int /\ n \in Nat /\ s + n <= NPage
  BY <1>1, Numbers DEF MoveOK, MoveRec, Page
<1> HIDE DEF s, n
<1>3. /\ MSOK(w) /\ Without(ms, w, Removed(ms, s, n))
      /\ Filled(ms.owned) /\ n > 0 => Filled(w.owned)
  BY <1>1, <1>2, SplitOK
<1> HIDE DEF w
<1>4. ms' = w
  BY <1>1, <1>3, BecomesOK DEF MSOK
<1>5. Frees(ms, ms') /\ (n > 0 => Without(ms, ms', Span(s, n)))
  BY <1>1, <1>2, <1>3, <1>4, RemovedSpan DEF Removed
<1>6. Inv'
  <2>1. ASSUME ~odd PROVE Filled(ms.owned) /\ n > 0
    BY <1>1, <2>1 DEF Inv, Usual, Moving, n
  <2>2. ASSUME ~odd PROVE Usual'
    BY <1>1, <1>3, <1>4, <2>1, <2>2 DEF Usual, MSOK
  <2> QED BY <1>1, <1>3, <1>4, <2>2 DEF Inv, MSOK
<1> QED BY <1>3, <1>4, <1>5, <1>6 DEF MSOK, s, n

LEMMA ClearStep ==
  ASSUME Inv, unmap_user_areas PROVE Inv' /\ ms'.owned = {}
<1> DEFINE w == [unmap_region(ms, ms.owned, CellsOf(ms.owned)) EXCEPT !.owned = {}]
<1>1. Becomes(w) /\ move = None /\ move' = None /\ odd' = odd /\ MSOK(ms) /\ Sound(ms)
  BY DEF unmap_user_areas, Call, Ready, Inv, MSOK
<1>2. MSOK(w) /\ w.owned = {}
  BY <1>1, ClearOK
<1> HIDE DEF w
<1>3. ms' = w
  BY <1>1, <1>2, BecomesOK DEF MSOK
<1> QED BY <1>1, <1>2, <1>3 DEF Inv, Usual, MSOK, Filled

LEMMA FaultStep ==
  ASSUME Inv, NEW p \in Page, handle_page_fault(p)
  PROVE  /\ Inv'
         /\ \E a \in ms.owned :
              /\ p \in Cells(a) /\ page_at(a, p) = None
              /\ ms'.owned = (ms.owned \ {a}) \cup {[a EXCEPT !.pages = LoadedPages(a, {p})]}
              /\ mem' = [mem EXCEPT ![p] = data(a, p)]
<1>1. PICK a \in area_of(ms, p) :
        page_at(a, p) = None /\ Becomes(load(ms, a, {p})) /\ mem' = [mem EXCEPT ![p] = data(a, p)]
  BY DEF handle_page_fault
<1> DEFINE b == [a EXCEPT !.pages = LoadedPages(a, {p})]
           P == {p}
           w == load(ms, a, {p})
<1>2. /\ MSOK(ms) /\ Sound(ms) /\ AreasOK(ms.owned) /\ p \in Int
      /\ move = None /\ move' = None /\ odd' = odd
  BY Numbers DEF Inv, MSOK, Sound, Page, handle_page_fault, Ready
<1>3. a \in ms.owned /\ p \in Cells(a)
  BY <1>2, AreaOf
<1>4. P \subseteq Cells(a) /\ w = load(ms, a, P) /\ b = [a EXCEPT !.pages = LoadedPages(a, P)]
      /\ Becomes(w)
  BY <1>1, <1>3
<1> HIDE DEF b, P, w
<1>5. /\ MSOK(w) /\ w.owned = (ms.owned \ {a}) \cup {b} /\ (Filled(ms.owned) => Filled(w.owned))
  BY <1>2, <1>3, <1>4, LoadOK
<1>6. ms' = w
  BY <1>2, <1>4, <1>5, BecomesOK DEF MSOK
<1>7. Inv'
  BY <1>2, <1>5, <1>6 DEF Inv, Usual, MSOK
<1> QED BY <1>1, <1>3, <1>5, <1>6, <1>7 DEF b

(* Every action keeps the invariant.                                       *)
LEMMA StepInv == ASSUME Inv, [Next]_vars PROVE Inv'
<1>1. ASSUME NEW p \in Page, handle_page_fault(p) PROVE Inv'
  BY <1>1, FaultStep
<1>2. ASSUME NEW p \in Page, store(p) PROVE Inv'
  BY <1>2 DEF store, Inv, Usual, MoveOK
<1>3. ASSUME NEW s \in Page, NEW n \in 0 .. (NPage - s), NEW f \in Flags, NEW off \in Backing(n),
             NEW fixed \in BOOLEAN, mmap(s, n, f, fixed, off)
      PROVE  Inv'
  BY <1>3, MmapStep
<1>4. ASSUME NEW s \in Page, NEW n \in 0 .. (NPage - s), munmap(s, n) PROVE Inv'
  BY <1>4, MunmapStep
<1>5. ASSUME NEW s \in Page, NEW n \in 0 .. (NPage - s), NEW f \in Flags, mprotect(s, n, f)
      PROVE  Inv'
  BY <1>5, MprotectStep
<1>6. ASSUME NEW s \in Page, NEW n \in 0 .. (NPage - s), msync(s, n) PROVE Inv'
  BY <1>6 DEF msync, Call, Ready, Inv, Usual
<1>7. ASSUME NEW s \in Page, NEW n \in 0 .. (NPage - s), NEW k \in 0 .. (NPage - 1), mremap(s, n, k)
      PROVE  Inv'
  BY <1>7, MremapStep
<1>8. ASSUME copy_page PROVE Inv'
  BY <1>8, CopyStep
<1>9. ASSUME skip_page \/ give_up \/ unmap_old PROVE Inv'
  BY <1>9, SkipStep, GiveUpStep, UnmapOldStep
<1>10. ASSUME unmap_user_areas PROVE Inv'
  BY <1>10, ClearStep
<1>11. ASSUME UNCHANGED vars PROVE Inv'
  BY <1>11 DEF vars, Inv, Usual, MoveOK
<1> QED BY <1>1, <1>2, <1>3, <1>4, <1>5, <1>6, <1>7, <1>8, <1>9, <1>10, <1>11 DEF Next

(* Every reachable memory set has areas that lie apart inside the address  *)
(* space and a page table that agrees with them.                           *)
THEOREM Invariance == Spec => []Inv
BY InitInv, StepInv, PTL DEF Spec

(* Until a call of size zero or an mremap to fewer pages is made, no       *)
(* assertion and no unwrap of axmem fails, whatever sequence of calls cuts *)
(* the areas: unmap_region finds its pages mapped, map_region finds them   *)
(* unused, areas are put back under fresh keys, and mremap copies to pages *)
(* that may be written.                                                    *)
THEOREM NeverPanics == Spec => []NoPanic
<1>1. Inv => NoPanic
  BY DEF Inv, Usual, NoPanic
<1> QED BY <1>1, Invariance, PTL

(* The areas do not overlap, and every entry of the page table is the one  *)
(* that the area at its address asks for: after any calls, and at every    *)
(* step of an mremap.                                                      *)
THEOREM TableAgrees == Spec => []PageTableAgrees
<1>1. Inv => PageTableAgrees
  BY Agrees DEF Inv, PageTableAgrees
<1> QED BY <1>1, Invariance, PTL

(* find_free_area returns free pages, and fails only if between any two    *)
(* areas there is no room or another area in the way.                      *)
THEOREM FreeFound == Spec => []FindFree
<1>1. ASSUME Inv PROVE FindFree
  <2>1. AreasOK(ms.owned)
    BY <1>1 DEF Inv, Sound
  <2>2. ASSUME NEW hint \in Page, NEW n \in 1 .. NPage
        PROVE  LET at == find_free_area(ms, hint, n)
               IN IF at # None THEN \A p \in Span(at, n) : p \in Page /\ area_of(ms, p) = {}
                  ELSE \A a, b \in ms.owned :
                         end_va(a) + n <= b.vaddr => overlapped(ms, end_va(a), n) \ {a} # {}
    <3> DEFINE at == find_free_area(ms, hint, n)
    <3>1. n \in Nat /\ n > 0
      BY Numbers
    <3>2. \/ at \in Page /\ at # None /\ at + n <= NPage /\ Room(ms, at, n)
          \/ /\ at = None
             /\ \A a, b \in ms.owned : n > 0 /\ end_va(a) + n <= b.vaddr
                  => overlapped(ms, end_va(a), n) \ {a} # {}
      BY <2>1, <3>1, FreeArea
    <3> HIDE DEF at
    <3>3. ASSUME at # None, NEW p \in Span(at, n) PROVE p \in Page /\ area_of(ms, p) = {}
      <4>1. at \in Page /\ at \in Int /\ at + n <= NPage /\ Room(ms, at, n)
        BY <3>2, <3>3, Numbers DEF Page
      <4>2. p \in Page /\ p \in Int
        BY <3>1, <4>1, Numbers DEF Span, Page
      <4>3. ~Covered(ms.owned, p)
        BY <2>1, <3>1, <4>1, RoomFree
      <4> QED BY <2>1, <4>2, <4>3, AreaOf
    <3> QED BY <3>1, <3>2, <3>3 DEF at
  <2> QED BY <2>2 DEF FindFree
<1> QED BY <1>1, Invariance, PTL

(* clone_or_err maps the same pages the same way, lazy ones included,      *)
(* whenever no area is empty.                                              *)
THEOREM ClonesAgree == Spec => []CloneFaithful
<1>1. Inv => CloneFaithful
  BY CloneSame DEF Inv, CloneFaithful, Filled
<1> QED BY <1>1, Invariance, PTL

-----------------------------------------------------------------------------
(* The data of pages and file.                                             *)

Value == (0 .. (FileLen - 1)) \cup {Zero, Dirty}
DataOK == mem \in [Page -> Value] /\ file \in [0 .. (FileLen - 1) -> Value]

LEMMA Values == Zero \in Value /\ Dirty \in Value /\ None \notin Value
BY MemoryAssumption DEF Value

(* What is kept of data is data.                                           *)
LEMMA KeepValues ==
  ASSUME NEW m, NEW d, \A p \in Page : d[p] \in Value PROVE Keep(m, d) \in [Page -> Value]
BY Values DEF Keep

(* The pages that a mapping of the file shows are pages of the file.       *)
LEMMA SourceOf ==
  ASSUME NEW a, Area(a), NEW p \in Cells(a)
  PROVE  /\ a.off = None <=> source(a, p) = None
         /\ a.off # None => source(a, p) \in 0 .. (FileLen - 1)
         /\ source(a, p) \in Nat \cup {None}
<1>1. /\ a.vaddr \in Nat /\ size(a) \in Nat /\ a.off \in Nat \cup {None}
      /\ p \in Int /\ a.vaddr <= p /\ p < a.vaddr + size(a)
  BY AreaFacts
<1>2. CASE a.off = None
  BY <1>2 DEF source
<1>3. CASE a.off # None
  <2>1. a.off \in Nat /\ a.off + size(a) <= FileLen
    BY <1>1, <1>3 DEF Area
  <2>2. a.off + (p - a.vaddr) \in 0 .. (FileLen - 1)
    BY <1>1, <2>1, Numbers
  <2>3. source(a, p) = a.off + (p - a.vaddr)
    BY <1>3 DEF source
  <2> QED BY <1>3, <2>2, <2>3, Numbers
<1> QED BY <1>2, <1>3

(* msync: of the areas that write page k of the file, one is the last.     *)
LEMMA LastWriter ==
  ASSUME NEW W, W # {}, \A a \in W : Area(a),
         NEW b, b = CHOOSE a \in W : \A c \in W : c.vaddr <= a.vaddr
  PROVE  b \in W
<1> DEFINE T == {NPage - a.vaddr : a \in W}
<1>1. \A a \in W : a.vaddr \in Nat /\ NPage - a.vaddr \in Nat
  BY AreaFacts, Numbers
<1>2. T \subseteq Nat /\ T # {}
  BY <1>1
<1>3. PICK x \in T : \A y \in T : x <= y
  <2> HIDE DEF T
  <2> QED BY <1>2, Least
<1>4. PICK a \in W : x = NPage - a.vaddr
  OBVIOUS
<1>5. \A c \in W : c.vaddr <= a.vaddr
  <2> SUFFICES ASSUME NEW c \in W PROVE c.vaddr <= a.vaddr
    OBVIOUS
  <2>1. NPage - a.vaddr <= NPage - c.vaddr
    BY <1>3, <1>4
  <2> QED BY <1>1, <2>1, Numbers
<1> QED BY <1>5, Zenon

(* msync writes data of pages to the file.                                 *)
LEMMA MsyncData ==
  ASSUME Inv, DataOK, NEW s, NEW n, msync(s, n) PROVE DataOK'
<1> DEFINE W(k) == {a \in ms.owned : /\ a.off # None /\ k < size(a)
                                     /\ a.vaddr + k \in Span(s, n)
                                     /\ a.pages[k + 1] # None}
           last(k) == CHOOSE a \in W(k) : \A b \in W(k) : b.vaddr <= a.vaddr
<1>1. DOMAIN file = 0 .. (FileLen - 1) /\ mem' = mem
  BY DEF DataOK, msync
<1>2. file' = [k \in 0 .. (FileLen - 1) |-> IF W(k) = {} THEN file[k] ELSE mem[last(k).vaddr + k]]
  BY <1>1 DEF msync
<1>3. ASSUME NEW k \in 0 .. (FileLen - 1), W(k) # {} PROVE last(k).vaddr + k \in Page
  <2>1. \A a \in W(k) : a \in ms.owned /\ k < size(a) /\ Area(a)
    BY DEF Inv, Sound, AreasOK
  <2>2. last(k) \in W(k)
    <3> DEFINE V == W(k)
               l == last(k)
    <3>1. V # {} /\ (\A a \in V : Area(a)) /\ l = CHOOSE a \in V : \A b \in V : b.vaddr <= a.vaddr
      BY <1>3, <2>1
    <3> HIDE DEF V, l
    <3>2. l \in V
      BY <3>1, LastWriter
    <3> QED BY <3>2 DEF V, l
  <2>3. \A a : Area(a) /\ k < size(a) => a.vaddr + k \in Page
    <3> SUFFICES ASSUME NEW a, Area(a), k < size(a) PROVE a.vaddr + k \in Page
      OBVIOUS
    <3>1. a.vaddr \in Nat /\ size(a) \in Nat /\ a.vaddr + size(a) <= NPage
      BY AreaFacts
    <3> QED BY <3>1, Numbers DEF Page
  <2> HIDE DEF W, last
  <2> QED BY <2>1, <2>2, <2>3
<1>4. \A k \in 0 .. (FileLen - 1) :
        (IF W(k) = {} THEN file[k] ELSE mem[last(k).vaddr + k]) \in Value
  <2> HIDE DEF W, last
  <2> QED BY <1>3 DEF DataOK
<1>5. file' \in [0 .. (FileLen - 1) -> Value]
  <2> HIDE DEF W, last
  <2> QED BY <1>2, <1>4
<1> QED BY <1>1, <1>5 DEF DataOK

LEMMA StepData == ASSUME Inv, DataOK, [Next]_vars PROVE DataOK'
<1> USE DEF DataOK
<1>1. ASSUME NEW p \in Page, handle_page_fault(p) PROVE DataOK'
  <2>1. PICK a \in ms.owned : p \in Cells(a) /\ mem' = [mem EXCEPT ![p] = data(a, p)]
    BY <1>1, FaultStep
  <2>2. Area(a)
    BY DEF Inv, Sound, AreasOK
  <2>3. data(a, p) \in Value
    BY <2>1, <2>2, SourceOf, Values DEF data
  <2>4. file' = file
    BY <1>1 DEF handle_page_fault
  <2> QED BY <2>1, <2>3, <2>4
<1>2. ASSUME NEW p \in Page, store(p) PROVE DataOK'
  BY <1>2, Values DEF store
<1>3. ASSUME NEW s \in Page, NEW n \in 0 .. (NPage - s), NEW f \in Flags, NEW off \in Backing(n),
             NEW fixed \in BOOLEAN, mmap(s, n, f, fixed, off)
      PROVE  DataOK'
  BY <1>3, KeepValues DEF mmap
<1>4. ASSUME NEW s \in Page, NEW n \in 0 .. (NPage - s), munmap(s, n) PROVE DataOK'
  BY <1>4, KeepValues DEF munmap
<1>5. ASSUME NEW s \in Page, NEW n \in 0 .. (NPage - s), NEW f \in Flags, mprotect(s, n, f)
      PROVE  DataOK'
  BY <1>5 DEF mprotect
<1>6. ASSUME NEW s \in Page, NEW n \in 0 .. (NPage - s), msync(s, n) PROVE DataOK'
  BY <1>6, MsyncData
<1>7. ASSUME NEW s \in Page, NEW n \in 0 .. (NPage - s), NEW k \in 0 .. (NPage - 1), mremap(s, n, k)
      PROVE  DataOK'
  BY <1>7, KeepValues DEF mremap
<1>8. ASSUME copy_page PROVE DataOK'
  <2> DEFINE p == move.from + move.next
             q == move.to + move.next
  <2>1. p = move.from + move.next /\ q = move.to + move.next /\ file' = file
    BY <1>8 DEF copy_page, MovesOn
  <2> HIDE DEF p, q
  <2>2. p \in Page /\ q \in Page /\ (mem' = mem \/ mem' = [mem EXCEPT ![q] = mem[p]])
    BY <1>8, <2>1, CopyStep
  <2> QED BY <2>1, <2>2
<1>9. ASSUME skip_page \/ give_up PROVE DataOK'
  BY <1>9 DEF skip_page, give_up, MovesOn, GivesUp
<1>10. ASSUME unmap_old \/ unmap_user_areas PROVE DataOK'
  BY <1>10, KeepValues DEF unmap_old, unmap_user_areas
<1>11. ASSUME UNCHANGED vars PROVE DataOK'
  BY <1>11 DEF vars
<1> QED BY <1>1, <1>2, <1>3, <1>4, <1>5, <1>6, <1>7, <1>8, <1>9, <1>10, <1>11 DEF Next

(* Loaded pages and the file always hold data: what a page fault reads     *)
(* from the file, and what msync writes to it, is in range.                *)
THEOREM DataInvariance == Spec => [](Inv /\ DataOK)
<1>1. Init => DataOK
  <2> SUFFICES ASSUME Init PROVE DataOK
    OBVIOUS
  <2>1. mem \in [Page -> Value]
    BY Values DEF Init
  <2>2. file \in [0 .. (FileLen - 1) -> Value]
    BY DEF Init, Value
  <2> QED BY <2>1, <2>2 DEF DataOK
<1> QED BY <1>1, InitInv, StepInv, StepData, PTL DEF Spec

-----------------------------------------------------------------------------
(* The address space of a memory set.                                      *)

BarOf(m, d) == [p \in Page |->
  LET over == area_of(m, p) IN
  IF over = {} THEN None
  ELSE LET a == CHOOSE a \in over : TRUE
           f == page_at(a, p)
       IN [flags |-> a.flags, src |-> source(a, p), data |-> IF f = None THEN None ELSE d[f]]]

(* A mapped page of the address space, and its view through an area.       *)
Mapped == [flags : Flags, src : Nat \cup {None}, data : Value \cup {None}]

View(a, p, d) ==
  [flags |-> a.flags, src |-> source(a, p), data |-> IF page_at(a, p) = None THEN None ELSE d[p]]

LEMMA NotMapped == None \notin Mapped
<1>1. None \notin [flags : {R, RW}, src : Nat \cup {None}, data : Nat \cup {Zero, Dirty, None}]
  BY MemoryAssumption, Zenon
<1>2. Mapped \subseteq [flags : {R, RW}, src : Nat \cup {None}, data : Nat \cup {Zero, Dirty, None}]
  BY DEF Mapped, Flags, Value
<1> QED BY <1>1, <1>2

(* The address space at a page is the view of the area there.              *)
LEMMA BarAt ==
  ASSUME NEW m, Sound(m), NEW d \in [Page -> Value], NEW p \in Page
  PROVE  /\ ~Covered(m.owned, p) => BarOf(m, d)[p] = None
         /\ \A a \in m.owned : p \in Cells(a) =>
              BarOf(m, d)[p] = View(a, p, d) /\ View(a, p, d) \in Mapped
         /\ Covered(m.owned, p) <=> BarOf(m, d)[p] # None
         /\ BarOf(m, d)[p] \in Mapped \cup {None}
<1>1. AreasOK(m.owned) /\ p \in Int
  BY Numbers DEF Sound, Page
<1>2. ASSUME ~Covered(m.owned, p) PROVE BarOf(m, d)[p] = None
  <2>1. area_of(m, p) = {}
    BY <1>1, <1>2, AreaOf
  <2> QED BY <2>1 DEF BarOf
<1>3. ASSUME NEW a \in m.owned, p \in Cells(a)
      PROVE  BarOf(m, d)[p] = View(a, p, d) /\ View(a, p, d) \in Mapped
  <2>1. area_of(m, p) # {} /\ (CHOOSE b \in area_of(m, p) : TRUE) = a
    BY <1>1, <1>3, AreaOf, ChosenArea
  <2>2. Area(a) /\ page_at(a, p) \in {None, p} /\ a.flags \in Flags /\ source(a, p) \in Nat \cup {None}
    BY <1>1, <1>3, AreaFacts, EntryOf, SourceOf DEF AreasOK
  <2>3. BarOf(m, d)[p] = [flags |-> a.flags, src |-> source(a, p),
                          data |-> IF page_at(a, p) = None THEN None ELSE d[page_at(a, p)]]
    BY <2>1 DEF BarOf
  <2>4. (IF page_at(a, p) = None THEN None ELSE d[page_at(a, p)])
          = (IF page_at(a, p) = None THEN None ELSE d[p])
    BY <2>2
  <2>5. View(a, p, d) \in Mapped
    BY <2>2 DEF View, Mapped
  <2> QED BY <2>3, <2>4, <2>5 DEF View
<1>4. Covered(m.owned, p) => BarOf(m, d)[p] \in Mapped
  BY <1>3 DEF Covered
<1> QED BY <1>2, <1>3, <1>4, NotMapped

LEMMA BarFunction ==
  ASSUME NEW m, Sound(m), NEW d \in [Page -> Value]
  PROVE  BarOf(m, d) \in [Page -> Mapped \cup {None}]
<1>1. \A p \in Page : BarOf(m, d)[p] \in Mapped \cup {None}
  BY BarAt
<1> QED BY <1>1 DEF BarOf

(* Keep keeps the data of every page that is loaded.                       *)
LEMMA KeptView ==
  ASSUME NEW w, Sound(w), NEW d, NEW b \in w.owned, NEW p \in Cells(b)
  PROVE  View(b, p, Keep(w, d)) = View(b, p, d)
<1>1. CASE page_at(b, p) = None
  BY <1>1 DEF View
<1>2. CASE page_at(b, p) # None
  <2>1. Area(b) /\ w.pt[p] = pte(b, p)
    BY DEF Sound, AreasOK, TableOK
  <2>2. p \in Page /\ pte(b, p) \notin {Unused, Fault}
    BY <1>2, <2>1, AreaFacts, EntryOf
  <2>3. Keep(w, d)[p] = d[p]
    BY <2>1, <2>2 DEF Keep, Present
  <2> QED BY <2>3 DEF View
<1> QED BY <1>1, <1>2

(* A page that is shown alike and has its data is the same page.           *)
LEMMA BarSame ==
  ASSUME NEW m, Sound(m), NEW w, Sound(w), NEW d \in [Page -> Value], NEW e \in [Page -> Value],
         NEW p \in Page, Shows(m.owned, w.owned, p),
         \A b \in w.owned : p \in Cells(b) => View(b, p, e) = View(b, p, d)
  PROVE  BarOf(w, e)[p] = BarOf(m, d)[p]
<1>1. CASE ~Covered(m.owned, p)
  BY <1>1, BarAt DEF Shows
<1>2. CASE Covered(m.owned, p)
  <2>1. PICK a \in m.owned, b \in w.owned : p \in Cells(a) /\ p \in Cells(b)
    BY <1>2 DEF Shows, Covered
  <2>2. SameView(a, b, p) /\ View(b, p, e) = View(b, p, d)
    BY <2>1 DEF Shows
  <2>3. View(b, p, d) = View(a, p, d)
    BY <2>2 DEF SameView, View
  <2>4. BarOf(m, d)[p] = View(a, p, d) /\ BarOf(w, e)[p] = View(b, p, e)
    BY <2>1, BarAt
  <2> QED BY <2>2, <2>3, <2>4
<1> QED BY <1>1, <1>2

LEMMA BarKept ==
  ASSUME NEW m, Sound(m), NEW w, Sound(w), NEW d \in [Page -> Value],
         NEW p \in Page, Shows(m.owned, w.owned, p)
  PROVE  BarOf(w, Keep(w, d))[p] = BarOf(m, d)[p]
<1>1. Keep(w, d) \in [Page -> Value]
  BY KeepValues
<1>2. \A b \in w.owned : p \in Cells(b) => View(b, p, Keep(w, d)) = View(b, p, d)
  BY KeptView
<1> QED BY <1>1, <1>2, BarSame

LEMMA BarNow == Bar = BarOf(ms, mem) /\ Bar' = BarOf(ms', mem')
BY DEF Bar, BarOf

-----------------------------------------------------------------------------
(* Steps of the address space.                                             *)

VM == [Page -> Mapped \cup {None}]

LEMMA SameNames == AS!Page = Page /\ \A s, n : AS!Span(s, n) = Span(s, n)
BY DEF AS!Page, AS!Span, Page, Span

(* Unmapping is unmapping from the first page that was mapped.             *)
LEMMA UnmapRefines ==
  ASSUME NEW v \in VM, NEW w \in VM, NEW s \in Nat, NEW n \in 0 .. NPage,
         \A p \in Page : w[p] = IF p \in Span(s, n) THEN None ELSE v[p]
  PROVE  w = v \/ AS!Step(v, w)
<1> DEFINE G == {p \in Page : v[p] # None /\ p \in Span(s, n)}
<1>1. /\ \A x, k \in Int : \A p : p \in Span(x, k) <=> p \in Int /\ x <= p /\ p < x + k
      /\ \A p \in Page : p \in Nat /\ p < NPage
      /\ n \in Nat /\ n <= NPage /\ NPage \in Nat
  BY Numbers DEF Span, Page
<1>2. CASE G = {}
  <2>1. \A p \in Page : w[p] = v[p]
    BY <1>2
  <2> QED BY <2>1 DEF VM
<1>3. CASE G # {}
  <2>1. PICK x \in G : \A y \in G : x <= y
    BY <1>1, <1>3, Least
  <2> DEFINE k == s + n - x
  <2>2. x \in Page /\ v[x] # None /\ w[x] = None /\ x \in Int /\ s <= x /\ x < s + n
    BY <1>1, <2>1
  <2>3. k \in 1 .. NPage
    BY <1>1, <2>2
  <2>4. \A p : p \in Span(x, k) <=> p \in Int /\ x <= p /\ p < s + n
    BY <1>1, <2>2, <2>3
  <2>5. \A p \in Page : w[p] = IF p \in Span(x, k) THEN None ELSE v[p]
    BY <1>1, <2>1, <2>2, <2>4
  <2> HIDE DEF k, G
  <2>6. w = [p \in Page |-> IF p \in Span(x, k) THEN None ELSE v[p]]
    BY <2>5 DEF VM
  <2>7. w = AS!Unmapped(v, AS!Span(x, k))
    BY <2>6, SameNames DEF AS!Unmapped
  <2> QED BY <2>2, <2>3, <2>7, SameNames DEF AS!Step
<1> QED BY <1>2, <1>3

(* Protecting is protecting from the first page whose flags change.        *)
LEMMA ProtectRefines ==
  ASSUME NEW v \in VM, NEW w \in VM, NEW s \in Nat, NEW n \in 0 .. NPage, NEW f \in Flags,
         \A p \in Page : w[p] = IF p \in Span(s, n) /\ v[p] # None
                                THEN [v[p] EXCEPT !.flags = f] ELSE v[p]
  PROVE  w = v \/ AS!Step(v, w)
<1> DEFINE G == {p \in Page : v[p] # None /\ p \in Span(s, n) /\ v[p].flags # f}
<1>1. /\ \A x, k \in Int : \A p : p \in Span(x, k) <=> p \in Int /\ x <= p /\ p < x + k
      /\ \A p \in Page : p \in Nat /\ p < NPage
      /\ n \in Nat /\ n <= NPage /\ NPage \in Nat
  BY Numbers DEF Span, Page
<1>2. \A r \in Mapped : r.flags = f => [r EXCEPT !.flags = f] = r
  BY DEF Mapped
<1>3. \A p \in Page : v[p] # None => v[p] \in Mapped
  BY DEF VM
<1>4. \A p \in Page : p \notin G => w[p] = v[p]
  BY <1>2, <1>3
<1>5. CASE G = {}
  BY <1>4, <1>5 DEF VM
<1>6. CASE G # {}
  <2>1. PICK x \in G : \A y \in G : x <= y
    BY <1>1, <1>6, Least
  <2> DEFINE k == s + n - x
  <2>2. x \in Page /\ v[x] # None /\ x \in Int /\ s <= x /\ x < s + n /\ v[x].flags # f
        /\ w[x] = [v[x] EXCEPT !.flags = f]
    BY <1>1, <2>1
  <2>3. k \in 1 .. NPage
    BY <1>1, <2>2
  <2>4. \A p : p \in Span(x, k) <=> p \in Int /\ x <= p /\ p < s + n
    BY <1>1, <2>2, <2>3
  <2>5. ASSUME NEW p \in Page
        PROVE  w[p] = IF p \in Span(x, k) /\ v[p] # None THEN [v[p] EXCEPT !.flags = f] ELSE v[p]
    <3>1. CASE p \in Span(x, k)
      <4>1. p \in Span(s, n)
        BY <1>1, <2>2, <2>4, <3>1
      <4> HIDE DEF G, k
      <4> QED BY <3>1, <4>1
    <3>2. CASE p \notin Span(x, k)
      <4>1. p \in Span(s, n) => p < x
        BY <1>1, <2>2, <2>4, <3>2
      <4>2. p \notin G
        BY <1>1, <2>1, <2>2, <4>1
      <4> HIDE DEF G, k
      <4> QED BY <1>4, <3>2, <4>2
    <3> QED BY <3>1, <3>2
  <2> HIDE DEF k, G
  <2>6. w[x] \in Mapped /\ w[x].flags = f
    BY <1>3, <2>2 DEF Mapped
  <2>7. w = [p \in Page |-> IF p \in Span(x, k) /\ v[p] # None
                            THEN [v[p] EXCEPT !.flags = f] ELSE v[p]]
    BY <2>5 DEF VM
  <2>8. w = AS!Protected(v, AS!Span(x, k), w[x].flags)
    BY <2>6, <2>7, SameNames DEF AS!Protected
  <2>9. w[x] # None /\ w[x].flags # v[x].flags
    BY <2>2, <2>6, NotMapped
  <2> QED BY <2>2, <2>3, <2>8, <2>9, SameNames DEF AS!Step
<1> QED BY <1>5, <1>6

(* Mapping a region.                                                       *)
LEMMA MapRefines ==
  ASSUME NEW v \in VM, NEW w \in VM, NEW s \in Page, NEW n \in 1 .. NPage, s + n <= NPage,
         NEW f \in Flags, NEW off \in Nat \cup {None},
         \A p \in Page : w[p] = IF p \in Span(s, n)
                                THEN [flags |-> f, data |-> None,
                                      src |-> IF off = None THEN None ELSE off + (p - s)]
                                ELSE v[p]
  PROVE  AS!Step(v, w)
<1>1. s \in Int /\ s \in Span(s, n)
  BY Numbers DEF Span, Page
<1>2. w[s] = [flags |-> f, data |-> None, src |-> IF off = None THEN None ELSE off + (s - s)]
  BY <1>1
<1>3. (IF off = None THEN None ELSE off + (s - s)) = off
  BY <1>1
<1>4. w[s].flags = f /\ w[s].data = None /\ w[s].src = off
  BY <1>2, <1>3
<1>5. w[s] # None
  <2>1. w[s] \in Mapped
    BY <1>2, <1>3 DEF Mapped
  <2> QED BY <2>1, NotMapped
<1>6. w = [p \in Page |-> IF p \in Span(s, n)
                          THEN [flags |-> f, data |-> None,
                                src |-> IF off = None THEN None ELSE off + (p - s)]
                          ELSE v[p]]
  BY DEF VM
<1>7. w = AS!Mapped(v, s, n, w[s].flags, w[s].src)
  BY <1>4, <1>6, SameNames DEF AS!Mapped
<1> QED BY <1>4, <1>5, <1>7, SameNames DEF AS!Step

(* Copying a page.                                                         *)
LEMMA CopyRefines ==
  ASSUME NEW v, NEW w, NEW p \in Page, NEW q \in Page, v[p] # None, v[q] # None,
         v[p].data # None, v[q].flags = RW, w = AS!Copied(v, p, q)
  PROVE  AS!Step(v, w)
BY SameNames DEF AS!Step

-----------------------------------------------------------------------------
(* The memory set implements the address space, action by action.          *)

Refined == Bar' = Bar \/ AS!Step(Bar, Bar')

LEMMA BarTypes ==
  ASSUME Inv, DataOK, Inv', DataOK'
  PROVE  /\ Bar \in VM /\ Bar' \in VM /\ Sound(ms) /\ Sound(ms')
         /\ mem \in [Page -> Value] /\ mem' \in [Page -> Value]
         /\ Bar = BarOf(ms, mem) /\ Bar' = BarOf(ms', mem')
<1>1. Sound(ms) /\ Sound(ms') /\ mem \in [Page -> Value] /\ mem' \in [Page -> Value]
  BY DEF Inv, DataOK
<1> QED BY <1>1, BarNow, BarFunction DEF VM

(* Pages are freed, with their data.                                       *)
LEMMA BarWithout ==
  ASSUME Inv, DataOK, Inv', DataOK', NEW S, Without(ms, ms', S), mem' = Keep(ms', mem),
         NEW p \in Page
  PROVE  Bar'[p] = IF p \in S THEN None ELSE Bar[p]
<1>1. CASE p \in S
  <2>1. ~Covered(ms'.owned, p)
    BY <1>1 DEF Without
  <2> QED BY <1>1, <2>1, BarTypes, BarAt
<1>2. CASE p \notin S
  <2>1. Shows(ms.owned, ms'.owned, p)
    BY <1>2 DEF Without
  <2> QED BY <1>2, <2>1, BarTypes, BarKept
<1> QED BY <1>1, <1>2

LEMMA FreesRefined ==
  ASSUME Inv, DataOK, Inv', DataOK', Frees(ms, ms'), mem' = Keep(ms', mem) PROVE Refined
<1>1. PICK x \in Page, k \in 0 .. NPage : Without(ms, ms', Span(x, k))
  BY DEF Frees
<1>2. \A p \in Page : Bar'[p] = IF p \in Span(x, k) THEN None ELSE Bar[p]
  BY <1>1, BarWithout
<1>3. Bar \in VM /\ Bar' \in VM /\ x \in Nat
  BY BarTypes, Numbers DEF Page
<1> QED BY <1>2, <1>3, UnmapRefines DEF Refined

(* Nothing but the fields ok, calls, odd and move changes.                 *)
LEMMA KeptRefined ==
  ASSUME Inv, DataOK, Inv', DataOK', Kept(ms, ms'), mem' = Keep(ms', mem) \/ mem' = mem
  PROVE  Bar' = Bar
<1>1. ASSUME NEW p \in Page PROVE BarOf(ms', mem')[p] = BarOf(ms, mem)[p]
  <2>1. Shows(ms.owned, ms'.owned, p)
    BY BarTypes, ShowsSame DEF Kept, Sound
  <2>2. \A b \in ms'.owned : p \in Cells(b) => View(b, p, mem') = View(b, p, mem)
    BY BarTypes, KeptView
  <2> QED BY <2>1, <2>2, BarTypes, BarSame
<1> QED BY <1>1, BarTypes DEF VM

LEMMA ClearRefined ==
  ASSUME Inv, DataOK, Inv', DataOK', unmap_user_areas PROVE Refined
<1> DEFINE z == 0
<1>1. z \in Page /\ NPage \in 0 .. NPage /\ \A p \in Page : p \in Span(z, NPage)
  BY Numbers DEF Page, Span
<1>2. ms'.owned = {} /\ mem' = Keep(ms', mem)
  BY ClearStep DEF unmap_user_areas
<1> HIDE DEF z
<1>3. Without(ms, ms', Span(z, NPage))
  BY <1>1, <1>2 DEF Without, Covered
<1>4. Frees(ms, ms')
  BY <1>1, <1>3 DEF Frees
<1> QED BY <1>2, <1>4, FreesRefined

LEMMA MprotectRefined ==
  ASSUME Inv, DataOK, Inv', DataOK', NEW s \in Page, NEW n \in 0 .. (NPage - s), NEW f \in Flags,
         mprotect(s, n, f)
  PROVE  Refined
<1>1. s \in Nat /\ n \in 0 .. NPage /\ mem' = mem
  BY Numbers DEF Page, mprotect
<1>5. CASE Kept(ms, ms')
  BY <1>1, <1>5, KeptRefined DEF Refined
<1> SUFFICES ASSUME ~Kept(ms, ms') PROVE Refined
  BY <1>5
<1>2. \A p \in Page :
        IF p \in Span(s, n)
        THEN /\ Covered(ms.owned, p) <=> Covered(ms'.owned, p)
             /\ \A a \in ms.owned, b \in ms'.owned :
                  p \in Cells(a) /\ p \in Cells(b) => ViewWith(a, b, p, f)
        ELSE Shows(ms.owned, ms'.owned, p)
  BY MprotectStep
<1>3. ASSUME NEW p \in Page
      PROVE  Bar'[p] = IF p \in Span(s, n) /\ Bar[p] # None
                       THEN [Bar[p] EXCEPT !.flags = f] ELSE Bar[p]
  <2>1. CASE p \notin Span(s, n)
    <3>1. Shows(ms.owned, ms'.owned, p)
      BY <1>2, <2>1
    <3>2. BarOf(ms', mem')[p] = BarOf(ms, mem)[p]
      BY <1>1, <3>1, BarTypes, BarSame
    <3> QED BY <2>1, <3>2, BarTypes
  <2>2. CASE p \in Span(s, n) /\ ~Covered(ms.owned, p)
    <3>1. ~Covered(ms'.owned, p)
      BY <1>2, <2>2
    <3> QED BY <2>2, <3>1, BarTypes, BarAt
  <2>3. CASE p \in Span(s, n) /\ Covered(ms.owned, p)
    <3>1. PICK a \in ms.owned, b \in ms'.owned : p \in Cells(a) /\ p \in Cells(b)
      BY <1>2, <2>3 DEF Covered
    <3>2. ViewWith(a, b, p, f)
      BY <1>2, <2>3, <3>1
    <3>3. Bar[p] = View(a, p, mem) /\ Bar'[p] = View(b, p, mem) /\ Bar[p] # None
      <4>1. BarOf(ms, mem)[p] = View(a, p, mem) /\ BarOf(ms, mem)[p] # None
        BY <2>3, <3>1, BarTypes, BarAt
      <4>2. BarOf(ms', mem')[p] = View(b, p, mem')
        BY <3>1, BarTypes, BarAt
      <4> QED BY <1>1, <4>1, <4>2, BarTypes
    <3>4. View(b, p, mem) = [View(a, p, mem) EXCEPT !.flags = f]
      BY <3>2 DEF ViewWith, View
    <3> QED BY <2>3, <3>3, <3>4
  <2> QED BY <2>1, <2>2, <2>3
<1>4. Bar \in VM /\ Bar' \in VM
  BY BarTypes
<1> QED BY <1>1, <1>3, <1>4, ProtectRefines DEF Refined

(* Pages are mapped, none of them loaded.                                  *)
LEMMA BarMapping ==
  ASSUME Inv, DataOK, Inv', DataOK', NEW t, NEW n, NEW f, NEW off,
         Mapping(ms, ms', t, n, f, off), mem' = Keep(ms', mem), NEW p \in Page
  PROVE  Bar'[p] = IF p \in Span(t, n)
                   THEN [flags |-> f, data |-> None,
                         src |-> IF off = None THEN None ELSE off + (p - t)]
                   ELSE Bar[p]
<1>1. CASE p \in Span(t, n)
  <2>1. PICK a \in ms'.owned :
          /\ p \in Cells(a) /\ a.flags = f /\ page_at(a, p) = None
          /\ source(a, p) = IF off = None THEN None ELSE off + (p - t)
    BY <1>1 DEF Mapping
  <2>2. Bar'[p] = View(a, p, mem')
    BY <2>1, BarTypes, BarAt
  <2>3. View(a, p, mem') = [flags |-> f, data |-> None,
                            src |-> IF off = None THEN None ELSE off + (p - t)]
    BY <2>1 DEF View
  <2> QED BY <1>1, <2>2, <2>3
<1>2. CASE p \notin Span(t, n)
  <2>1. Shows(ms.owned, ms'.owned, p)
    BY <1>2 DEF Mapping
  <2>2. BarOf(ms', mem')[p] = BarOf(ms, mem)[p]
    BY <2>1, BarTypes, BarKept
  <2> QED BY <1>2, <2>2, BarTypes
<1> QED BY <1>1, <1>2

LEMMA MappingRefined ==
  ASSUME Inv, DataOK, Inv', DataOK', NEW t \in Page, NEW n \in 0 .. NPage, t + n <= NPage,
         NEW f \in Flags, NEW off \in Nat \cup {None},
         Mapping(ms, ms', t, n, f, off), mem' = Keep(ms', mem)
  PROVE  Refined
<1>1. \A p \in Page : Bar'[p] = IF p \in Span(t, n)
                                THEN [flags |-> f, data |-> None,
                                      src |-> IF off = None THEN None ELSE off + (p - t)]
                                ELSE Bar[p]
  BY BarMapping
<1>2. Bar \in VM /\ Bar' \in VM
  BY BarTypes
<1>3. CASE n = 0
  <2>1. \A p \in Page : p \notin Span(t, n)
    BY <1>3, Numbers DEF Span, Page
  <2>2. Bar' = Bar
    BY <1>1, <1>2, <2>1 DEF VM
  <2> QED BY <2>2 DEF Refined
<1>4. CASE n # 0
  <2>1. n \in 1 .. NPage
    BY <1>4, Numbers
  <2> QED BY <1>1, <1>2, <2>1, MapRefines DEF Refined
<1> QED BY <1>3, <1>4

LEMMA MmapRefined ==
  ASSUME Inv, DataOK, Inv', DataOK', NEW s \in Page, NEW n \in 0 .. (NPage - s), NEW f \in Flags,
         NEW off \in Backing(n), NEW fixed \in BOOLEAN, mmap(s, n, f, fixed, off)
  PROVE  Refined
<1>1. n \in 0 .. NPage /\ n \in Nat /\ mem' = Keep(ms', mem)
  BY Numbers DEF Page, mmap
<1>2. off \in Nat \cup {None}
  BY <1>1, BackingFacts
<1>3. \/ Frees(ms, ms')
      \/ \E t \in Page : t + n <= NPage /\ Mapping(ms, ms', t, n, f, off)
  BY MmapStep
<1> QED BY <1>1, <1>2, <1>3, FreesRefined, MappingRefined

LEMMA MremapRefined ==
  ASSUME Inv, DataOK, Inv', DataOK', NEW s \in Page, NEW n \in 0 .. (NPage - s),
         NEW k \in 0 .. (NPage - 1), mremap(s, n, k)
  PROVE  Refined
<1> DEFINE o == None
<1>1. /\ k \in 0 .. NPage /\ mem' = Keep(ms', mem) /\ RW \in Flags
      /\ o \in Nat \cup {None} /\ o = None
  BY Numbers DEF mremap, Flags
<1>2. \/ Kept(ms, ms')
      \/ \E t \in Page : t + k <= NPage /\ Mapping(ms, ms', t, k, RW, None)
  BY MremapStep
<1> HIDE DEF o
<1>3. \/ Kept(ms, ms')
      \/ \E t \in Page : t + k <= NPage /\ Mapping(ms, ms', t, k, RW, o)
  BY <1>1, <1>2
<1> QED BY <1>1, <1>3, KeptRefined, MappingRefined DEF Refined

(* An entry is present exactly if the area has the page.                   *)
LEMMA PresentView ==
  ASSUME NEW m, Sound(m), NEW p \in Page, NEW a \in m.owned, p \in Cells(a)
  PROVE  Present(m, p) <=> page_at(a, p) # None
<1>1. Area(a) /\ m.pt[p] = pte(a, p)
  BY DEF Sound, AreasOK, TableOK
<1> QED BY <1>1, EntryOf DEF Present

(* A page has data in the address space exactly if its entry is present.   *)
LEMMA PresentData ==
  ASSUME NEW m, Sound(m), NEW d \in [Page -> Value], NEW p \in Page
  PROVE  /\ Present(m, p) => BarOf(m, d)[p] # None /\ BarOf(m, d)[p].data = d[p] /\ d[p] # None
         /\ ~Present(m, p) /\ BarOf(m, d)[p] # None => BarOf(m, d)[p].data = None
         /\ m.pt[p] = Unused => BarOf(m, d)[p] = None
<1>1. CASE ~Covered(m.owned, p)
  BY <1>1, BarAt DEF Sound, TableOK, Present
<1>2. CASE Covered(m.owned, p)
  <2>1. PICK a \in m.owned : p \in Cells(a)
    BY <1>2 DEF Covered
  <2>2. BarOf(m, d)[p] = View(a, p, d) /\ BarOf(m, d)[p] # None
    BY <1>2, <2>1, BarAt
  <2>3. Present(m, p) <=> page_at(a, p) # None
    BY <2>1, PresentView
  <2>4. m.pt[p] # Unused
    BY <2>1, EntryOf DEF Sound, AreasOK, TableOK
  <2> QED BY <2>2, <2>3, <2>4, Values DEF View
<1> QED BY <1>1, <1>2

(* A page is copied.                                                       *)
LEMMA BarCopied ==
  ASSUME Inv, DataOK, Inv', DataOK', NEW p \in Page, NEW q \in Page, Present(ms, p),
         Filling(ms, ms', q), mem' = [mem EXCEPT ![q] = mem[p]]
  PROVE  /\ Bar[p] # None /\ Bar[q] # None /\ Bar[p].data # None /\ Bar[q].flags = RW
         /\ Bar' = AS!Copied(Bar, p, q)
<1>1. /\ Bar \in VM /\ Bar' \in VM /\ Sound(ms) /\ Sound(ms')
      /\ mem \in [Page -> Value] /\ mem' \in [Page -> Value]
      /\ Bar = BarOf(ms, mem) /\ Bar' = BarOf(ms', mem')
  BY BarTypes
<1>2. Bar[p] # None /\ Bar[p].data = mem[p] /\ mem[p] # None
  BY <1>1, PresentData
<1>3. PICK a \in ms.owned, b \in ms'.owned :
        /\ q \in Cells(a) /\ q \in Cells(b) /\ a.flags = RW /\ b.flags = RW
        /\ source(b, q) = source(a, q) /\ page_at(b, q) = q
  BY DEF Filling
<1>4. Bar[q] = View(a, q, mem) /\ Bar[q] # None
  <2>1. View(a, q, mem) \in Mapped /\ BarOf(ms, mem)[q] = View(a, q, mem)
    BY <1>1, <1>3, BarAt
  <2> QED BY <1>1, <2>1, NotMapped
<1>5. Bar'[q] = View(b, q, mem')
  <2>1. BarOf(ms', mem')[q] = View(b, q, mem')
    <3>1. /\ Sound(ms') /\ mem' \in [Page -> Value] /\ b \in ms'.owned /\ q \in Cells(b)
      BY <1>1, <1>3
    <3> QED BY <3>1, BarAt
  <2> QED BY <1>1, <2>1
<1>6. Bar'[q] = [Bar[q] EXCEPT !.data = Bar[p].data]
  <2>1. mem'[q] = mem[p] /\ q # None
    BY <1>1, Numbers DEF Page
  <2>2. View(b, q, mem') = [flags |-> RW, src |-> source(a, q), data |-> mem[p]]
    BY <1>3, <2>1 DEF View
  <2>3. \A x : [View(a, q, mem) EXCEPT !.data = x]
                 = [flags |-> a.flags, src |-> source(a, q), data |-> x]
    BY DEF View
  <2> QED BY <1>2, <1>3, <1>4, <1>5, <2>2, <2>3
<1>7. ASSUME NEW x \in Page, x # q PROVE Bar'[x] = Bar[x]
  <2>1. mem'[x] = mem[x] /\ Shows(ms.owned, ms'.owned, x)
    BY <1>1, <1>7 DEF Filling
  <2>2. \A c \in ms'.owned : View(c, x, mem') = View(c, x, mem)
    BY <2>1 DEF View
  <2>3. BarOf(ms', mem')[x] = BarOf(ms, mem)[x]
    <3> DEFINE m == ms
               w == ms'
               d == mem
               e == mem'
    <3>1. /\ Shows(m.owned, w.owned, x) /\ Sound(m) /\ Sound(w)
          /\ d \in [Page -> Value] /\ e \in [Page -> Value]
          /\ \A c \in w.owned : x \in Cells(c) => View(c, x, e) = View(c, x, d)
      BY <1>1, <2>1, <2>2
    <3> HIDE DEF m, w, d, e
    <3>2. BarOf(w, e)[x] = BarOf(m, d)[x]
      BY <3>1, BarSame
    <3> QED BY <3>2 DEF m, w, d, e
  <2> QED BY <1>1, <2>3
<1>8. Bar' = [Bar EXCEPT ![q] = [Bar[q] EXCEPT !.data = Bar[p].data]]
  BY <1>1, <1>6, <1>7 DEF VM
<1>9. Bar[q].flags = RW
  BY <1>3, <1>4 DEF View
<1> QED BY <1>2, <1>4, <1>8, <1>9 DEF AS!Copied

LEMMA CopyRefined ==
  ASSUME Inv, DataOK, Inv', DataOK', copy_page PROVE Refined
<1> DEFINE p == move.from + move.next
           q == move.to + move.next
<1>1. p = move.from + move.next /\ q = move.to + move.next
  OBVIOUS
<1> HIDE DEF p, q
<1>2. /\ p \in Page /\ Present(ms, p) /\ q \in Page
      /\ \/ Kept(ms, ms') /\ mem' = mem
         \/ Filling(ms, ms', q) /\ mem' = [mem EXCEPT ![q] = mem[p]]
  BY <1>1, CopyStep
<1>3. CASE Kept(ms, ms') /\ mem' = mem
  BY <1>3, KeptRefined DEF Refined
<1>4. CASE Filling(ms, ms', q) /\ mem' = [mem EXCEPT ![q] = mem[p]]
  BY <1>2, <1>4, BarCopied, CopyRefines DEF Refined
<1> QED BY <1>2, <1>3, <1>4

LEMMA FaultRefined ==
  ASSUME Inv, DataOK, Inv', DataOK', NEW p \in Page, handle_page_fault(p)
  PROVE  Refined
<1>1. PICK a \in ms.owned :
        /\ p \in Cells(a) /\ page_at(a, p) = None
        /\ ms'.owned = (ms.owned \ {a}) \cup {[a EXCEPT !.pages = LoadedPages(a, {p})]}
        /\ mem' = [mem EXCEPT ![p] = data(a, p)]
  BY FaultStep
<1> DEFINE P == {p}
           b == [a EXCEPT !.pages = LoadedPages(a, P)]
<1>2. /\ Bar \in VM /\ Bar' \in VM /\ Sound(ms) /\ AreasOK(ms.owned) /\ Area(a)
      /\ mem \in [Page -> Value]
  BY BarTypes DEF Sound, AreasOK
<1>3. P \subseteq Cells(a) /\ b = [a EXCEPT !.pages = LoadedPages(a, P)]
      /\ b \in ms'.owned /\ ms'.owned = (ms.owned \ {a}) \cup {b} /\ \A q : q \in P <=> q = p
  BY <1>1
<1> HIDE DEF b, P
<1>4. /\ Area(b) /\ b.flags = a.flags /\ Cells(b) = Cells(a)
      /\ \A q \in Cells(b) : page_at(b, q) = IF q \in P THEN q ELSE page_at(a, q)
      /\ \A q \in Cells(b) : source(b, q) = source(a, q)
  <2>1. Area(a) /\ P \subseteq Cells(a) /\ b = [a EXCEPT !.pages = LoadedPages(a, P)]
    BY <1>2, <1>3
  <2> QED BY <2>1, LoadedArea
<1>5. Bar[p] = View(a, p, mem) /\ Bar[p] # None /\ Bar[p] \in Mapped
  <2>1. Bar[p] = View(a, p, mem) /\ View(a, p, mem) \in Mapped
    BY <1>1, BarTypes, BarAt
  <2> QED BY <2>1, NotMapped
<1>6. Bar[p].data = None /\ Bar[p].src = source(a, p)
  BY <1>1, <1>5 DEF View
<1>7. data(a, p) = IF Bar[p].src = None THEN Zero ELSE file[Bar[p].src]
  BY <1>1, <1>2, <1>6, SourceOf DEF data
<1>8. Bar'[p] = [Bar[p] EXCEPT !.data = IF Bar[p].src = None THEN Zero ELSE file[Bar[p].src]]
  <2>1. Bar'[p] = View(b, p, mem')
    <3>1. p \in Cells(b) /\ b \in ms'.owned
      BY <1>1, <1>3, <1>4
    <3>2. BarOf(ms', mem')[p] = View(b, p, mem')
      BY <3>1, BarTypes, BarAt
    <3> QED BY <3>2, BarTypes
  <2>2. page_at(b, p) = p /\ p # None /\ source(b, p) = source(a, p)
    BY <1>1, <1>3, <1>4, Numbers DEF Page
  <2>3. mem'[p] = data(a, p)
    BY <1>1, <1>2
  <2>4. View(b, p, mem') = [flags |-> a.flags, src |-> source(a, p), data |-> data(a, p)]
    BY <1>4, <2>2, <2>3 DEF View
  <2>5. \A x : [View(a, p, mem) EXCEPT !.data = x]
                 = [flags |-> a.flags, src |-> source(a, p), data |-> x]
    BY DEF View
  <2> QED BY <1>5, <1>7, <2>1, <2>4, <2>5
<1>9. ASSUME NEW q \in Page, q # p PROVE Bar'[q] = Bar[q]
  <2>1. mem'[q] = mem[q]
    BY <1>1, <1>2, <1>9
  <2>2. \A c \in ms'.owned : View(c, q, mem') = View(c, q, mem)
    BY <2>1 DEF View
  <2>3. Covered(ms.owned, q) <=> Covered(ms'.owned, q)
    BY <1>3, <1>4 DEF Covered
  <2>4. ASSUME NEW c \in ms.owned, NEW e \in ms'.owned, q \in Cells(c), q \in Cells(e)
        PROVE  SameView(c, e, q)
    <3>1. CASE e = b
      <4>1. c = a
        BY <1>2, <1>4, <2>4, <3>1, OneArea
      <4> QED BY <1>3, <1>4, <1>9, <2>4, <3>1, <4>1 DEF SameView
    <3>2. CASE e \in ms.owned
      <4>1. c = e
        BY <1>2, <2>4, <3>2, OneArea
      <4> QED BY <4>1 DEF SameView
    <3> QED BY <1>3, <3>1, <3>2
  <2>5. Shows(ms.owned, ms'.owned, q)
    BY <2>3, <2>4 DEF Shows
  <2>6. BarOf(ms', mem')[q] = BarOf(ms, mem)[q]
    BY <2>2, <2>5, BarTypes, BarSame
  <2> QED BY <2>6, BarTypes
<1>10. Bar' = AS!Loaded(Bar, p)
  <2>1. Bar' = [Bar EXCEPT ![p] = [Bar[p] EXCEPT !.data = IF Bar[p].src = None THEN Zero
                                                          ELSE file[Bar[p].src]]]
    BY <1>2, <1>8, <1>9 DEF VM
  <2> QED BY <2>1 DEF AS!Loaded
<1>11. AS!Step(Bar, Bar')
  BY <1>5, <1>6, <1>10, SameNames DEF AS!Step
<1> QED BY <1>11 DEF Refined

LEMMA StoreRefined ==
  ASSUME Inv, DataOK, Inv', DataOK', NEW p \in Page, store(p)
  PROVE  Refined
<1>1. ms' = ms /\ Present(ms, p) /\ ms.pt[p].flags = RW /\ mem' = [mem EXCEPT ![ms.pt[p].page] = Dirty]
  BY DEF store
<1>2. Bar \in VM /\ Bar' \in VM /\ Sound(ms) /\ AreasOK(ms.owned) /\ mem \in [Page -> Value]
  BY BarTypes DEF Sound
<1>3. PICK a \in ms.owned : p \in Cells(a) /\ ms.pt[p] = pte(a, p)
  BY <1>1, <1>2, Agrees DEF Present
<1>4. Area(a)
  BY <1>2 DEF AreasOK
<1>5. page_at(a, p) # None
  BY <1>1, <1>2, <1>3, PresentView
<1>6. page_at(a, p) = p /\ pte(a, p) = [page |-> p, flags |-> a.flags]
  BY <1>3, <1>4, <1>5, EntryOf
<1>7. a.flags = RW /\ mem' = [mem EXCEPT ![p] = Dirty]
  BY <1>1, <1>3, <1>6
<1>8. Bar[p] = View(a, p, mem) /\ Bar[p] # None /\ Bar'[p] = View(a, p, mem')
  <2>1. BarOf(ms, mem)[p] = View(a, p, mem) /\ BarOf(ms', mem')[p] = View(a, p, mem')
    <3>1. BarOf(ms, mem)[p] = View(a, p, mem)
      BY <1>3, BarTypes, BarAt
    <3>2. a \in ms'.owned
      BY <1>1
    <3>3. BarOf(ms', mem')[p] = View(a, p, mem')
      BY <1>3, <3>2, BarTypes, BarAt
    <3> QED BY <3>1, <3>3
  <2>2. View(a, p, mem) \in Mapped
    BY <1>3, BarTypes, BarAt
  <2> QED BY <2>1, <2>2, BarTypes, NotMapped
<1>9. Bar[p].data # None /\ Bar[p].flags = RW
  BY <1>2, <1>5, <1>7, <1>8, Values DEF View
<1>10. Bar'[p] = [Bar[p] EXCEPT !.data = Dirty]
  <2>1. mem'[p] = Dirty
    BY <1>2, <1>7
  <2>2. View(a, p, mem') = [flags |-> a.flags, src |-> source(a, p), data |-> Dirty]
    BY <1>5, <2>1 DEF View
  <2>3. [View(a, p, mem) EXCEPT !.data = Dirty] = [flags |-> a.flags, src |-> source(a, p), data |-> Dirty]
    BY DEF View
  <2> QED BY <1>8, <2>2, <2>3
<1>11. ASSUME NEW q \in Page, q # p PROVE Bar'[q] = Bar[q]
  <2>1. mem'[q] = mem[q]
    BY <1>2, <1>7, <1>11
  <2>2. \A c \in ms'.owned : View(c, q, mem') = View(c, q, mem)
    BY <2>1 DEF View
  <2>3. Shows(ms.owned, ms'.owned, q)
    BY <1>1, <1>2, ShowsSame
  <2>4. BarOf(ms', mem')[q] = BarOf(ms, mem)[q]
    BY <2>2, <2>3, BarTypes, BarSame
  <2> QED BY <2>4, BarTypes
<1>12. Bar' = AS!Written(Bar, p)
  <2>1. Bar' = [Bar EXCEPT ![p] = [Bar[p] EXCEPT !.data = Dirty]]
    BY <1>2, <1>10, <1>11 DEF VM
  <2> QED BY <2>1 DEF AS!Written
<1>13. AS!Step(Bar, Bar')
  BY <1>8, <1>9, <1>12, SameNames DEF AS!Step
<1> QED BY <1>13 DEF Refined

(* Every action is a step of the address space, or leaves it alone.        *)
LEMMA StepRefined ==
  ASSUME Inv, DataOK, Inv', DataOK', [Next]_vars
  PROVE  [AS!Next]_<< Bar, file >>
<1>1. ASSUME NEW p \in Page, handle_page_fault(p) PROVE Refined /\ UNCHANGED file
  BY <1>1, FaultRefined DEF handle_page_fault
<1>2. ASSUME NEW p \in Page, store(p) PROVE Refined /\ UNCHANGED file
  BY <1>2, StoreRefined DEF store
<1>3. ASSUME NEW s \in Page, NEW n \in 0 .. (NPage - s), NEW f \in Flags, NEW off \in Backing(n),
             NEW fixed \in BOOLEAN, mmap(s, n, f, fixed, off)
      PROVE  Refined /\ UNCHANGED file
  BY <1>3, MmapRefined DEF mmap
<1>4. ASSUME NEW s \in Page, NEW n \in 0 .. (NPage - s), munmap(s, n)
      PROVE  Refined /\ UNCHANGED file
  BY <1>4, MunmapStep, FreesRefined DEF munmap
<1>5. ASSUME NEW s \in Page, NEW n \in 0 .. (NPage - s), NEW f \in Flags, mprotect(s, n, f)
      PROVE  Refined /\ UNCHANGED file
  BY <1>5, MprotectRefined DEF mprotect
<1>6. ASSUME NEW s \in Page, NEW n \in 0 .. (NPage - s), msync(s, n) PROVE Bar' = Bar
  BY <1>6, BarNow DEF msync
<1>7. ASSUME NEW s \in Page, NEW n \in 0 .. (NPage - s), NEW k \in 0 .. (NPage - 1), mremap(s, n, k)
      PROVE  Refined /\ UNCHANGED file
  BY <1>7, MremapRefined DEF mremap
<1>8. ASSUME unmap_user_areas PROVE Refined /\ UNCHANGED file
  BY <1>8, ClearRefined DEF unmap_user_areas
<1>9. ASSUME copy_page PROVE Refined /\ UNCHANGED file
  BY <1>9, CopyRefined DEF copy_page, MovesOn
<1>10. ASSUME unmap_old PROVE Refined /\ UNCHANGED file
  BY <1>10, UnmapOldStep, FreesRefined DEF unmap_old
<1>11. ASSUME skip_page \/ give_up PROVE Bar' = Bar
  BY <1>11, BarNow DEF skip_page, give_up, MovesOn, GivesUp
<1>12. ASSUME UNCHANGED vars PROVE Bar' = Bar
  BY <1>12, BarNow DEF vars
<1>13. (Refined /\ UNCHANGED file) \/ Bar' = Bar
  BY <1>1, <1>2, <1>3, <1>4, <1>5, <1>6, <1>7, <1>8, <1>9, <1>10, <1>11, <1>12 DEF Next
<1> QED BY <1>13 DEF AS!Next, Refined

(* The memory set implements the address space: however mmap, munmap,      *)
(* mprotect, mremap and page faults cut and fill areas, each page keeps    *)
(* its flags, its data and its place in the file until a call changes it.  *)
THEOREM ImplementsAddressSpace == Spec => Implements
<1>1. Inv /\ DataOK /\ (Inv /\ DataOK)' /\ [Next]_vars => [AS!Next]_<< Bar, file >>
  BY StepRefined
<1> QED BY <1>1, DataInvariance, PTL DEF Spec, Implements, AS!Spec

-----------------------------------------------------------------------------
(* An mremap moves its pages.                                              *)

(* The pages to move are all mapped, and there is room for them.           *)
Whole(mv) ==
  /\ 0 < mv.old /\ mv.old <= mv.new
  /\ \A p \in Span(mv.from, mv.old) : mv.before[p] # None

(* The address space after the first pages have been copied.               *)
HalfMoved(mv) ==
  [p \in Page |->
     IF p \in Span(mv.to, mv.new)
     THEN [flags |-> RW, src |-> None,
           data |-> IF p - mv.to < mv.next THEN mv.before[mv.from + (p - mv.to)].data ELSE None]
     ELSE mv.before[p]]

MoveData(mv, v) ==
  /\ mv.before \in VM /\ mv.next <= mv.old
  /\ \A p \in Span(mv.to, mv.new) : mv.before[p] = None
  /\ Whole(mv) => v = HalfMoved(mv)

(* At every step of an mremap, what has been copied is what was there.     *)
MovingOK == move # None /\ ms.ok => MoveData(move, Bar)

(* A move is a record, with its pages in the address space.                *)
LEMMA MoveFacts ==
  ASSUME Inv, Moving, NEW next, next = move.next, next < move.old
  PROVE  /\ move.from \in Nat /\ move.to \in Nat /\ move.old \in Nat /\ move.new \in Nat
         /\ next \in Nat /\ move.from + next \in Page
         /\ move.from + next \in Span(move.from, move.old)
         /\ next < move.new => /\ move.to + next \in Page
                               /\ move.to + next \in Span(move.to, move.new)
<1>1. MoveOK
  BY DEF Inv, Moving
<1>2. /\ move.from \in Nat /\ move.to \in Nat /\ move.old \in Nat /\ move.new \in Nat /\ next \in Nat
      /\ move.from + move.old <= NPage /\ move.to + move.new <= NPage /\ NPage \in Nat
  BY <1>1, Numbers DEF MoveOK, MoveRec, Page
<1> QED BY <1>2 DEF Span, Page

LEMMA MremapMoves ==
  ASSUME Inv, DataOK, Inv', DataOK', NEW s \in Page, NEW n \in 0 .. (NPage - s),
         NEW k \in 0 .. (NPage - 1), mremap(s, n, k)
  PROVE  MovingOK'
<1>1. CASE move' = None
  BY <1>1 DEF MovingOK
<1>2. ASSUME NEW t \in Page, t + k <= NPage, Room(ms, t, k), Mapping(ms, ms', t, k, RW, None),
             move' = [from |-> s, old |-> n, to |-> t, new |-> k, next |-> 0, before |-> Bar]
      PROVE  MovingOK'
  <2>1. /\ move'.from = s /\ move'.old = n /\ move'.to = t /\ move'.new = k
        /\ move'.next = 0 /\ move'.before = Bar
    BY <1>2
  <2>2. /\ n \in Nat /\ k \in Nat /\ k \in 0 .. NPage /\ t \in Nat
        /\ mem' = Keep(ms', mem) /\ RW \in Flags
    BY Numbers DEF Page, Flags, mremap
  <2>3. Bar \in VM /\ Bar' \in VM /\ Sound(ms) /\ mem \in [Page -> Value] /\ Bar = BarOf(ms, mem)
    BY BarTypes
  <2>4. ASSUME NEW p \in Span(t, k) PROVE p \in Page /\ Bar[p] = None
    <3>1. p \in Page
      BY <1>2, <2>2, <2>4, Numbers DEF Span, Page
    <3>2. ~Covered(ms.owned, p)
      BY <1>2, <2>2, <2>3, <2>4, RoomFree, Numbers DEF Sound, Page
    <3> QED BY <2>3, <3>1, <3>2, BarAt
  <2>5. ASSUME NEW p \in Page
        PROVE  Bar'[p] = IF p \in Span(t, k) THEN [flags |-> RW, src |-> None, data |-> None]
                         ELSE Bar[p]
    <3> DEFINE o == None
    <3>1. o \in Nat \cup {None} /\ o = None /\ Mapping(ms, ms', t, k, RW, o)
      BY <1>2
    <3> HIDE DEF o
    <3>2. Bar'[p] = IF p \in Span(t, k)
                    THEN [flags |-> RW, data |-> None,
                          src |-> IF o = None THEN None ELSE o + (p - t)]
                    ELSE Bar[p]
      BY <1>2, <2>2, <3>1, BarMapping
    <3> QED BY <3>1, <3>2
  <2>6. Bar' = HalfMoved(move')
    <3>1. \A p \in Page : p \in Span(t, k) => ~(p - t < 0)
      BY <2>2, Numbers DEF Span, Page
    <3>2. \A p \in Page : Bar'[p] = HalfMoved(move')[p]
      BY <2>1, <2>5, <3>1 DEF HalfMoved
    <3> QED BY <2>3, <3>2 DEF VM, HalfMoved
  <2>7. MoveData(move', Bar')
    BY <2>1, <2>2, <2>3, <2>4, <2>6 DEF MoveData
  <2> QED BY <2>7 DEF MovingOK
<1> QED BY <1>1, <1>2, MremapStep

(* While the pages are moved, an old page that was mapped is as it was.    *)
LEMMA NextPage ==
  ASSUME Inv, DataOK, Moving, MoveData(move, Bar), Whole(move), Bar \in VM,
         NEW next, next = move.next, next < move.old
  PROVE  LET p == move.from + next
             q == move.to + next
         IN /\ p \in Page /\ q \in Page /\ p # q /\ next \in Nat /\ move.to \in Nat
            /\ q \in Span(move.to, move.new)
            /\ Bar[p] = move.before[p] /\ Bar[p] # None
            /\ Bar[q] = [flags |-> RW, src |-> None, data |-> None]
<1> DEFINE p == move.from + next
           q == move.to + next
<1>1. /\ move.from \in Nat /\ move.to \in Nat /\ move.old \in Nat /\ move.new \in Nat
      /\ next \in Nat /\ p \in Page /\ p \in Span(move.from, move.old) /\ move.old <= move.new
  BY MoveFacts DEF Whole
<1>2. q \in Page /\ q \in Span(move.to, move.new) /\ q - move.to = next
  <2>1. next < move.new
    BY <1>1
  <2> QED BY <1>1, <2>1, MoveFacts
<1>3. move.before[p] # None /\ move.before[q] = None /\ Bar = HalfMoved(move)
  BY <1>1, <1>2 DEF Whole, MoveData
<1>4. p \notin Span(move.to, move.new) /\ p # q
  BY <1>3 DEF MoveData
<1> HIDE DEF p, q
<1>5. Bar[p] = move.before[p]
  BY <1>1, <1>3, <1>4 DEF HalfMoved
<1>6. ~(q - move.to < next)
  BY <1>1, <1>2
<1>7. Bar[q] = [flags |-> RW, src |-> None, data |-> None]
  BY <1>2, <1>3, <1>6 DEF HalfMoved
<1> QED BY <1>1, <1>2, <1>3, <1>4, <1>5, <1>7 DEF p, q

(* One more page is where it belongs.                                      *)
LEMMA MovesOnData ==
  ASSUME Inv, DataOK, Moving, MoveData(move, Bar), Bar \in VM, NEW w \in VM,
         NEW next, next = move.next, next < move.old,
         NEW mv, mv = [move EXCEPT !.next = next + 1],
         Whole(move) => \A x \in Page :
           w[x] = IF x = move.to + next
                  THEN [flags |-> RW, src |-> None, data |-> move.before[move.from + next].data]
                  ELSE Bar[x]
  PROVE  MoveData(mv, w)
<1>1. /\ move \in MoveRec({move.before}) /\ move.from \in Nat /\ move.to \in Nat
      /\ move.old \in Nat /\ next \in Nat
  BY MoveFacts DEF Inv, Moving, MoveOK
<1>2. /\ mv.from = move.from /\ mv.old = move.old /\ mv.to = move.to /\ mv.new = move.new
      /\ mv.before = move.before /\ mv.next = next + 1 /\ mv.next <= mv.old
  BY <1>1 DEF MoveRec
<1>3. ASSUME Whole(mv) PROVE w = HalfMoved(mv)
  <2>1. Whole(move)
    BY <1>2, <1>3 DEF Whole
  <2>2. Bar = HalfMoved(move) /\ move.to + next \in Span(move.to, move.new)
    BY <2>1, NextPage DEF MoveData
  <2>3. ASSUME NEW x \in Page PROVE w[x] = HalfMoved(mv)[x]
    <3>1. CASE x \notin Span(move.to, move.new)
      BY <1>2, <2>1, <2>2, <3>1 DEF HalfMoved
    <3>2. CASE x \in Span(move.to, move.new) /\ x = move.to + next
      <4>1. x - move.to < next + 1 /\ x - move.to = next
        BY <1>1, <3>2
      <4>2. w[x] = [flags |-> RW, src |-> None, data |-> move.before[move.from + next].data]
        BY <2>1, <3>2
      <4> QED BY <1>2, <3>2, <4>1, <4>2 DEF HalfMoved
    <3>3. CASE x \in Span(move.to, move.new) /\ x # move.to + next
      <4>1. x - move.to < next <=> x - move.to < next + 1
        BY <1>1, <3>3, Numbers DEF Page
      <4>2. w[x] = HalfMoved(move)[x]
        BY <2>1, <2>2, <3>3
      <4> QED BY <1>2, <3>3, <4>1, <4>2 DEF HalfMoved
    <3> QED BY <3>1, <3>2, <3>3
  <2> QED BY <2>3 DEF VM, HalfMoved
<1> QED BY <1>2, <1>3 DEF MoveData

(* No record of a move is None.                                            *)
LEMMA MovesOnSome ==
  ASSUME Inv, Moving, MoveData(move, Bar), NEW x \in Nat, NEW mv, mv = [move EXCEPT !.next = x]
  PROVE  mv # None
<1> DEFINE B == [0 .. (NPage - 1) -> [flags : {R, RW}, src : Nat \cup {None},
                                      data : Nat \cup {Zero, Dirty, None}] \cup {None}]
<1>1. None \notin [from : Nat, old : Nat, to : Nat, new : Nat, next : Nat, before : B]
  BY MemoryAssumption, Zenon
<1>2. move.before \in B
  <2>1. Mapped \cup {None} \subseteq [flags : {R, RW}, src : Nat \cup {None},
                                     data : Nat \cup {Zero, Dirty, None}] \cup {None}
    BY DEF Mapped, Flags, Value
  <2> QED BY <2>1 DEF MoveData, VM, Page
<1> HIDE DEF B
<1>3. /\ move \in MoveRec({move.before}) /\ move.from \in Nat /\ move.to \in Nat
  BY Numbers DEF Inv, Moving, MoveOK, MoveRec, Page
<1>4. mv \in [from : Nat, old : Nat, to : Nat, new : Nat, next : Nat, before : B]
  BY <1>2, <1>3 DEF MoveRec
<1> QED BY <1>1, <1>4

LEMMA CopyMoves ==
  ASSUME Inv, DataOK, Inv', DataOK', MovingOK, copy_page
  PROVE  MovingOK' /\ move' # None
<1> DEFINE next == move.next
           p == move.from + next
           q == move.to + next
<1>1. /\ Moving /\ next = move.next /\ next < move.old /\ MoveData(move, Bar)
      /\ move' = [move EXCEPT !.next = next + 1]
  BY DEF copy_page, MovesOn, MovingOK, Moving
<1>2. Bar \in VM /\ Bar' \in VM
  BY BarTypes
<1>3. p = move.from + next /\ q = move.to + next
  OBVIOUS
<1> HIDE DEF next, p, q
<1>4. /\ p \in Page /\ Present(ms, p) /\ q \in Page
      /\ \/ ~ms'.ok
         \/ Filling(ms, ms', q) /\ mem' = [mem EXCEPT ![q] = mem[p]]
  BY <1>1, <1>3, CopyStep
<1>5. ASSUME ms'.ok PROVE MovingOK'
  <2>1. Bar' = AS!Copied(Bar, p, q)
    BY <1>4, <1>5, BarCopied
  <2>2. ASSUME Whole(move), NEW x \in Page
        PROVE  Bar'[x] = IF x = q
                         THEN [flags |-> RW, src |-> None, data |-> move.before[p].data]
                         ELSE Bar[x]
    <3>1. Bar[p] = move.before[p] /\ Bar[q] = [flags |-> RW, src |-> None, data |-> None]
      BY <1>1, <1>2, <1>3, <2>2, NextPage
    <3>2. Bar' = [Bar EXCEPT ![q].data = Bar[p].data]
      BY <2>1 DEF AS!Copied
    <3> QED BY <1>2, <1>4, <3>1, <3>2 DEF VM
  <2>3. Whole(move) => \A x \in Page :
          Bar'[x] = IF x = move.to + next
                    THEN [flags |-> RW, src |-> None, data |-> move.before[move.from + next].data]
                    ELSE Bar[x]
    BY <1>3, <2>2
  <2>4. MoveData(move', Bar')
    <3> DEFINE w == Bar'
               mv == move'
    <3>1. /\ w \in VM /\ mv = [move EXCEPT !.next = next + 1]
          /\ Whole(move) => \A x \in Page :
               w[x] = IF x = move.to + next
                      THEN [flags |-> RW, src |-> None, data |-> move.before[move.from + next].data]
                      ELSE Bar[x]
      BY <1>1, <1>2, <2>3
    <3> HIDE DEF w, mv
    <3>2. MoveData(mv, w)
      BY <1>1, <1>2, <3>1, MovesOnData
    <3> QED BY <3>2 DEF w, mv
  <2> QED BY <2>4 DEF MovingOK
<1>6. move' # None
  <2> DEFINE k == next + 1
             mv == move'
  <2>1. k \in Nat /\ mv = [move EXCEPT !.next = k]
    BY <1>1, MoveFacts
  <2> HIDE DEF k, mv
  <2>2. mv # None
    BY <1>1, <2>1, MovesOnSome
  <2> QED BY <2>2 DEF mv
<1> QED BY <1>5, <1>6 DEF MovingOK

LEMMA SkipMoves ==
  ASSUME Inv, DataOK, Inv', DataOK', MovingOK, skip_page
  PROVE  MovingOK' /\ move' # None
<1> DEFINE next == move.next
           p == move.from + next
           q == move.to + next
           k == next + 1
           mv == move'
<1>1. /\ Moving /\ next = move.next /\ next < move.old /\ MoveData(move, Bar)
      /\ mv = [move EXCEPT !.next = k]
      /\ ~Present(ms, p) \/ area_of(ms, q) = {}
  BY DEF skip_page, MovesOn, MovingOK, Moving
<1>2. /\ Bar \in VM /\ Bar' = Bar /\ Sound(ms) /\ mem \in [Page -> Value] /\ Bar = BarOf(ms, mem)
  BY BarTypes, BarNow DEF skip_page
<1>3. p = move.from + next /\ q = move.to + next /\ k = next + 1
  OBVIOUS
<1> HIDE DEF next, p, q, k, mv
<1>4. k \in Nat
  BY <1>1, <1>3, MoveFacts
<1>5. Whole(move) => \A x \in Page :
        Bar[x] = IF x = move.to + next
                 THEN [flags |-> RW, src |-> None, data |-> move.before[move.from + next].data]
                 ELSE Bar[x]
  <2> SUFFICES ASSUME Whole(move)
               PROVE  Bar[q] = [flags |-> RW, src |-> None, data |-> move.before[p].data]
    BY <1>3
  <2>1. /\ p \in Page /\ q \in Page /\ Bar[p] = move.before[p] /\ Bar[p] # None
        /\ Bar[q] = [flags |-> RW, src |-> None, data |-> None]
    BY <1>1, <1>2, <1>3, NextPage
  <2>2. Bar[q] # None
    <3>1. Bar[q] \in Mapped
      BY <2>1 DEF Mapped, Flags
    <3> QED BY <3>1, NotMapped
  <2>3. ~Present(ms, p)
    <3>1. Covered(ms.owned, q)
      BY <1>2, <2>1, <2>2, BarAt
    <3>2. area_of(ms, q) # {}
      BY <1>2, <2>1, <3>1, AreaOf, Numbers DEF Sound, Covered, Page
    <3> QED BY <1>1, <3>2
  <2>4. Bar[p].data = None
    BY <1>2, <2>1, <2>3, PresentData
  <2> QED BY <2>1, <2>4
<1>6. MoveData(mv, Bar)
  BY <1>1, <1>2, <1>3, <1>5, MovesOnData
<1>7. mv # None
  BY <1>1, <1>4, MovesOnSome
<1> QED BY <1>2, <1>6, <1>7 DEF MovingOK, mv

LEMMA StepMoves ==
  ASSUME Inv, DataOK, Inv', DataOK', MovingOK, [Next]_vars
  PROVE  MovingOK'
<1>1. ASSUME NEW p \in Page, handle_page_fault(p) \/ store(p) PROVE move' = None
  BY <1>1 DEF handle_page_fault, store, Ready
<1>2. ASSUME NEW s \in Page, NEW n \in 0 .. (NPage - s), NEW f \in Flags, NEW off \in Backing(n),
             NEW fixed \in BOOLEAN, mmap(s, n, f, fixed, off)
      PROVE  move' = None
  BY <1>2 DEF mmap, Call, Ready
<1>3. ASSUME NEW s \in Page, NEW n \in 0 .. (NPage - s), munmap(s, n) PROVE move' = None
  BY <1>3 DEF munmap, Call, Ready
<1>4. ASSUME NEW s \in Page, NEW n \in 0 .. (NPage - s), NEW f \in Flags, mprotect(s, n, f)
      PROVE  move' = None
  BY <1>4 DEF mprotect, Call, Ready
<1>5. ASSUME NEW s \in Page, NEW n \in 0 .. (NPage - s), msync(s, n) PROVE move' = None
  BY <1>5 DEF msync, Call, Ready
<1>6. ASSUME NEW s \in Page, NEW n \in 0 .. (NPage - s), NEW k \in 0 .. (NPage - 1), mremap(s, n, k)
      PROVE  MovingOK'
  BY <1>6, MremapMoves
<1>7. ASSUME copy_page \/ skip_page PROVE MovingOK'
  BY <1>7, CopyMoves, SkipMoves
<1>8. ASSUME give_up \/ unmap_old PROVE move' = None
  BY <1>8 DEF give_up, GivesUp, unmap_old
<1>9. ASSUME unmap_user_areas PROVE move' = None
  BY <1>9 DEF unmap_user_areas, Call, Ready
<1>10. ASSUME UNCHANGED vars PROVE MovingOK'
  <2>1. ms' = ms /\ move' = move /\ Bar' = Bar
    BY <1>10, BarNow DEF vars
  <2> QED BY <2>1 DEF MovingOK
<1>11. MovingOK' \/ move' = None
  BY <1>1, <1>2, <1>3, <1>4, <1>5, <1>6, <1>7, <1>8, <1>9, <1>10 DEF Next
<1> QED BY <1>11 DEF MovingOK

(* Every page has been copied: what is left is to unmap the old ones.      *)
LEMMA MoveEnds ==
  ASSUME Inv, DataOK, Inv', DataOK', MovingOK, unmap_old, Whole(move)
  PROVE  Bar' = AS!Moved(move.before, move.from, move.old, move.to, move.new)
<1>1. /\ Moving /\ move.next >= move.old /\ MoveData(move, Bar) /\ mem' = Keep(ms', mem)
  BY DEF unmap_old, MovingOK, Moving
<1>2. move.next = move.old /\ Bar = HalfMoved(move) /\ move.old > 0
  <2>1. move.next \in Nat /\ move.old \in Nat
    BY <1>1 DEF Inv, Moving, MoveOK, MoveRec
  <2> QED BY <1>1, <2>1 DEF MoveData, Whole
<1>3. \A p \in Page : Bar'[p] = IF p \in Span(move.from, move.old) THEN None ELSE Bar[p]
  BY <1>1, <1>2, UnmapOldStep, BarWithout
<1>4. \A p \in Span(move.to, move.new) : p \notin Span(move.from, move.old)
  BY <1>1 DEF MoveData, Whole
<1>5. ASSUME NEW p \in Page
      PROVE  Bar'[p] = IF p \in Span(move.to, move.new)
                       THEN [flags |-> RW, src |-> None,
                             data |-> IF p - move.to < move.old
                                      THEN move.before[move.from + (p - move.to)].data ELSE None]
                       ELSE IF p \in Span(move.from, move.old) THEN None ELSE move.before[p]
  <2>1. Bar[p] = IF p \in Span(move.to, move.new)
                 THEN [flags |-> RW, src |-> None,
                       data |-> IF p - move.to < move.old
                                THEN move.before[move.from + (p - move.to)].data ELSE None]
                 ELSE move.before[p]
    BY <1>2 DEF HalfMoved
  <2> QED BY <1>3, <1>4, <2>1
<1>6. Bar' \in VM
  BY BarTypes
<1> QED BY <1>5, <1>6, SameNames DEF AS!Moved, VM

(* An mremap of mapped pages does not give up.                             *)
LEMMA MoveGoesOn ==
  ASSUME Inv, DataOK, MovingOK, give_up
  PROVE  ~Whole(move)
<1> SUFFICES ASSUME Whole(move) PROVE FALSE
  OBVIOUS
<1> DEFINE next == move.next
           p == move.from + next
<1>1. /\ Moving /\ next = move.next /\ next < move.old /\ MoveData(move, Bar) /\ ms.pt[p] = Unused
  BY DEF give_up, MovingOK, Moving
<1>2. /\ Sound(ms) /\ mem \in [Page -> Value] /\ Bar = BarOf(ms, mem) /\ Bar \in VM
  BY BarNow, BarFunction DEF Inv, DataOK, VM
<1>3. p = move.from + next
  OBVIOUS
<1> HIDE DEF next, p
<1>4. p \in Page /\ Bar[p] # None
  BY <1>1, <1>2, <1>3, NextPage
<1> QED BY <1>1, <1>2, <1>4, PresentData

LEMMA StepFaithful ==
  ASSUME Inv, DataOK, Inv', DataOK', MovingOK, [Next]_vars, move # None, move' = None, Whole(move)
  PROVE  Bar' = AS!Moved(move.before, move.from, move.old, move.to, move.new)
<1>1. ASSUME NEW p \in Page PROVE ~handle_page_fault(p) /\ ~store(p)
  BY DEF handle_page_fault, store, Ready
<1>2. ASSUME NEW s, NEW n
      PROVE  /\ \A f, off, fixed : ~mmap(s, n, f, fixed, off)
             /\ ~munmap(s, n) /\ ~msync(s, n)
             /\ \A f : ~mprotect(s, n, f)
             /\ \A k : ~mremap(s, n, k)
  BY DEF mmap, munmap, msync, mprotect, mremap, Call, Ready
<1>3. ~unmap_user_areas /\ ~(UNCHANGED vars)
  BY DEF unmap_user_areas, Call, Ready, vars
<1>4. ~copy_page /\ ~skip_page /\ ~give_up
  BY CopyMoves, SkipMoves, MoveGoesOn
<1>5. unmap_old
  BY <1>1, <1>2, <1>3, <1>4 DEF Next
<1> QED BY <1>5, MoveEnds

(* An mremap of mapped pages to at least as many moves them: when it is    *)
(* over, each page of the new region has what the old one had, the old     *)
(* region is gone, and no other page has changed.                          *)
THEOREM MovesFaithfully == Spec => MoveFaithful
<1>1. Init => MovingOK
  BY DEF Init, MovingOK
<1>2. Inv /\ DataOK /\ (Inv /\ DataOK)' /\ MovingOK /\ [Next]_vars => MovingOK'
  BY StepMoves
<1>3. Inv /\ DataOK /\ (Inv /\ DataOK)' /\ MovingOK /\ [Next]_vars
        => [/\ move # None /\ move' = None
            /\ 0 < move.old /\ move.old <= move.new
            /\ \A p \in Span(move.from, move.old) : move.before[p] # None
            => Bar' = AS!Moved(move.before, move.from, move.old, move.to, move.new)]_vars
  BY StepFaithful DEF Whole
<1> QED BY <1>1, <1>2, <1>3, DataInvariance, PTL DEF Spec, MoveFaithful
=============================================================================
