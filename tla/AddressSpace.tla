---------------------------- MODULE AddressSpace ----------------------------
(***************************************************************************)
(* What a memory set promises: an address space is a function of pages.    *)
(* Each page is mapped or not; a mapped page has flags, comes from a page  *)
(* of the file or is anonymous (src), and has its data once it is loaded.  *)
(* Areas, their splitting and the page table do not appear.                *)
(***************************************************************************)
EXTENDS Integers

CONSTANTS NPage, RW, Zero, Dirty, None

VARIABLES vm,    \* the pages; None if unmapped
          file   \* the data of the pages of the file

Page == 0 .. (NPage - 1)

Span(s, n) == s .. (s + n - 1)

(* The address spaces that the operations make of v.                       *)

Loaded(v, p) ==
  [v EXCEPT ![p].data = IF v[p].src = None THEN Zero ELSE file[v[p].src]]

Written(v, p) == [v EXCEPT ![p].data = Dirty]

Unmapped(v, S) == [p \in Page |-> IF p \in S THEN None ELSE v[p]]

Protected(v, S, flags) ==
  [p \in Page |-> IF p \in S /\ v[p] # None THEN [v[p] EXCEPT !.flags = flags] ELSE v[p]]

Mapped(v, s, n, flags, off) ==
  [p \in Page |->
     IF p \in Span(s, n)
     THEN [flags |-> flags, data |-> None,
           src |-> IF off = None THEN None ELSE off + (p - s)]
     ELSE v[p]]

Copied(v, p, q) == [v EXCEPT ![q].data = v[p].data]

(* The n pages from s move to t and become m anonymous pages; what was     *)
(* loaded is copied, and no other page changes.  An mremap does this in    *)
(* several steps.                                                          *)
Moved(v, s, n, t, m) ==
  [p \in Page |->
     IF p \in Span(t, m)
     THEN [flags |-> RW, src |-> None,
           data |-> IF p - t < n THEN v[s + (p - t)].data ELSE None]
     ELSE IF p \in Span(s, n) THEN None ELSE v[p]]

(* A step from v to w, other than msync, which changes the file only.  The *)
(* first page of a region is the first one that the step changes.          *)
Step(v, w) ==
  LET used == {p \in Page : v[p] # None}
      gone == {p \in used : w[p] = None}
  IN
  \/ \E p \in used :
       \/ v[p].data = None /\ w = Loaded(v, p)
       \/ v[p].data # None /\ v[p].flags = RW /\ w = Written(v, p)
  \/ \E s \in gone, n \in 1 .. NPage : w = Unmapped(v, Span(s, n))
  \/ \E s \in used \ gone, n \in 1 .. NPage :
       w[s].flags # v[s].flags /\ w = Protected(v, Span(s, n), w[s].flags)
  \/ \E s \in Page \ gone, n \in 1 .. NPage :
       w[s] # None /\ w[s].data = None /\ w = Mapped(v, s, n, w[s].flags, w[s].src)
  \/ \E p, q \in used :
       v[p].data # None /\ v[q].flags = RW /\ w = Copied(v, p, q)

Next == \E v \in {vm}, w \in {vm'} : w = v \/ (UNCHANGED file /\ Step(v, w))

Spec == [][Next]_<< vm, file >>
=============================================================================
