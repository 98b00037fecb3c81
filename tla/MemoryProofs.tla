---------------------------- MODULE MemoryProofs -----------------------------
(***************************************************************************)
(* Proofs about memory: about Paging, for pages, tables and areas of any   *)
(* size and programs of any number of segments, that a read through the    *)
(* tables returns what was last written, and that an address space is kept *)
(* while it grows; and about DataCache, for lines, groups and ways of any  *)
(* number, that the copies in the cache agree with memory, that no line is *)
(* held twice, and that every access is one of plain memory.               *)
(***************************************************************************)
EXTENDS DataCache, ExecutionProofs, Paging, FiniteSetTheorems

(* Pages of an address space, by number, and what a directory says of one. *)
Pages == 0 .. (NR_PDE * NR_PTE) - 1
At(dir, n) == dir[n \div NR_PTE][n % NR_PTE]
PageOf(l) == l \div Page

Directories == [0 .. NR_PDE - 1 -> [0 .. NR_PTE - 1 -> Int]]

(* A product grows with its factor.                                        *)
LEMMA Grows ==
  ASSUME NEW P \in Int, P > 0, NEW a \in Int, NEW b \in Int
  PROVE  /\ P * a \in Int /\ P * b \in Int
         /\ a <= b <=> P * a <= P * b
         /\ a < b <=> P * a < P * b
         /\ a = b <=> P * a = P * b
<1>1. P * a \in Int /\ P * b \in Int
  BY SMT
<1>2. ASSUME NEW x \in Int, NEW y \in Int, x < y PROVE P * x < P * y
  <2>1. PICK d \in Int : d >= 1 /\ y = x + d
    <3>1. (y - x) \in Int /\ y - x >= 1 /\ y = x + (y - x)
      BY <1>2
    <3>2. QED
      BY <3>1
  <2>2. P * d > 0
    BY <2>1, SMT
  <2>3. P * y = (P * x) + (P * d)
    BY <2>1, SMT
  <2>4. P * x \in Int /\ P * d \in Int
    BY <2>1, SMT
  <2>5. QED
    BY <2>2, <2>3, <2>4
<1>3. a < b => P * a < P * b
  BY <1>2
<1>4. b < a => P * b < P * a
  BY <1>2
<1> DEFINE x == P * a
           y == P * b
<1> HIDE DEF x, y
<1>5. x \in Int /\ y \in Int /\ (a < b => x < y) /\ (b < a => y < x) /\ (a = b => x = y)
  BY <1>1, <1>3, <1>4 DEF x, y
<1>6. (a <= b <=> x <= y) /\ (a < b <=> x < y) /\ (a = b <=> x = y)
  BY <1>5
<1>7. QED
  BY <1>5, <1>6 DEF x, y

(* The areas of memory in pages.                                           *)
UserPages == KOFFSET \div Page
MemoryPages == PHY_MEM \div Page
KernelPages == KMEM \div Page
VideoPage == VMEM_ADDR \div Page
MapPages == VideoLen \div Page

(* A multiple of PT_SIZE is a multiple of Page.                            *)
LEMMA WholePages ==
  ASSUME NEW x \in Nat, x % PT_SIZE = 0
  PROVE  /\ x \div Page \in Nat /\ x = Page * (x \div Page)
         /\ x \div PT_SIZE \in Nat /\ x \div Page = NR_PTE * (x \div PT_SIZE)
         /\ x = PT_SIZE * (x \div PT_SIZE)
<1> DEFINE q == x \div PT_SIZE
           M == PT_SIZE
           P == Page
           R == NR_PTE
           n == R * q
<1>1. P \in Int /\ P > 0 /\ R \in Int /\ R > 0 /\ M = R * P
  BY PagingAssumption DEF PT_SIZE
<1>2. M \in Int /\ M > 0
  BY <1>1, SMT
<1> HIDE DEF M, P, R
<1>3. x \in Int /\ q \in Int /\ x = (M * q) + (x % M) /\ x % M = 0
  BY <1>2, ModIs DEF M
<1> HIDE DEF q
<1>4. M * q \in Int
  BY <1>2, <1>3, SMT
<1>5. x = M * q
  BY <1>3, <1>4
<1>6. q >= 0
  <2>1. 0 <= q <=> M * 0 <= M * q
    BY ONLY <1>2, <1>3, 0 \in Int, Grows
  <2>2. M * 0 = 0
    BY <1>2
  <2>3. QED
    BY <1>3, <1>4, <1>5, <2>1, <2>2
<1>7. n \in Int /\ M * q = P * n
  BY <1>1, <1>3, SMT
<1> HIDE DEF n
<1>8. x = (P * n) + 0 /\ P * n \in Int /\ 0 < P
  BY <1>1, <1>4, <1>5, <1>7
<1>9. x \div P = n
  BY ONLY <1>1, <1>3, <1>7, <1>8, ModUnique, 0 \in Int, 0 >= 0
<1>10. n >= 0
  <2>1. 0 <= n <=> P * 0 <= P * n
    BY ONLY <1>1, <1>7, 0 \in Int, Grows
  <2>2. P * 0 = 0
    BY <1>1
  <2>3. QED
    BY <1>3, <1>8, <2>1, <2>2
<1>11. QED
  BY <1>3, <1>5, <1>6, <1>7, <1>8, <1>9, <1>10 DEF q, n, M, P, R

(* A quotient is below a bound where the dividend is below its multiple.   *)
LEMMA QuotientBelow ==
  ASSUME NEW M \in Int, M > 0, NEW x \in Int, NEW X \in Int
  PROVE  x \div M \in Int /\ M * X \in Int /\ (x < M * X <=> x \div M < X)
<1> DEFINE q == x \div M
           r == x % M
           y == M * q
           z == M * X
<1>1. q \in Int /\ r \in Int /\ r >= 0 /\ r < M /\ x = y + r
  BY ModIs
<1> HIDE DEF q, r
<1>2. y \in Int /\ z \in Int
  BY <1>1, Grows
<1>3. X <= q <=> z <= y
  BY ONLY <1>1, Grows, M \in Int, M > 0, X \in Int DEF y, z
<1>4. q < X => y + M <= z
  <2> SUFFICES ASSUME q < X PROVE y + M <= z
    OBVIOUS
  <2> DEFINE p == q + 1
             w == M * p
  <2>1. p \in Int /\ p <= X
    BY <1>1
  <2> HIDE DEF p
  <2>2. w <= z
    BY ONLY <2>1, Grows, M \in Int, M > 0, X \in Int DEF w, z
  <2>3. w = y + M
    BY <1>1, SMT DEF p
  <2>4. QED
    BY <2>2, <2>3
<1> HIDE DEF y, z
<1>5. x < z <=> q < X
  BY <1>1, <1>2, <1>3, <1>4
<1>6. QED
  BY <1>1, <1>2, <1>5 DEF q, z

(* The constants in pages, and how they lie.                               *)
InPages ==
  /\ Page \in Int /\ Page >= 4 /\ NR_PTE \in Int /\ NR_PTE > 0 /\ NR_PDE \in Int /\ NR_PDE > 0
  /\ PT_SIZE \in Int /\ PT_SIZE > 0 /\ PT_SIZE = Page * NR_PTE
  /\ NR_PDE * NR_PTE \in Int /\ Word = Page * (NR_PDE * NR_PTE)
  /\ UserPages \in Nat /\ KOFFSET = Page * UserPages
  /\ MemoryPages \in Nat /\ PHY_MEM = Page * MemoryPages
  /\ KernelPages \in Nat /\ KMEM = Page * KernelPages
  /\ VideoPage \in Nat /\ VMEM_ADDR = Page * VideoPage
  /\ MapPages \in Nat /\ VideoLen = Page * MapPages
  /\ NR_PTE <= KernelPages /\ KernelPages <= MemoryPages /\ MemoryPages <= UserPages
  /\ UserPages + MemoryPages <= NR_PDE * NR_PTE /\ VideoPage + MapPages <= NR_PTE
  /\ PdeOf(KOFFSET) \in Nat /\ UserPages = NR_PTE * PdeOf(KOFFSET)
  /\ PHY_MEM \div PT_SIZE \in Nat /\ MemoryPages = NR_PTE * (PHY_MEM \div PT_SIZE)

(* They lie so by what is assumed of them.                                 *)
LEMMA InPagesHolds ==
  ASSUME Byte = 8
  PROVE  InPages
<1> DEFINE W == Word
           u == UserPages
           m == MemoryPages
           k == KernelPages
           v == VideoPage
           p == MapPages
           t == PT_SIZE
           e == NR_PDE
           g == NR_PTE
           P == Page
           w == e * g
<1>1. W \in Nat /\ W > 0 /\ W % PT_SIZE = 0
  <2>1. Word \in Int /\ Word > 65536
    BY WordIs
  <2>2. QED
    BY <2>1, PagingAssumption
<1>2. P \in Int /\ P >= 4 /\ g \in Int /\ g > 0 /\ t = g * P
  BY PagingAssumption DEF PT_SIZE
<1>3. t \in Int /\ t > 0 /\ t = P * g
  <2>1. g * P = P * g /\ P * g \in Int /\ g * P > 0
    BY <1>2, SMT
  <2>2. QED
    BY <1>2, <2>1
<1>4. /\ KMEM \in Nat /\ KMEM > 0 /\ KMEM % PT_SIZE = 0 /\ PHY_MEM \in Nat /\ PHY_MEM % PT_SIZE = 0
      /\ KOFFSET \in Nat /\ KOFFSET % PT_SIZE = 0
      /\ KMEM <= PHY_MEM /\ PHY_MEM <= KOFFSET /\ KOFFSET + PHY_MEM <= W
  <2>1. \A size \in {KMEM, PHY_MEM, KOFFSET} : size \in Nat \ {0} /\ size % PT_SIZE = 0
    BY PagingAssumption
  <2>2. KMEM <= PHY_MEM /\ PHY_MEM <= KOFFSET /\ KOFFSET + PHY_MEM <= W
    BY PagingAssumption
  <2> HIDE DEF W
  <2>3. QED
    BY <2>1, <2>2
<1>5. /\ e \in Nat /\ W = t * e /\ W \div Page \in Nat /\ W = P * (W \div Page) /\ W \div Page = g * e
  BY <1>1, WholePages DEF NR_PDE
<1>6. w \in Int /\ w = g * e
  BY <1>2, <1>5, SMT
<1>7. W = P * w
  BY <1>5, <1>6
<1>8. u \in Nat /\ KOFFSET = P * u /\ PdeOf(KOFFSET) \in Nat /\ u = g * PdeOf(KOFFSET)
  BY <1>4, WholePages DEF UserPages, PdeOf
<1>9. m \in Nat /\ PHY_MEM = P * m /\ PHY_MEM \div PT_SIZE \in Nat /\ m = g * (PHY_MEM \div PT_SIZE)
  BY <1>4, WholePages DEF MemoryPages
<1>10. k \in Nat /\ KMEM = P * k /\ KMEM \div PT_SIZE \in Nat /\ k = g * (KMEM \div PT_SIZE)
  BY <1>4, WholePages DEF KernelPages
<1>11. v \in Nat /\ VMEM_ADDR = P * v /\ p \in Nat /\ VideoLen = P * p /\ VMEM_ADDR \in Nat /\ VideoLen \in Nat
  <2>1. ASSUME NEW x \in Nat, x % Page = 0 PROVE x \div Page \in Nat /\ x = P * (x \div Page)
    <3> DEFINE q == x \div P
    <3>1. q \in Int /\ x = (P * q) + (x % P)
      BY <1>2, ModIs
    <3>2. x < P * 0 <=> q < 0
      BY ONLY <1>2, x \in Int, 0 \in Int, QuotientBelow, P > 0
    <3>3. P * 0 = 0
      BY <1>2
    <3> HIDE DEF q
    <3>4. P * q \in Int
      BY <1>2, <3>1, SMT
    <3>5. QED
      BY <2>1, <3>1, <3>2, <3>3, <3>4 DEF q
  <2>2. VMEM_ADDR \in Nat /\ VMEM_ADDR % Page = 0 /\ VideoLen \in Nat /\ VideoLen % Page = 0
    BY PagingAssumption
  <2>3. QED
    BY <2>1, <2>2 DEF VideoPage, MapPages
<1> HIDE DEF W, u, m, k, v, p, t, e, g, P, w
<1>12. e > 0
  <2>1. t * 0 = 0
    BY <1>3
  <2>2. QED
    BY <1>1, <1>5, <2>1
<1>13. k <= m /\ m <= u
  BY <1>2, <1>4, <1>8, <1>9, <1>10, Grows
<1>14. u + m <= w
  <2> DEFINE s == u + m
  <2>1. P * s = (P * u) + (P * m) /\ s \in Int
    BY <1>2, <1>8, <1>9, SMT
  <2>2. P * s <= P * w
    BY <1>4, <1>7, <1>8, <1>9, <2>1
  <2> HIDE DEF s
  <2>3. s <= w
    BY <1>2, <1>6, <2>1, <2>2, Grows
  <2>4. QED
    BY <2>3 DEF s
<1>15. v + p <= g
  <2> DEFINE s == v + p
  <2>1. P * s = (P * v) + (P * p) /\ s \in Int
    BY <1>2, <1>11, SMT
  <2>2. P * s <= P * g
    BY <1>3, <1>11, <2>1, PagingAssumption DEF t
  <2> HIDE DEF s
  <2>3. s <= g
    BY <1>2, <2>1, <2>2, Grows
  <2>4. QED
    BY <2>3 DEF s
<1>16. g <= k
  <2> DEFINE q == KMEM \div PT_SIZE
  <2>1. q \in Nat /\ k = g * q
    BY <1>10
  <2> HIDE DEF q
  <2>2. q # 0
    <3>1. g * 0 = 0 /\ P * 0 = 0
      BY <1>2
    <3>2. q = 0 => k = 0
      BY <2>1, <3>1
    <3>3. k = 0 => KMEM = 0
      BY <1>10, <3>1
    <3>4. QED
      BY <1>4, <3>2, <3>3
  <2>3. g * 1 <= g * q <=> 1 <= q
    BY <1>2, <2>1, Grows
  <2>4. QED
    BY <1>2, <2>1, <2>2, <2>3
<1>17. QED
  BY <1>2, <1>3, <1>5, <1>6, <1>7, <1>8, <1>9, <1>10, <1>11, <1>12, <1>13, <1>14, <1>15, <1>16
     DEF InPages, W, u, m, k, v, p, t, e, g, P, w

(* An address is a page and a place in it, and finds its frame by both.    *)
LEMMA PageIs ==
  ASSUME Byte = 8, NEW l \in Nat
  PROVE  /\ PageOf(l) \in Nat /\ l % Page \in 0 .. Page - 1 /\ l = (Page * PageOf(l)) + (l % Page)
         /\ Page * PageOf(l) \in Int
         /\ \A dir : Frame(dir, l) = At(dir, PageOf(l))
         /\ PdeOf(l) = PageOf(l) \div NR_PTE
<1> DEFINE P == Page
           R == NR_PTE
           n == l \div P
           r == l % P
           d == n \div R
           i == n % R
           M == PT_SIZE
<1>1. P \in Int /\ P > 0 /\ R \in Int /\ R > 0 /\ M \in Int /\ M > 0 /\ M = P * R
  BY InPagesHolds DEF InPages
<1> HIDE DEF P, R, M
<1>2. n \in Int /\ r \in Int /\ r >= 0 /\ r < P /\ l = (P * n) + r
  BY <1>1, ModIs
<1>3. n >= 0
  <2>1. l < P * 0 <=> n < 0
    BY ONLY <1>1, l \in Int, 0 \in Int, QuotientBelow
  <2>2. P * 0 = 0
    BY <1>1
  <2>3. QED
    BY <1>2, <2>1, <2>2
<1> HIDE DEF r, n
<1>4. d \in Int /\ i \in Int /\ i >= 0 /\ i < R /\ n = (R * d) + i
  BY <1>1, <1>2, ModIs
<1> HIDE DEF d, i
<1> DEFINE o == (P * i) + r
<1>5. o \in Int /\ o >= 0 /\ o < M
  <2>1. 0 <= i <=> P * 0 <= P * i
    BY ONLY <1>1, <1>4, 0 \in Int, Grows
  <2>2. i + 1 <= R <=> P * (i + 1) <= P * R
    <3>1. i + 1 \in Int
      BY <1>4
    <3>2. QED
      BY ONLY <1>1, <3>1, Grows
  <2>3. P * 0 = 0 /\ P * (i + 1) = (P * i) + P /\ P * i \in Int
    BY <1>1, <1>4, SMT
  <2>4. QED
    BY <1>1, <1>2, <1>4, <2>1, <2>2, <2>3
<1>6. l = (M * d) + o
  <2>1. P * n = (P * (R * d)) + (P * i)
    BY <1>1, <1>2, <1>4, SMT
  <2>2. P * (R * d) = M * d /\ M * d \in Int /\ P * i \in Int
    BY <1>1, <1>4, SMT
  <2>3. QED
    BY <1>2, <2>1, <2>2
<1> HIDE DEF o
<1>7. l \div M = d
  BY ONLY <1>1, <1>4, <1>5, <1>6, ModUnique, l \in Int
<1>8. P * n \in Int
  BY <1>1, <1>2, SMT
<1>9. PdeOf(l) = d /\ PteOf(l) = i /\ PageOf(l) = n
  BY <1>7 DEF PdeOf, PteOf, PageOf, n, i, P, R, M
<1>10. d = PageOf(l) \div NR_PTE /\ i = PageOf(l) % NR_PTE
  BY <1>9 DEF d, i, R
<1>11. ASSUME NEW dir PROVE Frame(dir, l) = At(dir, PageOf(l))
  BY <1>9, <1>10 DEF Frame, At
<1>12. n \in Nat
  BY <1>2, <1>3
<1>13. PageOf(l) \in Nat /\ l % Page \in 0 .. Page - 1 /\ l = (Page * PageOf(l)) + (l % Page)
       /\ Page * PageOf(l) \in Int
  BY <1>1, <1>2, <1>8, <1>9, <1>12 DEF r, P
<1>14. QED
  BY <1>9, <1>10, <1>11, <1>13

(* The place in a page and its number give the address back.               *)
LEMMA PageUnique ==
  ASSUME Byte = 8, NEW l \in Nat, NEW n \in Int, NEW r \in 0 .. Page - 1, l = (Page * n) + r
  PROVE  PageOf(l) = n /\ l % Page = r
<1>1. Page \in Int /\ Page > 0
  BY InPagesHolds DEF InPages
<1>2. r \in Int /\ r >= 0 /\ r < Page /\ l \in Int
  BY <1>1
<1>3. QED
  BY ONLY <1>1, <1>2, ModUnique, n \in Int, l = (Page * n) + r DEF PageOf

(* What is below a page boundary.                                          *)
LEMMA PageBelow ==
  ASSUME Byte = 8, NEW l \in Nat, NEW X \in Int
  PROVE  l < Page * X <=> PageOf(l) < X
<1>1. Page \in Int /\ Page > 0
  BY InPagesHolds DEF InPages
<1>2. QED
  BY <1>1, QuotientBelow DEF PageOf

(* The entries of a directory, and the pages they are about.               *)
LEMMA EntryIs ==
  ASSUME Byte = 8, NEW n \in Pages
  PROVE  /\ n \div NR_PTE \in 0 .. NR_PDE - 1 /\ n % NR_PTE \in 0 .. NR_PTE - 1
         /\ NR_PTE * (n \div NR_PTE) \in Int /\ n = ((n \div NR_PTE) * NR_PTE) + (n % NR_PTE)
<1> DEFINE R == NR_PTE
           e == NR_PDE
           d == n \div R
           i == n % R
<1>1. R \in Int /\ R > 0 /\ e \in Int /\ e > 0 /\ e * R \in Int /\ e * R = R * e
  <2>1. R \in Int /\ R > 0 /\ e \in Int /\ e > 0
    BY InPagesHolds DEF InPages
  <2>2. QED
    BY <2>1, SMT
<1> HIDE DEF R, e
<1>2. n \in Int /\ n >= 0 /\ n < R * e
  BY <1>1 DEF Pages, R, e
<1>3. d \in Int /\ i \in Int /\ i >= 0 /\ i < R /\ n = (R * d) + i
  BY <1>1, <1>2, ModIs
<1>4. n < R * e <=> d < e
  BY ONLY <1>1, <1>2, QuotientBelow
<1>5. n < R * 0 <=> d < 0
  BY ONLY <1>1, <1>2, 0 \in Int, QuotientBelow
<1>6. R * 0 = 0
  BY <1>1
<1> HIDE DEF d, i
<1>7. R * d \in Int /\ R * d = d * R
  BY <1>1, <1>3, SMT
<1>8. d \in 0 .. e - 1 /\ i \in 0 .. R - 1
  BY <1>1, <1>2, <1>3, <1>4, <1>5, <1>6
<1>9. QED
  BY <1>3, <1>7, <1>8 DEF d, i, R, e

(* The page of an entry has that entry, and no other.                      *)
LEMMA EntryUnique ==
  ASSUME Byte = 8, NEW d \in 0 .. NR_PDE - 1, NEW i \in 0 .. NR_PTE - 1
  PROVE  LET n == (d * NR_PTE) + i
         IN n \in Pages /\ n \div NR_PTE = d /\ n % NR_PTE = i
<1> DEFINE R == NR_PTE
           e == NR_PDE
           y == d * R
           n == y + i
<1>1. R \in Int /\ R > 0 /\ e \in Int /\ e > 0
  BY InPagesHolds DEF InPages
<1>2. d \in Int /\ d >= 0 /\ d < e /\ i \in Int /\ i >= 0 /\ i < R
  BY <1>1
<1> HIDE DEF R, e
<1>3. y \in Int /\ y = R * d /\ e * R = R * e /\ e * R \in Int
  BY <1>1, <1>2, SMT
<1> HIDE DEF y
<1>4. n \in Int /\ n = (R * d) + i
  BY <1>2, <1>3
<1> HIDE DEF n
<1>5. n \div R = d /\ n % R = i
  BY ONLY <1>1, <1>2, <1>4, ModUnique
<1>6. n < R * e <=> d < e
  BY ONLY <1>1, <1>2, <1>4, <1>5, QuotientBelow
<1>7. n < R * 0 <=> d < 0
  BY ONLY <1>1, <1>2, <1>4, <1>5, QuotientBelow, 0 \in Int
<1>8. R * 0 = 0
  BY <1>1
<1>9. n \in 0 .. (e * R) - 1
  BY <1>2, <1>3, <1>4, <1>6, <1>7, <1>8
<1>10. QED
  BY <1>5, <1>9 DEF n, y, R, e, Pages

(* The tables of the kernel's directory: memory at 0 and at KOFFSET.       *)
LEMMA KernelTables ==
  ASSUME Byte = 8
  PROVE  /\ init_page \in Directories
         /\ \A n \in Pages :
              At(init_page, n) = IF n < MemoryPages THEN n
                                 ELSE IF n \in UserPages .. UserPages + MemoryPages - 1 THEN n - UserPages
                                 ELSE NotPresent
<1> DEFINE R == NR_PTE
           e == NR_PDE
           h == PHY_MEM \div PT_SIZE
           k == PdeOf(KOFFSET)
           u == UserPages
           m == MemoryPages
           T(t) == [i \in 0 .. R - 1 |-> (t * R) + i]
           kt == [t \in 0 .. h - 1 |-> T(t)]
           D(d) == IF d \in 0 .. h - 1 THEN T(d) ELSE IF d - k \in 0 .. h - 1 THEN T(d - k) ELSE NoTable
<1>1. R \in Int /\ R > 0 /\ e \in Int /\ e > 0 /\ h \in Nat /\ k \in Nat /\ u \in Nat /\ m \in Nat
      /\ u = R * k /\ m = R * h /\ m <= u
  BY InPagesHolds DEF InPages
<1>2. init_page = [d \in 0 .. e - 1 |-> D(d)]
  <2>1. \A d : d \in DOMAIN kt <=> d \in 0 .. h - 1
    OBVIOUS
  <2>2. \A d \in 0 .. h - 1 : kt[d] = T(d)
    OBVIOUS
  <2>3. init_page = [d \in 0 .. e - 1 |-> IF d \in DOMAIN kt THEN kt[d]
                                         ELSE IF d - k \in DOMAIN kt THEN kt[d - k] ELSE NoTable]
    BY DEF init_page
  <2> HIDE DEF kt, T
  <2>4. QED
    BY <2>1, <2>2, <2>3
<1> HIDE DEF h, k, u, m, R, e
<1>3. ASSUME NEW t \in Int PROVE T(t) \in [0 .. R - 1 -> Int]
  <2>1. t * R \in Int
    BY <1>1, SMT
  <2>2. QED
    BY <1>1, <2>1
<1>4. NoTable \in [0 .. R - 1 -> Int]
  BY DEF NoTable, NotPresent, R
<1>5. \A d \in 0 .. e - 1 : D(d) \in [0 .. R - 1 -> Int]
  <2> SUFFICES ASSUME NEW d \in 0 .. e - 1 PROVE D(d) \in [0 .. R - 1 -> Int]
    OBVIOUS
  <2>1. d \in Int /\ d - k \in Int
    BY <1>1
  <2>2. T(d) \in [0 .. R - 1 -> Int] /\ T(d - k) \in [0 .. R - 1 -> Int]
    BY <1>3, <2>1
  <2> HIDE DEF T
  <2>3. QED
    BY <1>4, <2>2
<1>6. init_page \in Directories
  <2> HIDE DEF D
  <2>1. QED
    BY <1>2, <1>5 DEF Directories, R, e
<1>7. ASSUME NEW n \in Pages
      PROVE  At(init_page, n) = IF n < m THEN n ELSE IF n \in u .. u + m - 1 THEN n - u ELSE NotPresent
  <2> DEFINE d == n \div R
             i == n % R
  <2>1. d \in 0 .. e - 1 /\ i \in 0 .. R - 1 /\ n = (d * R) + i /\ n \in Int
    BY EntryIs DEF R, e, Pages
  <2>2. At(init_page, n) = D(d)[i]
    <3>1. At(init_page, n) = init_page[d][i]
      BY DEF At, R
    <3> HIDE DEF d, i, D
    <3>2. QED
      BY <1>2, <2>1, <3>1
  <2>3. n < R * h <=> d < h
    BY ONLY <1>1, <2>1, QuotientBelow
  <2>4. n < R * k <=> d < k
    BY ONLY <1>1, <2>1, QuotientBelow
  <2>5. n < R * (k + h) <=> d < k + h
    <3>1. k + h \in Int
      BY <1>1
    <3>2. QED
      BY ONLY <1>1, <2>1, <3>1, QuotientBelow
  <2> HIDE DEF d, i
  <2>6. R * (k + h) = u + m
    BY <1>1, SMT
  <2>7. d \in Int /\ i \in Int /\ d >= 0 /\ (n < m <=> d < h) /\ (n < u <=> d < k) /\ (n < u + m <=> d < k + h)
    BY <1>1, <2>1, <2>3, <2>4, <2>5, <2>6
  <2>8. CASE n < m
    <3>1. d \in 0 .. h - 1 /\ T(d)[i] = n
      BY <1>1, <2>1, <2>7, <2>8
    <3> HIDE DEF T
    <3>2. QED
      BY <2>2, <2>8, <3>1
  <2>9. CASE n \in u .. u + m - 1
    <3>1. d - k \in 0 .. h - 1 /\ d \notin 0 .. h - 1 /\ ~(n < m)
      BY <1>1, <2>1, <2>7, <2>9
    <3>2. (d - k) * R = (d * R) - u /\ d * R \in Int
      <4>1. (d - k) * R = (d * R) - (R * k) /\ d * R \in Int
        BY <1>1, <2>7, SMT
      <4>2. QED
        BY <1>1, <4>1
    <3>3. T(d - k)[i] = n - u
      BY <1>1, <2>1, <2>7, <3>2
    <3> HIDE DEF T
    <3>4. QED
      BY <2>2, <2>9, <3>1, <3>3
  <2>10. CASE ~(n < m) /\ n \notin u .. u + m - 1
    <3>1. d \notin 0 .. h - 1 /\ d - k \notin 0 .. h - 1
      BY <1>1, <2>1, <2>7, <2>10
    <3>2. NoTable[i] = NotPresent
      BY <2>1 DEF NoTable, R
    <3> HIDE DEF T
    <3>3. QED
      BY <2>2, <2>10, <3>1, <3>2
  <2>11. QED
    BY <2>8, <2>9, <2>10
<1>8. QED
  BY <1>6, <1>7 DEF m, u

(* A program begins without pages of its own.                              *)
LEMMA FirstTables ==
  ASSUME Byte = 8
  PROVE  /\ init_mm \in Directories
         /\ \A n \in Pages : At(init_mm, n) = IF n < UserPages THEN NotPresent ELSE At(init_page, n)
<1> DEFINE R == NR_PTE
           e == NR_PDE
           k == PdeOf(KOFFSET)
<1>1. init_mm = [d \in 0 .. e - 1 |-> IF d < k THEN NoTable ELSE init_page[d]]
  BY DEF init_mm
<1>2. NoTable \in [0 .. R - 1 -> Int] /\ \A i \in 0 .. R - 1 : NoTable[i] = NotPresent
  BY DEF NoTable, NotPresent
<1>3. init_page \in [0 .. e - 1 -> [0 .. R - 1 -> Int]]
  BY KernelTables DEF Directories
<1>4. R \in Int /\ R > 0 /\ e \in Int /\ k \in Nat /\ UserPages = R * k
  BY InPagesHolds DEF InPages
<1> HIDE DEF k, e, R
<1>5. init_mm \in Directories
  BY <1>1, <1>2, <1>3 DEF Directories, e, R
<1>6. ASSUME NEW n \in Pages
      PROVE  At(init_mm, n) = IF n < UserPages THEN NotPresent ELSE At(init_page, n)
  <2> DEFINE d == n \div R
             i == n % R
  <2>1. d \in 0 .. e - 1 /\ i \in 0 .. R - 1 /\ n \in Int
    BY EntryIs DEF R, e, Pages
  <2>2. n < R * k <=> d < k
    BY ONLY <1>4, <2>1, QuotientBelow, k \in Int
  <2>3. At(init_mm, n) = init_mm[d][i] /\ At(init_page, n) = init_page[d][i]
    BY DEF At, R
  <2> HIDE DEF d, i
  <2>4. QED
    BY <1>1, <1>2, <1>4, <2>1, <2>2, <2>3
<1>7. QED
  BY <1>5, <1>6

(* Members of a set of integers, counted from below.                       *)
Below(A, n) == Cardinality({p \in A : p < n})

(* Of two members, the lower one has fewer below it.                       *)
LEMMA Counted ==
  ASSUME NEW A \in SUBSET Int, IsFiniteSet(A)
  PROVE  /\ Cardinality(A) \in Nat
         /\ \A n \in A : Below(A, n) \in 0 .. Cardinality(A) - 1
         /\ \A n, q \in A : n < q => Below(A, n) < Below(A, q)
<1> DEFINE T(n) == {p \in A : p < n}
<1>1. Cardinality(A) \in Nat
  BY FS_CardinalityType
<1>2. ASSUME NEW n \in A PROVE IsFiniteSet(T(n)) /\ Cardinality(T(n)) \in Nat /\ n \notin T(n)
  <2>1. T(n) \in SUBSET A /\ n \notin T(n)
    OBVIOUS
  <2> HIDE DEF T
  <2>2. IsFiniteSet(T(n))
    BY <2>1, FS_Subset
  <2>3. QED
    BY <2>1, <2>2, FS_CardinalityType
<1>3. ASSUME NEW n \in A, NEW C, IsFiniteSet(C), T(n) \subseteq C, n \in C
      PROVE  Cardinality(T(n)) < Cardinality(C)
  <2> DEFINE V == T(n) \cup {n}
  <2>1. Cardinality(V) = Cardinality(T(n)) + 1
    BY <1>2, FS_AddElement
  <2>2. V \in SUBSET C
    BY <1>3
  <2> HIDE DEF V
  <2>3. Cardinality(V) <= Cardinality(C)
    BY <1>3, <2>2, FS_Subset
  <2>4. Cardinality(C) \in Nat
    BY <1>3, FS_CardinalityType
  <2>5. Cardinality(T(n)) \in Nat
    BY <1>2
  <2> HIDE DEF T
  <2>6. QED
    BY <2>1, <2>3, <2>4, <2>5
<1>4. \A n \in A : Cardinality(T(n)) \in 0 .. Cardinality(A) - 1
  <2> SUFFICES ASSUME NEW n \in A PROVE Cardinality(T(n)) \in 0 .. Cardinality(A) - 1
    OBVIOUS
  <2>1. T(n) \subseteq A
    OBVIOUS
  <2>2. Cardinality(T(n)) < Cardinality(A)
    BY <1>3, <2>1
  <2> HIDE DEF T
  <2>3. QED
    BY <1>1, <1>2, <2>2
<1>5. ASSUME NEW n \in A, NEW q \in A, n < q PROVE Cardinality(T(n)) < Cardinality(T(q))
  <2>1. T(n) \subseteq T(q) /\ n \in T(q)
    <3>1. n \in Int /\ q \in Int /\ n \in T(q)
      BY <1>5
    <3>2. ASSUME NEW p \in A, p < n PROVE p < q
      <4>1. p \in Int
        OBVIOUS
      <4>2. QED
        BY ONLY <1>5, <3>1, <3>2, <4>1
    <3>3. QED
      BY <3>1, <3>2
  <2>2. IsFiniteSet(T(q))
    BY <1>2
  <2> HIDE DEF T
  <2>3. QED
    BY <1>3, <2>1, <2>2
<1>6. QED
  BY <1>1, <1>4, <1>5 DEF Below

(* Spaces, and the pages that mm_malloc adds to one.                       *)
Memories == [0 .. PHY_MEM - 1 -> 0 .. 2^Byte - 1]
Screens == [0 .. VideoLen - 1 -> 0 .. 2^Byte - 1]
Spaces == [updir : Directories, pf : Nat, brk : Nat, mem : Memories, screen : Screens]

NewPages(s, vaddr, size) ==
  {n \in PageOf(vaddr) .. PageOf(vaddr + size - 1) : At(s.updir, n) = NotPresent}

(* Pages below KOFFSET are pages of the directory, found by any address in *)
(* them.                                                                   *)
LEMMA UserArea ==
  ASSUME Byte = 8, NEW vaddr \in Nat, NEW size \in Nat, size > 0, vaddr + size <= KOFFSET
  PROVE  /\ PageOf(vaddr) \in Nat /\ PageOf(vaddr + size - 1) \in Nat
         /\ PageOf(vaddr) <= PageOf(vaddr + size - 1) /\ PageOf(vaddr + size - 1) < UserPages
         /\ PageOf(vaddr) .. PageOf(vaddr + size - 1) \subseteq Pages
         /\ \A l \in vaddr .. vaddr + size - 1 : PageOf(l) \in PageOf(vaddr) .. PageOf(vaddr + size - 1)
<1> DEFINE z == vaddr + size - 1
<1>1. z \in Nat /\ vaddr <= z /\ z < KOFFSET /\ vaddr \in Nat
  <2>1. KOFFSET \in Nat
    BY PagingAssumption
  <2>2. QED
    BY <2>1
<1>2. \A l \in vaddr .. vaddr + size - 1 : l \in Nat /\ vaddr <= l /\ l <= z
  BY <1>1
<1> HIDE DEF z
<1>3. ASSUME NEW l \in Nat, NEW k \in Nat, l <= k PROVE PageOf(l) <= PageOf(k)
  <2> DEFINE X == PageOf(k) + 1
  <2>1. PageOf(l) \in Nat /\ PageOf(k) \in Nat /\ X \in Int
    BY PageIs
  <2>2. (k < Page * X <=> PageOf(k) < X) /\ (l < Page * X <=> PageOf(l) < X)
    BY <2>1, PageBelow
  <2>3. Page * X \in Int
    BY <2>1, InPagesHolds, Grows DEF InPages
  <2>4. k < Page * X
    BY <2>1, <2>2
  <2>5. l < Page * X
    BY <1>3, <2>3, <2>4
  <2>6. QED
    BY <2>1, <2>2, <2>5
<1>4. PageOf(z) < UserPages
  BY <1>1, InPagesHolds, PageBelow DEF InPages
<1>5. PageOf(vaddr) \in Nat /\ PageOf(z) \in Nat /\ PageOf(vaddr) <= PageOf(z)
  BY <1>1, <1>3, PageIs
<1>6. UserPages \in Nat /\ MemoryPages \in Nat /\ UserPages + MemoryPages <= NR_PDE * NR_PTE /\ NR_PDE * NR_PTE \in Int
  BY InPagesHolds DEF InPages
<1> DEFINE w == NR_PDE * NR_PTE
<1>7. w \in Int /\ UserPages <= w
  BY <1>6
<1> HIDE DEF w
<1>8. PageOf(vaddr) .. PageOf(z) \subseteq 0 .. w - 1
  BY <1>4, <1>5, <1>6, <1>7
<1>9. \A l \in vaddr .. vaddr + size - 1 : PageOf(l) \in PageOf(vaddr) .. PageOf(z)
  <2> SUFFICES ASSUME NEW l \in vaddr .. vaddr + size - 1 PROVE PageOf(l) \in PageOf(vaddr) .. PageOf(z)
    OBVIOUS
  <2>1. PageOf(l) \in Nat /\ PageOf(vaddr) <= PageOf(l) /\ PageOf(l) <= PageOf(z)
    BY <1>1, <1>2, <1>3, PageIs
  <2>2. QED
    BY <1>5, <2>1
<1>10. QED
  BY <1>4, <1>5, <1>8, <1>9 DEF z, w, Pages

(* mm_malloc gives the new pages the next frames, in order, and leaves the *)
(* others alone.                                                           *)
LEMMA MallocIs ==
  ASSUME Byte = 8, NEW s \in Spaces, NEW vaddr \in Nat, NEW size \in Nat, size > 0, vaddr + size <= KOFFSET
  PROVE  LET new == NewPages(s, vaddr, size)
             out == mm_malloc(s, vaddr, size)
         IN /\ new \in SUBSET Int /\ IsFiniteSet(new)
            /\ out \in Spaces /\ out.pf = s.pf + Cardinality(new)
            /\ out.brk = s.brk /\ out.mem = s.mem /\ out.screen = s.screen
            /\ \A n \in Pages : At(out.updir, n) = IF n \in new THEN s.pf + Below(new, n) ELSE At(s.updir, n)
<1> DEFINE new == NewPages(s, vaddr, size)
           out == mm_malloc(s, vaddr, size)
           first == PageOf(vaddr)
           last_ == PageOf(vaddr + size - 1)
           FrameOf(n) == s.pf + Below(new, n)
           dir == [d \in DOMAIN s.updir |-> [i \in DOMAIN s.updir[d] |->
                    IF (d * NR_PTE) + i \in new THEN FrameOf((d * NR_PTE) + i) ELSE s.updir[d][i]]]
<1>1. /\ first \in Nat /\ last_ \in Nat /\ first .. last_ \subseteq Pages
  BY UserArea
<1>2. new \in SUBSET Int /\ IsFiniteSet(new)
  <2>1. IsFiniteSet(first .. last_) /\ new \in SUBSET (first .. last_)
    <3>1. first \in Int /\ last_ \in Int
      BY <1>1
    <3>2. new \in SUBSET (first .. last_)
      BY DEF NewPages
    <3>3. QED
      BY <3>1, <3>2, FS_Interval
  <2>2. first .. last_ \subseteq Int
    OBVIOUS
  <2> HIDE DEF new, first, last_
  <2>3. new \in SUBSET Int
    BY <2>1, <2>2
  <2>4. QED
    BY <2>1, <2>3, FS_Subset
<1>3. {n \in vaddr \div Page .. (vaddr + size - 1) \div Page : Frame(s.updir, n * Page) = NotPresent} = new
  <2>1. ASSUME NEW n \in first .. last_ PROVE Frame(s.updir, n * Page) = At(s.updir, n)
    <3>1. n \in Nat /\ Page \in Int /\ Page > 0
      BY <1>1, InPagesHolds DEF InPages
    <3> DEFINE l == n * Page
    <3>2. l \in Int /\ l = (Page * n) + 0 /\ Page * n = l
      BY <3>1, SMT
    <3>3. Page * 0 <= Page * n /\ Page * 0 = 0
      BY <3>1, Grows
    <3> HIDE DEF l
    <3>4. l \in Nat /\ 0 \in 0 .. Page - 1
      BY <3>1, <3>2, <3>3
    <3>5. PageOf(l) = n
      BY <3>1, <3>2, <3>4, PageUnique
    <3>6. QED
      BY <3>4, <3>5, PageIs DEF l
  <2>2. QED
    BY <2>1 DEF NewPages, PageOf
<1>4. /\ s.updir \in Directories /\ s.pf \in Nat /\ s.brk \in Nat /\ s.mem \in Memories /\ s.screen \in Screens
      /\ s = [updir |-> s.updir, pf |-> s.pf, brk |-> s.brk, mem |-> s.mem, screen |-> s.screen]
  BY DEF Spaces
<1>5. out = [s EXCEPT !.pf = @ + Cardinality(new), !.updir = dir]
  <2> HIDE DEF new
  <2>1. QED
    BY <1>3 DEF mm_malloc, Below
<1>6. dir \in Directories
  <2> HIDE DEF new
  <2>1. ASSUME NEW n \in new PROVE FrameOf(n) \in Int
    BY <1>2, <1>4, <2>1, Counted
  <2>2. DOMAIN s.updir = 0 .. NR_PDE - 1 /\ \A d \in 0 .. NR_PDE - 1 : DOMAIN s.updir[d] = 0 .. NR_PTE - 1
        /\ \A i \in 0 .. NR_PTE - 1 : s.updir[d][i] \in Int
    BY <1>4 DEF Directories
  <2> HIDE DEF FrameOf
  <2>3. QED
    BY <2>1, <2>2 DEF Directories
<1>7. ASSUME NEW n \in Pages PROVE At(dir, n) = IF n \in new THEN FrameOf(n) ELSE At(s.updir, n)
  <2> DEFINE d == n \div NR_PTE
             i == n % NR_PTE
  <2>1. d \in 0 .. NR_PDE - 1 /\ i \in 0 .. NR_PTE - 1 /\ n = (d * NR_PTE) + i
    BY EntryIs
  <2>2. At(dir, n) = dir[d][i] /\ At(s.updir, n) = s.updir[d][i]
    BY DEF At
  <2> HIDE DEF new, FrameOf, d, i
  <2>3. DOMAIN s.updir = 0 .. NR_PDE - 1 /\ DOMAIN s.updir[d] = 0 .. NR_PTE - 1
    BY <1>4, <2>1 DEF Directories
  <2>4. dir[d][i] = IF n \in new THEN FrameOf(n) ELSE s.updir[d][i]
    BY <2>1, <2>3
  <2>5. QED
    BY <2>2, <2>4
<1>8. Cardinality(new) \in Nat
  BY <1>2, FS_CardinalityType
<1> HIDE DEF dir, new
<1>9. out = [updir |-> dir, pf |-> s.pf + Cardinality(new), brk |-> s.brk, mem |-> s.mem, screen |-> s.screen]
  BY <1>4, <1>5
<1> HIDE DEF out
<1>10. s.pf + Cardinality(new) \in Nat
  BY <1>4, <1>8
<1>11. out \in Spaces
  BY <1>4, <1>6, <1>9, <1>10 DEF Spaces
<1>12. out.updir = dir /\ out.pf = s.pf + Cardinality(new) /\ out.brk = s.brk /\ out.mem = s.mem /\ out.screen = s.screen
  BY <1>9
<1>13. \A n \in Pages : At(out.updir, n) = IF n \in new THEN s.pf + Below(new, n) ELSE At(s.updir, n)
  BY <1>7, <1>12
<1>14. QED
  BY <1>2, <1>11, <1>12, <1>13 DEF new, out

(* Pages of a program have frames of their own, above the kernel's; those  *)
(* at KOFFSET are the kernel's.                                            *)
Own == NR_PTE .. UserPages - 1
Placed(s) ==
  /\ KernelPages <= s.pf /\ s.pf <= MemoryPages
  /\ \A n \in Own : At(s.updir, n) = NotPresent \/ At(s.updir, n) \in KernelPages .. s.pf - 1
  /\ \A n, q \in Own : At(s.updir, n) = At(s.updir, q) /\ At(s.updir, n) # NotPresent => n = q
  /\ \A n \in Pages : n >= UserPages => At(s.updir, n) = At(init_page, n)

(* What mm_malloc leaves behind, for an area above the first table.        *)
Extended(s, out, vaddr, size) ==
  /\ out \in Spaces /\ Placed(out) /\ s.pf <= out.pf
  /\ out.brk = s.brk /\ out.mem = s.mem /\ out.screen = s.screen
  /\ \A n \in Pages : At(s.updir, n) # NotPresent => At(out.updir, n) = At(s.updir, n)
  /\ \A n \in Pages : n \notin PageOf(vaddr) .. PageOf(vaddr + size - 1) => At(out.updir, n) = At(s.updir, n)
  /\ \A n \in PageOf(vaddr) .. PageOf(vaddr + size - 1) : At(out.updir, n) # NotPresent

(* mm_malloc keeps a space so, when it has frames left.                    *)
LEMMA MallocExtends ==
  ASSUME Byte = 8, NEW s \in Spaces, Placed(s), NEW vaddr \in Nat, NEW size \in Nat,
         vaddr >= PT_SIZE, size > 0, vaddr + size <= KOFFSET, HasMemory(mm_malloc(s, vaddr, size))
  PROVE  Extended(s, mm_malloc(s, vaddr, size), vaddr, size)
<1> DEFINE new == NewPages(s, vaddr, size)
           out == mm_malloc(s, vaddr, size)
           first == PageOf(vaddr)
           last_ == PageOf(vaddr + size - 1)
           c == Cardinality(new)
           p == s.pf
           D(n) == At(s.updir, n)
           O(n) == At(out.updir, n)
           B(n) == Below(new, n)
           K == KernelPages
           M == MemoryPages
<1>1. /\ new \in SUBSET Int /\ IsFiniteSet(new)
      /\ out \in Spaces /\ out.pf = p + c
      /\ out.brk = s.brk /\ out.mem = s.mem /\ out.screen = s.screen
      /\ \A n \in Pages : O(n) = IF n \in new THEN p + B(n) ELSE D(n)
  BY MallocIs
<1>2. c \in Nat /\ (\A n \in new : B(n) \in 0 .. c - 1) /\ \A n, q \in new : n < q => B(n) < B(q)
  BY <1>1, Counted
<1>3. p \in Nat /\ K <= p /\ p <= M /\ K \in Nat /\ M \in Nat
  BY InPagesHolds DEF Spaces, Placed, InPages
<1>4. /\ first .. last_ \subseteq Pages /\ first \in Nat /\ last_ \in Nat /\ last_ < UserPages /\ first <= last_
  BY UserArea
<1>5. first >= NR_PTE /\ NR_PTE \in Nat /\ UserPages \in Nat
  <2>1. PT_SIZE = Page * NR_PTE /\ NR_PTE \in Int /\ NR_PTE > 0 /\ PT_SIZE \in Int /\ UserPages \in Nat
    BY InPagesHolds DEF InPages
  <2>2. vaddr < Page * NR_PTE <=> first < NR_PTE
    BY <2>1, PageBelow
  <2>3. QED
    BY <1>4, <2>1, <2>2
<1>6. p + c <= M
  <2>1. Page \in Int /\ Page > 0 /\ PHY_MEM = Page * M
    BY InPagesHolds DEF InPages
  <2>2. (p + c) * Page <= PHY_MEM
    BY <1>1 DEF HasMemory
  <2> DEFINE t == p + c
  <2>3. t \in Int
    BY <1>2, <1>3
  <2> HIDE DEF t
  <2>4. t * Page = Page * t
    BY <2>1, <2>3, SMT
  <2>5. t <= M <=> Page * t <= Page * M
    BY <1>3, <2>1, <2>3, Grows
  <2>6. QED
    BY <2>1, <2>2, <2>4, <2>5 DEF t
<1>7. \A n \in new : n \in first .. last_ /\ D(n) = NotPresent /\ n \in Own
  BY <1>4, <1>5 DEF NewPages, Own
<1>8. \A n \in first .. last_ : D(n) = NotPresent => n \in new
  BY DEF NewPages
<1>9. NotPresent = -1
  BY DEF NotPresent
<1>10. /\ \A n \in Own : D(n) = NotPresent \/ D(n) \in K .. p - 1
       /\ \A n, q \in Own : D(n) = D(q) /\ D(n) # NotPresent => n = q
       /\ \A n \in Pages : n >= UserPages => D(n) = At(init_page, n)
  BY DEF Placed
<1>11. Own \subseteq Pages /\ Own \subseteq Int
  <2> DEFINE w == NR_PDE * NR_PTE
  <2>1. w \in Int /\ UserPages <= w
    BY InPagesHolds DEF InPages
  <2> HIDE DEF w
  <2>2. Own \subseteq 0 .. w - 1
    BY <1>5, <2>1 DEF Own
  <2>3. QED
    BY <1>5, <2>2 DEF w, Pages, Own
<1> HIDE DEF new, out, first, last_, c, p, D, O, B, K, M
<1>12. \A n \in new : p + B(n) \in p .. (p + c) - 1 /\ p + B(n) # NotPresent
  BY <1>2, <1>3, <1>9
<1>13. \A n \in Own : O(n) = NotPresent \/ O(n) \in K .. (p + c) - 1
  <2> SUFFICES ASSUME NEW n \in Own, O(n) # NotPresent PROVE O(n) \in K .. (p + c) - 1
    OBVIOUS
  <2>1. CASE n \in new
    BY <1>1, <1>3, <1>11, <1>12, <2>1
  <2>2. CASE n \notin new
    <3>1. O(n) \in K .. p - 1
      BY <1>1, <1>10, <1>11, <2>2
    <3>2. QED
      BY <1>2, <1>3, <3>1
  <2>3. QED
    BY <2>1, <2>2
<1>14. \A n, q \in Own : O(n) = O(q) /\ O(n) # NotPresent => n = q
  <2> SUFFICES ASSUME NEW n \in Own, NEW q \in Own, O(n) = O(q), O(n) # NotPresent PROVE n = q
    OBVIOUS
  <2>1. n \in Pages /\ q \in Pages /\ n \in Int /\ q \in Int
    BY <1>11
  <2>2. CASE n \in new /\ q \in new
    <3>1. B(n) = B(q) /\ B(n) \in Int /\ B(q) \in Int
      <4>1. p + B(n) = p + B(q) /\ B(n) \in Int /\ B(q) \in Int
        BY <1>1, <1>2, <2>1, <2>2
      <4>2. QED
        BY <1>3, <4>1
    <3>2. ~(n < q) /\ ~(q < n)
      BY <1>2, <2>2, <3>1
    <3>3. QED
      BY <2>1, <3>2
  <2>3. ASSUME NEW x \in Own, NEW y \in Own, x \in new, y \notin new, O(x) = O(y) PROVE FALSE
    <3>1. O(x) \in p .. (p + c) - 1 /\ O(x) # NotPresent
      BY <1>1, <1>11, <1>12, <2>3
    <3>2. O(y) = NotPresent \/ O(y) \in K .. p - 1
      BY <1>1, <1>10, <1>11, <2>3
    <3>3. QED
      BY <1>3, <2>3, <3>1, <3>2
  <2>4. CASE n \notin new /\ q \notin new
    BY <1>1, <1>10, <2>1, <2>4
  <2>5. QED
    BY <2>2, <2>3, <2>4
<1>15. \A n \in Pages : n >= UserPages => O(n) = At(init_page, n)
  <2> SUFFICES ASSUME NEW n \in Pages, n >= UserPages PROVE O(n) = At(init_page, n)
    OBVIOUS
  <2>1. n \notin Own
    BY <1>5 DEF Own
  <2>2. QED
    BY <1>1, <1>7, <1>10, <2>1
<1>16. Placed(out)
  BY <1>1, <1>2, <1>3, <1>6, <1>13, <1>14, <1>15 DEF Placed, O, K, M
<1>17. \A n \in Pages : D(n) # NotPresent => O(n) = D(n)
  BY <1>1, <1>7
<1>18. \A n \in Pages : n \notin first .. last_ => O(n) = D(n)
  BY <1>1, <1>7
<1>19. \A n \in first .. last_ : O(n) # NotPresent
  BY <1>1, <1>4, <1>8, <1>12
<1>20. s.pf <= out.pf
  BY <1>1, <1>2, <1>3 DEF p
<1>21. QED
  BY <1>1, <1>16, <1>17, <1>18, <1>19, <1>20 DEF Extended, O, D, out, first, last_

(* An interval is counted by differences.                                  *)
LEMMA IntervalCounted ==
  ASSUME NEW a \in Int, NEW b \in Int, a <= b + 1
  PROVE  Cardinality(a .. b) = (b - a) + 1 /\ \A n \in a .. b : Below(a .. b, n) = n - a
<1>1. Cardinality(a .. b) = (b - a) + 1
  <2>1. Cardinality(a .. b) = IF a > b THEN 0 ELSE (b - a) + 1
    BY FS_Interval
  <2>2. a > b => (b - a) + 1 = 0
    OBVIOUS
  <2>3. QED
    BY <2>1, <2>2
<1>2. ASSUME NEW n \in a .. b PROVE Below(a .. b, n) = n - a
  <2>1. {p \in a .. b : p < n} = a .. n - 1
    OBVIOUS
  <2>2. n - 1 \in Int /\ ~(a > n)
    OBVIOUS
  <2>3. Cardinality(a .. n - 1) = IF a > n - 1 THEN 0 ELSE ((n - 1) - a) + 1
    BY <2>2, FS_Interval
  <2>4. Cardinality(a .. n - 1) = n - a
    BY <2>2, <2>3
  <2>5. QED
    BY <2>1, <2>4 DEF Below
<1>3. QED
  BY <1>1, <1>2

(* While the segments are loaded, nothing is mapped behind the last of     *)
(* them, and its last page, if it has one, has the last frame.             *)
Topped(s, top) ==
  /\ At(s.updir, top) \in {NotPresent, s.pf - 1}
  /\ \A n \in top + 1 .. UserPages - 1 : At(s.updir, n) = NotPresent

(* So that the frames of the next one follow each other.                   *)
LEMMA FramesFollow ==
  ASSUME Byte = 8, NEW s \in Spaces, NEW vaddr \in Nat, NEW size \in Nat, size > 0, vaddr + size <= KOFFSET,
         NEW top \in Nat, top <= PageOf(vaddr), Topped(s, top)
  PROVE  LET out == mm_malloc(s, vaddr, size)
         IN /\ Topped(out, PageOf(vaddr + size - 1))
            /\ \A n \in PageOf(vaddr) .. PageOf(vaddr + size - 1) :
                 At(out.updir, n) = At(out.updir, PageOf(vaddr)) + (n - PageOf(vaddr))
<1> DEFINE new == NewPages(s, vaddr, size)
           out == mm_malloc(s, vaddr, size)
           first == PageOf(vaddr)
           last_ == PageOf(vaddr + size - 1)
           c == Cardinality(new)
           p == s.pf
           D(n) == At(s.updir, n)
           O(n) == At(out.updir, n)
           B(n) == Below(new, n)
           u == UserPages
<1>1. out.pf = p + c /\ \A n \in Pages : O(n) = IF n \in new THEN p + B(n) ELSE D(n)
  BY MallocIs
<1>2. /\ first .. last_ \subseteq Pages /\ first \in Nat /\ last_ \in Nat /\ last_ < u /\ first <= last_
  BY UserArea
<1>3. p \in Nat /\ u \in Nat
  BY InPagesHolds DEF Spaces, InPages
<1>4. new = {n \in first .. last_ : D(n) = NotPresent}
  BY DEF NewPages
<1>5. D(top) \in {NotPresent, p - 1} /\ \A n \in top + 1 .. u - 1 : D(n) = NotPresent
  BY DEF Topped
<1>6. top + 1 .. u - 1 \subseteq Pages
  <2> DEFINE w == NR_PDE * NR_PTE
  <2>1. w \in Int /\ u <= w
    BY <1>3, InPagesHolds DEF InPages
  <2> HIDE DEF w, u
  <2>2. top + 1 .. u - 1 \subseteq 0 .. w - 1
    BY <1>3, <2>1
  <2>3. QED
    BY <2>2 DEF w, Pages
<1> HIDE DEF u, new, out, first, last_, p, D, O
<1>7. ASSUME NEW a \in first .. first + 1, new = a .. last_, a = first + 1 => D(first) = p - 1 /\ first = top
      PROVE  /\ c = (last_ - a) + 1
             /\ \A n \in first .. last_ : O(n) = p + (n - a)
             /\ \A n \in last_ + 1 .. u - 1 : O(n) = NotPresent
  <2>1. c = (last_ - a) + 1 /\ \A n \in a .. last_ : B(n) = n - a
    <3>1. a \in Int /\ last_ \in Int /\ a <= last_ + 1
      BY <1>2
    <3>2. QED
      BY <1>7, <3>1, IntervalCounted
  <2> HIDE DEF B, c
  <2>2. ASSUME NEW n \in first .. last_ PROVE O(n) = p + (n - a)
    <3>1. CASE n \in a .. last_
      <4>1. n \in Pages /\ O(n) = p + B(n) /\ B(n) = n - a
        BY <1>1, <1>2, <1>7, <2>1, <3>1
      <4>2. QED
        BY <4>1
    <3>2. CASE n \notin a .. last_
      <4>1. n = first /\ a = first + 1 /\ n \notin new
        BY <1>2, <1>7, <3>2
      <4>2. O(n) = p - 1
        BY <1>1, <1>2, <1>7, <4>1
      <4>3. n - a = -1
        BY <1>2, <4>1
      <4>4. QED
        BY <1>3, <4>2, <4>3
    <3>3. QED
      BY <3>1, <3>2
  <2>3. ASSUME NEW n \in last_ + 1 .. u - 1 PROVE O(n) = NotPresent
    <3>1. n \in top + 1 .. u - 1 /\ n \notin new
      <4>1. first >= top /\ n \in Int /\ n > last_ /\ n <= u - 1
        BY <1>2, <1>3 DEF first
      <4>2. QED
        BY <1>2, <1>7, <4>1
    <3>2. QED
      BY <1>1, <1>5, <1>6, <3>1
  <2>4. QED
    BY <2>1, <2>2, <2>3
<1>8. \A n \in first + 1 .. last_ : D(n) = NotPresent
  <2> SUFFICES ASSUME NEW n \in first + 1 .. last_ PROVE D(n) = NotPresent
    OBVIOUS
  <2>1. first >= top
    BY DEF first
  <2>2. n \in top + 1 .. u - 1
    BY <1>2, <1>3, <2>1
  <2>3. QED
    BY <1>5, <2>2
<1>9. PICK a \in first .. first + 1 : new = a .. last_ /\ (a = first + 1 => D(first) = p - 1 /\ first = top)
  <2>1. CASE D(first) = NotPresent
    <3>1. new = first .. last_
      BY <1>2, <1>4, <1>8, <2>1
    <3>2. first \in first .. first + 1 /\ first # first + 1
      BY <1>2
    <3>3. QED
      BY <3>1, <3>2
  <2>2. CASE D(first) # NotPresent
    <3>1. new = first + 1 .. last_
      BY <1>2, <1>4, <1>8, <2>2
    <3>2. first = top
      <4>1. first >= top /\ first <= u - 1
        BY <1>2, <1>3 DEF first
      <4>2. first \notin top + 1 .. u - 1
        BY <1>5, <2>2
      <4>3. QED
        BY <1>2, <1>3, <4>1, <4>2
    <3>3. D(first) = p - 1
      BY <1>5, <2>2, <3>2
    <3>4. first + 1 \in first .. first + 1
      BY <1>2
    <3>5. QED
      BY <3>1, <3>2, <3>3, <3>4
  <2>3. QED
    BY <2>1, <2>2
<1>10. /\ c = (last_ - a) + 1
       /\ \A n \in first .. last_ : O(n) = p + (n - a)
       /\ \A n \in last_ + 1 .. u - 1 : O(n) = NotPresent
  BY <1>7, <1>9
<1>11. O(last_) = out.pf - 1
  <2>1. O(last_) = p + (last_ - a) /\ out.pf = p + ((last_ - a) + 1)
    BY <1>1, <1>2, <1>10
  <2>2. QED
    BY <1>2, <1>3, <2>1
<1>12. \A n \in first .. last_ : O(n) = O(first) + (n - first)
  <2> SUFFICES ASSUME NEW n \in first .. last_ PROVE O(n) = O(first) + (n - first)
    OBVIOUS
  <2>1. O(n) = p + (n - a) /\ O(first) = p + (first - a)
    BY <1>2, <1>10
  <2>2. QED
    BY <1>2, <1>3, <2>1
<1>13. QED
  BY <1>10, <1>11, <1>12 DEF Topped, O, out, first, last_, u

(* Entry 0: nothing, until a program runs and finds its video memory there. *)
ShownPages == VideoPage .. VideoPage + ((Page + SCR_SIZE - 1) \div Page) - 1
FirstTable(dir, shown) ==
  \A n \in 0 .. NR_PTE - 1 : At(dir, n) = IF shown /\ n \in ShownPages THEN n ELSE NotPresent

(* The screen takes the pages that its bytes are in.                       *)
LEMMA ScreenPages ==
  ASSUME Byte = 8
  PROVE  /\ ShownPages \subseteq Int
         /\ \A i \in 0 .. SCR_SIZE - 1 : VMEM_ADDR + i \in Nat /\ PageOf(VMEM_ADDR + i) \in ShownPages
         /\ \A i \in 0 .. SCR_SIZE - 1 : PageOf(VMEM_ADDR + i) \in 0 .. NR_PTE - 1
<1> DEFINE P == Page
           v == VideoPage
           A == SCR_SIZE
           x == P + (A - 1)
           q == x \div P
           r == x % P
           g == NR_PTE
<1>1. P \in Int /\ P > 0 /\ v \in Nat /\ VMEM_ADDR = P * v /\ g \in Int /\ P * g \in Int /\ PT_SIZE = P * g
  BY InPagesHolds, Grows DEF InPages
<1>2. A \in Int /\ A >= 1 /\ VMEM_ADDR \in Nat /\ VMEM_ADDR + A <= PT_SIZE
  <2>1. VMEM_ADDR \in Nat /\ VideoLen \in Nat /\ A \in 1 .. VideoLen /\ VMEM_ADDR + VideoLen <= PT_SIZE
    BY PagingAssumption
  <2>2. PT_SIZE \in Int
    BY <1>1
  <2> HIDE DEF A
  <2>3. QED
    BY <2>1, <2>2
<1>3. q \in Int /\ r \in Int /\ r >= 0 /\ r < P /\ P + (A - 1) = (P * q) + r
  <2> HIDE DEF P, A
  <2>1. x \in Int
    BY <1>1, <1>2
  <2> HIDE DEF x
  <2>2. q \in Int /\ r \in Int /\ r >= 0 /\ r < P /\ x = (P * q) + r
    BY <1>1, <2>1, ModIs
  <2> HIDE DEF q, r
  <2>3. QED
    BY <2>2 DEF x
<1>6. q = (P + A - 1) \div P
  OBVIOUS
<1> HIDE DEF P, v, A, q, r, g, x
<1>4. ASSUME NEW i \in 0 .. A - 1
      PROVE  VMEM_ADDR + i \in Nat /\ PageOf(VMEM_ADDR + i) \in v .. v + q - 1 /\ PageOf(VMEM_ADDR + i) \in 0 .. g - 1
  <2> DEFINE l == VMEM_ADDR + i
             n == PageOf(l)
  <2>1. l \in Nat /\ i \in Int /\ 0 <= i /\ i < A
    BY <1>2
  <2> HIDE DEF l
  <2>2. n \in Nat
    BY <2>1, PageIs
  <2>3. l < P * v <=> n < v
    BY <1>1, <2>1, PageBelow DEF P
  <2>4. l < P * (v + q) <=> n < v + q
    <3>1. v + q \in Int
      BY <1>1, <1>3
    <3>2. QED
      BY <2>1, <3>1, PageBelow DEF P
  <2>5. l < P * g <=> n < g
    BY <1>1, <2>1, PageBelow DEF P
  <2>6. P * (v + q) = (P * v) + (P * q) /\ P * v \in Int /\ P * q \in Int
    BY <1>1, <1>3, SMT
  <2>7. l < (P * v) + (P * q)
    <3>1. A <= P * q
      BY <1>1, <1>2, <1>3, <2>6
    <3>2. QED
      BY <1>1, <1>2, <2>1, <2>6, <3>1 DEF l
  <2>8. ~(l < P * v) /\ l < P * g
    BY <1>1, <1>2, <2>1 DEF l
  <2>9. n >= v /\ n < v + q /\ n < g
    BY <1>1, <1>3, <2>2, <2>3, <2>4, <2>5, <2>6, <2>7, <2>8
  <2>10. QED
    BY <1>1, <1>3, <2>1, <2>2, <2>9 DEF l
<1>5. v .. v + q - 1 \subseteq Int
  BY <1>1, <1>3
<1>7. ShownPages = v .. v + q - 1
  BY <1>6 DEF ShownPages, v, P, A
<1>8. QED
  BY <1>4, <1>5, <1>7 DEF A, g

(* Mapping video memory fills entry 0 and leaves the others.               *)
LEMMA VideoMapped ==
  ASSUME Byte = 8, NEW dir \in Directories
  PROVE  LET out == create_video_mapping(dir)
         IN /\ out \in Directories /\ FirstTable(out, TRUE)
            /\ \A n \in Pages : n >= NR_PTE => At(out, n) = At(dir, n)
<1> DEFINE R == NR_PTE
           e == NR_PDE
           out == create_video_mapping(dir)
           pages == VMEM_ADDR \div Page .. VMEM_ADDR \div Page + (Page + SCR_SIZE - 1) \div Page - 1
           T == [i \in 0 .. R - 1 |-> IF i \in ShownPages THEN i ELSE NotPresent]
<1>1. R \in Int /\ R > 0 /\ e \in Int /\ e > 0 /\ R <= e * R
  <2>1. R \in Int /\ R > 0 /\ e \in Int /\ e > 0
    BY InPagesHolds DEF InPages
  <2>2. 1 <= e <=> R * 1 <= R * e
    BY <2>1, 1 \in Int, Grows
  <2>3. R * 1 = R /\ R * e = e * R
    BY <2>1, SMT
  <2>4. QED
    BY <2>1, <2>2, <2>3
<1>2. dir \in [0 .. e - 1 -> [0 .. R - 1 -> Int]]
  BY DEF Directories
<1>3. T \in [0 .. R - 1 -> Int]
  BY DEF NotPresent
<1>4. pages = ShownPages
  BY DEF ShownPages, VideoPage
<1>5. out = [dir EXCEPT ![0] = T]
  <2> HIDE DEF pages
  <2>1. DOMAIN NoTable = 0 .. R - 1
    BY DEF NoTable
  <2>2. QED
    BY <1>4, <2>1 DEF create_video_mapping, pages
<1> HIDE DEF T, R, e
<1>6. out \in [0 .. e - 1 -> [0 .. R - 1 -> Int]] /\ out[0] = T /\ \A d \in 0 .. e - 1 : d # 0 => out[d] = dir[d]
  <2> HIDE DEF out
  <2>1. 0 \in 0 .. e - 1
    BY <1>1
  <2>2. QED
    BY <1>2, <1>3, <1>5, <2>1
<1> HIDE DEF out
<1>7. ASSUME NEW n \in 0 .. R - 1 PROVE At(out, n) = IF n \in ShownPages THEN n ELSE NotPresent
  <2>1. n \in Int /\ n >= 0 /\ n < R /\ n = (R * 0) + n
    BY <1>1
  <2>2. n % R = n /\ n \div R = 0
    BY ONLY <1>1, <2>1, 0 \in Int, ModUnique
  <2>3. At(out, n) = out[0][n]
    BY <2>2 DEF At, R
  <2>4. T[n] = IF n \in ShownPages THEN n ELSE NotPresent
    BY DEF T
  <2>5. QED
    BY <1>6, <2>3, <2>4
<1>8. ASSUME NEW n \in Pages, n >= R PROVE At(out, n) = At(dir, n)
  <2> DEFINE d == n \div R
  <2>1. d \in 0 .. e - 1
    BY EntryIs DEF R, e
  <2>2. n < R * 1 <=> d < 1
    <3>1. n \in Int
      BY DEF Pages
    <3>2. QED
      BY ONLY <1>1, <3>1, 1 \in Int, QuotientBelow
  <2> HIDE DEF d
  <2>3. d # 0
    <3>1. R * 1 = R /\ n \in Int
      BY <1>1 DEF Pages
    <3>2. QED
      BY <1>1, <1>8, <2>1, <2>2, <3>1
  <2>4. QED
    BY <1>6, <2>1, <2>3 DEF At, d, R
<1>9. FirstTable(out, TRUE)
  BY <1>7 DEF FirstTable, R
<1>10. QED
  BY <1>6, <1>8, <1>9 DEF out, Directories, R, e

(* Addresses and the pages they are in.                                    *)
LEMMA AddressPages ==
  ASSUME Byte = 8, NEW l \in Addresses
  PROVE  /\ l \in Nat /\ PageOf(l) \in Pages /\ PageOf(l) \in Nat /\ PageOf(l) < UserPages + KernelPages
         /\ (l < KOFFSET <=> PageOf(l) < UserPages) /\ (PdeOf(l) = 0 <=> PageOf(l) < NR_PTE)
<1> DEFINE n == PageOf(l)
           P == Page
           u == UserPages
           k == KernelPages
           w == NR_PDE * NR_PTE
           R == NR_PTE
<1>1. /\ P \in Int /\ P > 0 /\ u \in Nat /\ k \in Nat /\ w \in Int /\ u + k <= w /\ R \in Int /\ R > 0
      /\ KOFFSET = P * u /\ KMEM = P * k
  <2>1. /\ P \in Int /\ P > 0 /\ u \in Nat /\ k \in Nat /\ w \in Int /\ R \in Int /\ R > 0
        /\ KOFFSET = P * u /\ KMEM = P * k
    BY InPagesHolds DEF InPages
  <2>2. k <= MemoryPages /\ MemoryPages \in Nat /\ u + MemoryPages <= w
    BY InPagesHolds DEF InPages
  <2> HIDE DEF P, u, k, w, R
  <2>3. QED
    BY <2>1, <2>2
<1>2. KOFFSET \in Nat /\ KMEM \in Nat
  BY PagingAssumption
<1>3. l \in Nat /\ l < KOFFSET + KMEM
  BY <1>2 DEF Addresses
<1>4. n \in Nat /\ PdeOf(l) = n \div R
  BY <1>3, PageIs
<1> HIDE DEF n, P, u, k, w, R
<1> DEFINE z == u + k
<1>5. P * z = KOFFSET + KMEM /\ z \in Int /\ z <= w
  <2>1. P * z = (P * u) + (P * k)
    BY <1>1, SMT
  <2>2. QED
    BY <1>1, <2>1
<1> HIDE DEF z
<1>6. (l < P * z <=> n < z) /\ (l < P * u <=> n < u)
  BY <1>1, <1>3, <1>5, PageBelow DEF n, P
<1>7. n < z /\ n \in 0 .. w - 1
  BY <1>1, <1>3, <1>4, <1>5, <1>6
<1>8. n < R * 1 <=> n \div R < 1
  BY ONLY <1>1, <1>4, n \in Int, 1 \in Int, QuotientBelow
<1>9. n < R * 0 <=> n \div R < 0
  BY ONLY <1>1, <1>4, n \in Int, 0 \in Int, QuotientBelow
<1>10. n \div R \in Int
  BY <1>1, <1>4, ModIs
<1> DEFINE q == n \div R
<1>11. PdeOf(l) = q /\ q \in Int /\ (n < R * 1 <=> q < 1) /\ (n < R * 0 <=> q < 0)
  BY <1>4, <1>8, <1>9, <1>10
<1> HIDE DEF q
<1>12. R * 1 = R /\ R * 0 = 0
  BY <1>1
<1>13. PdeOf(l) = 0 <=> n < R
  BY <1>1, <1>4, <1>11, <1>12
<1>14. QED
  BY <1>1, <1>3, <1>4, <1>6, <1>7, <1>13 DEF n, u, k, w, R, z, P, Pages

(* Where an address is in memory: in the frame of its page, as far from    *)
(* the beginning as in the page.                                           *)
LEMMA PhysicalIs ==
  ASSUME Byte = 8, NEW dir, NEW l \in Nat, At(dir, PageOf(l)) \in Int
  PROVE  LET f == At(dir, PageOf(l))
             p == Physical(dir, l)
         IN /\ p \in Int /\ p = (Page * f) + (l % Page)
            /\ \A X \in Int : p < Page * X <=> f < X
            /\ \A d \in Int : f = PageOf(l) - d => p = l - (Page * d)
<1> DEFINE P == Page
           f == At(dir, PageOf(l))
           n == PageOf(l)
           r == l % P
           p == Physical(dir, l)
<1>1. P \in Int /\ P > 0
  BY InPagesHolds DEF InPages
<1>2. n \in Int /\ r \in 0 .. P - 1 /\ l = (P * n) + r /\ P * n \in Int /\ Frame(dir, l) = f
  BY PageIs
<1>3. p = (f * P) + r
  BY <1>2 DEF Physical
<1>4. f \in Int
  OBVIOUS
<1> HIDE DEF P, f, n, r, p
<1>5. P * f \in Int /\ f * P = P * f
  BY <1>1, <1>4, SMT
<1>6. p \in Int /\ p = (P * f) + r /\ r \in Int /\ r >= 0 /\ r < P
  BY <1>1, <1>2, <1>3, <1>5
<1>7. p \div P = f
  BY ONLY <1>1, <1>4, <1>6, ModUnique
<1>8. ASSUME NEW X \in Int PROVE p < P * X <=> f < X
  BY <1>1, <1>6, <1>7, QuotientBelow
<1>9. ASSUME NEW d \in Int, f = n - d PROVE p = l - (P * d)
  <2>1. P * f = (P * n) - (P * d) /\ P * d \in Int
    BY <1>1, <1>2, <1>9, SMT
  <2>2. QED
    BY <1>2, <1>6, <2>1
<1>10. QED
  BY <1>6, <1>8, <1>9 DEF P, f, n, r, p

(* In one page, places lie as the addresses do; and places are the same    *)
(* only in the same frame and as far from its beginning.                   *)
LEMMA PlacesFollow ==
  ASSUME Byte = 8, NEW dir, NEW l \in Nat, NEW k \in Nat, At(dir, PageOf(l)) \in Int, At(dir, PageOf(k)) \in Int
  PROVE  /\ PageOf(l) = PageOf(k) => Physical(dir, l) - l = Physical(dir, k) - k
         /\ Physical(dir, l) = Physical(dir, k) =>
              At(dir, PageOf(l)) = At(dir, PageOf(k)) /\ l % Page = k % Page
<1> DEFINE P == Page
           f == At(dir, PageOf(l))
           g == At(dir, PageOf(k))
           r == l % Page
           s == k % Page
           p == Physical(dir, l)
           q == Physical(dir, k)
<1>1. p \in Int /\ q \in Int /\ p = (P * f) + r /\ q = (P * g) + s
  BY PhysicalIs
<1>2. P \in Int /\ P > 0 /\ f \in Int /\ g \in Int
  BY InPagesHolds DEF InPages
<1>3. r \in 0 .. P - 1 /\ s \in 0 .. P - 1
  BY PageIs
<1>4. PageOf(l) = PageOf(k) => p - l = q - k
  <2> SUFFICES ASSUME PageOf(l) = PageOf(k) PROVE p - l = q - k
    OBVIOUS
  <2> DEFINE n == PageOf(l)
             y == P * n
             z == P * f
  <2>1. l = y + r /\ k = y + s /\ y \in Int
    BY PageIs
  <2>2. f = g
    OBVIOUS
  <2>3. z \in Int
    BY <1>2, SMT
  <2>4. p = z + r /\ q = z + s
    BY <1>1, <2>2
  <2> HIDE DEF y, z, p, q, r, s, P, f, g
  <2>5. r \in Int /\ s \in Int
    BY <1>2, <1>3
  <2>6. QED
    BY <2>1, <2>3, <2>4, <2>5
<1>5. p = q => f = g /\ r = s
  <2> SUFFICES ASSUME p = q PROVE f = g /\ r = s
    OBVIOUS
  <2> HIDE DEF p, q, r, s, P, f, g
  <2>1. r \in Int /\ r >= 0 /\ r < P /\ s \in Int /\ s >= 0 /\ s < P
    BY <1>2, <1>3
  <2>2. p \div P = f /\ p % P = r
    BY ONLY <1>1, <1>2, <2>1, ModUnique
  <2>3. p \div P = g /\ p % P = s
    <3>1. p = (P * g) + s
      BY <1>1
    <3>2. QED
      BY ONLY <1>1, <1>2, <2>1, <3>1, ModUnique
  <2>4. QED
    BY <2>2, <2>3
<1>6. QED
  BY <1>4, <1>5

(* Where the addresses of a program are, in its own directory.             *)
InProgram(s, l) ==
  LET p == Physical(s.updir, l)
  IN /\ At(s.updir, PageOf(l)) \in Int /\ p \in 0 .. PHY_MEM - 1
     /\ l >= KOFFSET => p = l - KOFFSET /\ p < KMEM
     /\ l < KOFFSET /\ PdeOf(l) = 0 => p = l /\ p < KMEM
     /\ l < KOFFSET /\ PdeOf(l) # 0 => p >= KMEM /\ PageOf(l) \in Own

(* A present address is at one of these places.                            *)
LEMMA ProgramPlaces ==
  ASSUME Byte = 8, NEW s \in Spaces, Placed(s), NEW shown \in BOOLEAN, FirstTable(s.updir, shown),
         NEW l \in Addresses, Frame(s.updir, l) # NotPresent
  PROVE  InProgram(s, l)
<1> DEFINE n == PageOf(l)
           f == At(s.updir, n)
           p == Physical(s.updir, l)
           P == Page
           R == NR_PTE
           u == UserPages
           k == KernelPages
           m == MemoryPages
<1>1. /\ R \in Int /\ R > 0 /\ u \in Nat /\ k \in Nat /\ m \in Nat /\ R <= k /\ k <= m /\ m <= u
      /\ P \in Int /\ P > 0 /\ KOFFSET = P * u /\ PHY_MEM = P * m /\ KMEM = P * k
  BY InPagesHolds DEF InPages
<1>2. KOFFSET \in Nat /\ PHY_MEM \in Nat /\ KMEM \in Nat
  BY PagingAssumption
<1>3. /\ l \in Nat /\ n \in Pages /\ n \in Nat /\ n < u + k
      /\ (l < KOFFSET <=> n < u) /\ (PdeOf(l) = 0 <=> n < R)
  BY AddressPages
<1>4. f # NotPresent /\ f = Frame(s.updir, l)
  BY <1>3, PageIs
<1>5. CASE n < R
  <2>1. n \in 0 .. R - 1
    BY <1>1, <1>3, <1>5
  <2>2. f = n
    BY <1>4, <2>1 DEF FirstTable, R
  <2> HIDE DEF f, n
  <2>3. f \in Int /\ f = n - 0
    BY <1>3, <2>2
  <2>4. p \in Int /\ (p < P * k <=> f < k) /\ (p < P * 0 <=> f < 0) /\ p = l - (P * 0)
    BY <1>1, <1>3, <2>3, 0 \in Int, PhysicalIs DEF n, f, p, P
  <2> HIDE DEF p, P, R, u, k, m
  <2>5. p = l /\ p < KMEM /\ p >= 0
    BY <1>1, <1>2, <1>3, <1>5, <2>2, <2>4
  <2>6. KMEM <= PHY_MEM
    BY PagingAssumption
  <2>7. n < u
    BY <1>1, <1>3, <1>5
  <2>8. p \in 0 .. PHY_MEM - 1
    BY <1>2, <2>4, <2>5, <2>6
  <2>9. ~(l >= KOFFSET) /\ PdeOf(l) = 0
    BY <1>2, <1>3, <1>5, <2>7
  <2>10. QED
    BY <2>3, <2>5, <2>8, <2>9 DEF InProgram, f, p, n
<1>6. CASE n >= R /\ n < u
  <2>1. n \in Own
    BY <1>1, <1>3, <1>6 DEF Own
  <2>2. f \in k .. s.pf - 1 /\ s.pf <= m /\ s.pf \in Nat
    BY <1>4, <2>1 DEF Placed, Spaces
  <2> HIDE DEF f, n, k, m
  <2>3. f \in Int /\ f >= k /\ f < m
    BY <1>1, <2>2
  <2>4. p \in Int /\ (p < P * k <=> f < k) /\ (p < P * m <=> f < m)
    BY <1>1, <1>3, <2>3, PhysicalIs DEF n, f, p, P
  <2> HIDE DEF p, P, R, u
  <2>5. p >= KMEM /\ p < PHY_MEM
    BY <1>1, <1>2, <2>3, <2>4
  <2>6. p \in 0 .. PHY_MEM - 1 /\ PdeOf(l) # 0 /\ ~(l >= KOFFSET)
    BY <1>1, <1>2, <1>3, <1>6, <2>4, <2>5
  <2>7. QED
    BY <2>1, <2>3, <2>5, <2>6 DEF InProgram, f, p, n
<1>7. CASE n >= u
  <2>1. f = At(init_page, n)
    BY <1>3, <1>7 DEF Placed
  <2>2. n \in u .. u + m - 1 /\ ~(n < m)
    BY <1>1, <1>3, <1>7
  <2>3. f = n - u
    BY <1>3, <2>1, <2>2, KernelTables
  <2> HIDE DEF f, n, u, k
  <2>4. f \in Int /\ f < k /\ f >= 0 /\ u \in Int
    BY <1>1, <1>3, <1>7, <2>3
  <2>5. p \in Int /\ (p < P * k <=> f < k) /\ p = l - (P * u)
    BY <1>1, <1>3, <2>3, <2>4, PhysicalIs DEF n, f, p, P
  <2> HIDE DEF p, P, R, m
  <2>6. p < KMEM /\ p = l - KOFFSET /\ KMEM <= PHY_MEM
    BY <1>1, <2>4, <2>5, PagingAssumption
  <2>7. l >= KOFFSET /\ p \in 0 .. PHY_MEM - 1
    BY <1>1, <1>2, <1>3, <1>7, <2>5, <2>6
  <2>8. QED
    BY <1>2, <1>3, <2>4, <2>6, <2>7 DEF InProgram, f, p, n
<1>8. QED
  BY <1>1, <1>3, <1>5, <1>6, <1>7

(* And in the kernel's, which is in force before the program runs.         *)
InKernel(l) ==
  LET p == Physical(init_page, l)
  IN /\ At(init_page, PageOf(l)) \in Int /\ p \in 0 .. PHY_MEM - 1
     /\ l >= KOFFSET => p = l - KOFFSET
     /\ l < KOFFSET => p = l

(* And so is one under the kernel's directory.                             *)
LEMMA KernelPlaces ==
  ASSUME Byte = 8, NEW l \in Addresses, Frame(init_page, l) # NotPresent
  PROVE  InKernel(l)
<1> DEFINE n == PageOf(l)
           f == At(init_page, n)
           p == Physical(init_page, l)
           P == Page
           u == UserPages
           k == KernelPages
           m == MemoryPages
<1>1. /\ u \in Nat /\ k \in Nat /\ m \in Nat /\ k <= m /\ m <= u
      /\ P \in Int /\ P > 0 /\ KOFFSET = P * u /\ PHY_MEM = P * m
  BY InPagesHolds DEF InPages
<1>2. KOFFSET \in Nat /\ PHY_MEM \in Nat
  BY PagingAssumption
<1>3. l \in Nat /\ n \in Pages /\ n \in Nat /\ n < u + k /\ (l < KOFFSET <=> n < u)
  BY AddressPages
<1>4. f # NotPresent
  BY <1>3, PageIs
<1>5. f = IF n < m THEN n ELSE IF n \in u .. u + m - 1 THEN n - u ELSE NotPresent
  BY <1>3, KernelTables
<1>6. PICK d \in {0, u} : f = n - d /\ (d = 0 => n < u) /\ (d = u => n >= u) /\ f \in 0 .. m - 1
  <2> HIDE DEF n, f, u, k, m
  <2>1. CASE n < m
    <3>1. f = n - 0 /\ n < u /\ (0 = u => n >= u) /\ f \in 0 .. m - 1
      BY <1>1, <1>3, <1>5, <2>1
    <3>2. QED
      BY <3>1
  <2>2. CASE ~(n < m)
    <3>1. n \in u .. u + m - 1 /\ f = n - u
      BY <1>4, <1>5, <2>2
    <3>2. f = n - u /\ n >= u /\ f \in 0 .. m - 1 /\ u # 0
      BY <1>1, <1>3, <2>2, <3>1
    <3>3. QED
      BY <3>2
  <2>3. QED
    BY <2>1, <2>2
<1> HIDE DEF f, n, u, k, m
<1>7. f \in Int /\ d \in Int /\ f >= 0 /\ f < m
  BY <1>1, <1>6
<1>8. p \in Int /\ (p < P * m <=> f < m) /\ (p < P * 0 <=> f < 0) /\ p = l - (P * d)
  BY <1>1, <1>3, <1>6, <1>7, 0 \in Int, PhysicalIs DEF n, f, p, P
<1> HIDE DEF p, P
<1>9. p \in 0 .. PHY_MEM - 1
  <2>1. P * 0 = 0
    BY <1>1
  <2>2. QED
    BY <1>1, <1>2, <1>7, <1>8, <2>1
<1>10. CASE d = 0
  <2>1. P * d = 0
    BY <1>1, <1>10
  <2>2. p = l /\ ~(l >= KOFFSET)
    BY <1>2, <1>3, <1>6, <1>8, <1>10, <2>1
  <2>3. QED
    BY <1>7, <1>9, <2>2 DEF InKernel, f, p, n
<1>11. CASE d = u
  <2>1. p = l - KOFFSET /\ ~(l < KOFFSET)
    BY <1>1, <1>3, <1>6, <1>8, <1>11
  <2>2. QED
    BY <1>2, <1>7, <1>9, <2>1 DEF InKernel, f, p, n
<1>12. QED
  BY <1>6, <1>10, <1>11

(* Addresses of the program itself share no place.                         *)
LEMMA OwnPlaces ==
  ASSUME Byte = 8, NEW s \in Spaces, Placed(s), NEW shown \in BOOLEAN, FirstTable(s.updir, shown),
         NEW l \in Addresses, Frame(s.updir, l) # NotPresent, l < KOFFSET, PdeOf(l) # 0,
         NEW k \in Addresses, Frame(s.updir, k) # NotPresent, Physical(s.updir, l) = Physical(s.updir, k)
  PROVE  k = l
<1> DEFINE p == Physical(s.updir, l)
           q == Physical(s.updir, k)
           f == At(s.updir, PageOf(l))
           g == At(s.updir, PageOf(k))
<1>1. InProgram(s, l) /\ InProgram(s, k)
  BY ProgramPlaces
<1>2. l \in Nat /\ k \in Nat /\ KOFFSET \in Nat /\ KMEM \in Nat
  BY AddressPages, PagingAssumption
<1>3. /\ p \in Int /\ q \in Int /\ p = q /\ f \in Int /\ g \in Int
      /\ p >= KMEM /\ PageOf(l) \in Own
      /\ k >= KOFFSET => q < KMEM
      /\ k < KOFFSET /\ PdeOf(k) = 0 => q < KMEM
      /\ k < KOFFSET /\ PdeOf(k) # 0 => PageOf(k) \in Own
  BY <1>1 DEF InProgram
<1>4. PageOf(k) \in Own
  <2> HIDE DEF p, q, f, g
  <2>1. QED
    BY <1>2, <1>3
<1>5. f = g /\ (PageOf(l) = PageOf(k) => p - l = q - k)
  BY <1>2, <1>3, PlacesFollow
<1>6. f # NotPresent /\ g # NotPresent
  BY <1>2, PageIs
<1>7. PageOf(l) = PageOf(k)
  BY <1>3, <1>4, <1>5, <1>6 DEF Placed
<1> HIDE DEF p, q, f, g
<1>8. QED
  BY <1>2, <1>3, <1>5, <1>7

(* What an address stands for tells its place.                             *)
Stands(s) == s \in Spaces /\ Placed(s) /\ FirstTable(s.updir, Running)

(* Addresses have one place exactly when they stand for one thing.         *)
LEMMA StandsForPlaces ==
  ASSUME Byte = 8, Stands(space),
         NEW l \in Addresses, Present(View, l), NEW k \in Addresses, Present(View, k)
  PROVE  page_translate(View, l) = page_translate(View, k) <=> StandsFor(l) = StandsFor(k)
<1> DEFINE d == View.dir
           p == Physical(d, l)
           q == Physical(d, k)
<1>1. page_translate(View, l) = p /\ page_translate(View, k) = q /\ Frame(d, l) # NotPresent /\ Frame(d, k) # NotPresent
  BY DEF page_translate, Present
<1>2. d = IF Running THEN space.updir ELSE init_page
  BY DEF View, ProgramView
<1>3. l \in Nat /\ k \in Nat /\ KOFFSET \in Nat /\ KMEM \in Nat
  BY AddressPages, PagingAssumption
<1>4. CASE ~Running
  <2>1. InKernel(l) /\ InKernel(k) /\ d = init_page
    BY <1>1, <1>2, <1>4, KernelPlaces
  <2>2. /\ l >= KOFFSET => p = l - KOFFSET /\ StandsFor(l) = <<"memory", l - KOFFSET>>
        /\ l < KOFFSET => p = l /\ StandsFor(l) = <<"memory", l>>
        /\ k >= KOFFSET => q = k - KOFFSET /\ StandsFor(k) = <<"memory", k - KOFFSET>>
        /\ k < KOFFSET => q = k /\ StandsFor(k) = <<"memory", k>>
    BY <1>3, <1>4, <2>1 DEF InKernel, StandsFor
  <2> HIDE DEF p, q, d
  <2>3. StandsFor(l) = <<"memory", p>> /\ StandsFor(k) = <<"memory", q>>
    BY <1>3, <2>2
  <2>4. QED
    BY <1>1, <2>3
<1>5. CASE Running
  <2>1. d = space.updir /\ space \in Spaces /\ Placed(space) /\ Running \in BOOLEAN /\ FirstTable(space.updir, Running)
    BY <1>2, <1>5 DEF Stands, Running
  <2>2. InProgram(space, l) /\ InProgram(space, k)
    BY <1>1, <2>1, ProgramPlaces
  <2>3. /\ l >= KOFFSET => p = l - KOFFSET /\ p < KMEM /\ StandsFor(l) = <<"memory", l - KOFFSET>>
        /\ l < KOFFSET /\ PdeOf(l) = 0 => p = l /\ p < KMEM /\ StandsFor(l) = <<"memory", l>>
        /\ l < KOFFSET /\ PdeOf(l) # 0 => p >= KMEM /\ StandsFor(l) = <<"program", l>>
        /\ p \in Int
    BY <1>3, <1>5, <2>1, <2>2 DEF InProgram, StandsFor
  <2>4. /\ k >= KOFFSET => q = k - KOFFSET /\ q < KMEM /\ StandsFor(k) = <<"memory", k - KOFFSET>>
        /\ k < KOFFSET /\ PdeOf(k) = 0 => q = k /\ q < KMEM /\ StandsFor(k) = <<"memory", k>>
        /\ k < KOFFSET /\ PdeOf(k) # 0 => q >= KMEM /\ StandsFor(k) = <<"program", k>>
        /\ q \in Int
    BY <1>3, <1>5, <2>1, <2>2 DEF InProgram, StandsFor
  <2>5. l < KOFFSET /\ PdeOf(l) # 0 /\ p = q => k = l
    BY <1>1, <2>1, OwnPlaces
  <2>6. k < KOFFSET /\ PdeOf(k) # 0 /\ p = q => k = l
    BY <1>1, <2>1, OwnPlaces
  <2> HIDE DEF p, q, d
  <2> DEFINE a == l < KOFFSET /\ PdeOf(l) # 0
             b == k < KOFFSET /\ PdeOf(k) # 0
  <2>7. /\ ~a => p < KMEM /\ StandsFor(l) = <<"memory", p>>
        /\ a => p >= KMEM /\ StandsFor(l) = <<"program", l>>
    BY <1>3, <2>3
  <2>8. /\ ~b => q < KMEM /\ StandsFor(k) = <<"memory", q>>
        /\ b => q >= KMEM /\ StandsFor(k) = <<"program", k>>
    BY <1>3, <2>4
  <2>9. (a /\ p = q => k = l) /\ (b /\ p = q => k = l) /\ (k = l => p = q)
    BY <2>5, <2>6 DEF p, q
  <2>10. CASE a
    <3>1. CASE b
      BY <1>1, <2>7, <2>8, <2>9, <2>10, <3>1
    <3>2. CASE ~b
      <4>1. p # q /\ <<"program", l>> # <<"memory", q>>
        BY <1>3, <2>3, <2>4, <2>7, <2>8, <2>10, <3>2
      <4>2. QED
        BY <1>1, <2>7, <2>8, <2>10, <3>2, <4>1
    <3>3. QED
      BY <3>1, <3>2
  <2>11. CASE ~a
    <3>1. CASE b
      <4>1. p # q /\ <<"program", k>> # <<"memory", p>>
        BY <1>3, <2>3, <2>4, <2>7, <2>8, <2>11, <3>1
      <4>2. QED
        BY <1>1, <2>7, <2>8, <2>11, <3>1, <4>1
    <3>2. CASE ~b
      BY <1>1, <2>7, <2>8, <2>11, <3>2
    <3>3. QED
      BY <3>1, <3>2
  <2>12. QED
    BY <2>10, <2>11
<1>6. QED
  BY <1>4, <1>5

(* The bytes of a memory that is smaller than the addresses.               *)
Octets == 0 .. 2^Byte - 1
Digit(v, i) == Low(v \div 2^(Byte * i), Byte)

(* A digit is a byte.                                                      *)
LEMMA DigitIs ==
  ASSUME Byte = 8, NEW v \in Int, NEW i \in 0 .. 3
  PROVE  Digit(v, i) \in Octets /\ Digit(v, i) \in Int
<1>1. 2^(Byte * i) \in Int /\ 2^(Byte * i) > 0
  BY BytePower
<1> DEFINE e == 2^(Byte * i)
           y == v \div e
           M == 2^Byte
<1>2. e \in Int /\ e > 0
  BY <1>1
<1> HIDE DEF e
<1>3. y \in Int
  BY <1>2, ModIs
<1> HIDE DEF y
<1>4. M \in Int /\ M > 0
  BY WordIs
<1> HIDE DEF M
<1>5. y % M \in Int /\ y % M >= 0 /\ y % M < M
  BY <1>3, <1>4, ModIs
<1>6. y % M \in 0 .. M - 1
  BY <1>4, <1>5
<1>7. Digit(v, i) = y % M /\ Octets = 0 .. M - 1
  BY DEF Digit, Low, y, e, M, Octets
<1>8. QED
  BY <1>5, <1>6, <1>7

(* A load joins the bytes that it names, without wrapping around.          *)
LEMMA LoadBytes ==
  ASSUME Byte = 8, NEW m, NEW top \in Nat, top <= Word, NEW a \in Int, NEW len \in 1 .. 4, a >= 0, a + len <= top
  PROVE  Load(m, a, len) = PartialSums([i \in 0 .. len - 1 |-> m.mem[a + i] * 2^(Byte * i)], len)[len]
<1> DEFINE W == Word
<1>1. W \in Int
  BY WordIs
<1> HIDE DEF W
<1>2. \A i \in 0 .. len - 1 : a + i \in 0 .. W - 1 /\ a + i \in Int
  BY <1>1 DEF W
<1>3. \A i \in 0 .. len - 1 : Address(a + i) = a + i
  BY <1>2, AddressIs DEF W
<1>4. [i \in 0 .. len - 1 |-> m.mem[Address(a + i)] * 2^(Byte * i)] = [i \in 0 .. len - 1 |-> m.mem[a + i] * 2^(Byte * i)]
  BY <1>3
<1>5. QED
  BY <1>4 DEF Load

StoresIn(m, out, top, a, len, v) ==
  /\ out = [m EXCEPT !.mem = out.mem] /\ ("mem" \in DOMAIN m => out.mem \in [0 .. top - 1 -> Octets])
  /\ "mem" \in DOMAIN m /\ a >= 0 /\ a + len <= top =>
       /\ \A i \in 0 .. len - 1 : out.mem[a + i] = Digit(v, i)
       /\ \A b \in 0 .. top - 1 : b \notin a .. a + len - 1 => out.mem[b] = m.mem[b]

(* StoreBytes: a store changes the bytes that it names, and no others.     *)
LEMMA StoreBytes ==
  ASSUME Byte = 8, NEW top \in Nat, top <= Word, NEW m, m.mem \in [0 .. top - 1 -> Octets],
         NEW a \in Int, NEW len \in 1 .. 4, NEW v \in Int
  PROVE  StoresIn(m, Store(m, a, len, v), top, a, len, v)
<1> DEFINE A == [b \in 0 .. top - 1 |-> IF Address(b - a) < len THEN Digit(v, Address(b - a)) ELSE m.mem[b]]
           out == Store(m, a, len, v)
<1>1. out = [m EXCEPT !.mem = A]
  <2>1. DOMAIN m.mem = 0 .. top - 1
    OBVIOUS
  <2>2. QED
    BY <2>1 DEF Store, Digit
<1>2. \A b \in 0 .. top - 1 : Address(b - a) \in 0 .. Word - 1
  BY AddressIs
<1>3. ASSUME NEW b \in 0 .. top - 1 PROVE A[b] \in Octets
  <2> DEFINE k == Address(b - a)
             W == Word
  <2>1. k \in 0 .. W - 1 /\ W \in Int
    <3>1. W \in Int
      BY WordIs
    <3>2. QED
      BY <1>2, <3>1
  <2> HIDE DEF k, W
  <2>2. k < len => k \in 0 .. 3
    BY <2>1
  <2>3. k < len => Digit(v, k) \in Octets
    BY <2>2, DigitIs
  <2>4. QED
    BY <2>3 DEF k
<1> HIDE DEF out
<1>4. A \in [0 .. top - 1 -> Octets]
  <2> HIDE DEF A
  <2>1. A = [b \in 0 .. top - 1 |-> A[b]]
    BY DEF A
  <2>2. QED
    BY <1>3, <2>1
<1>5. "mem" \in DOMAIN m => out.mem = A
  <2> HIDE DEF A
  <2>1. QED
    BY <1>1
<1>6. out = [m EXCEPT !.mem = out.mem]
  <2> HIDE DEF A
  <2>1. CASE "mem" \in DOMAIN m
    BY <1>1, <1>5, <2>1
  <2>2. CASE "mem" \notin DOMAIN m
    BY <1>1, <2>2
  <2>3. QED
    BY <2>1, <2>2
<1>7. ASSUME "mem" \in DOMAIN m, a >= 0, a + len <= top
      PROVE  /\ \A i \in 0 .. len - 1 : A[a + i] = Digit(v, i)
             /\ \A b \in 0 .. top - 1 : b \notin a .. a + len - 1 => A[b] = m.mem[b]
  <2> DEFINE W == Word
  <2>1. W \in Int /\ top <= W
    BY WordIs
  <2> HIDE DEF W
  <2>2. ASSUME NEW i \in 0 .. len - 1 PROVE A[a + i] = Digit(v, i)
    <3>1. a + i \in 0 .. top - 1 /\ (a + i) - a = i /\ i \in 0 .. W - 1 /\ i \in Int /\ i < len
      BY <1>7, <2>1
    <3>2. Address((a + i) - a) = i
      BY <3>1, AddressIs DEF W
    <3>3. QED
      BY <3>1, <3>2
  <2>3. ASSUME NEW b \in 0 .. top - 1, b \notin a .. a + len - 1 PROVE A[b] = m.mem[b]
    <3> DEFINE x == b - a
               k == Address(x)
    <3>1. x \in Int /\ (x < 0 \/ x >= len) /\ x + W >= 0 /\ x < W /\ x + W >= len
      BY <1>7, <2>1, <2>3
    <3> HIDE DEF x
    <3>2. (x \in 0 .. W - 1 => k = x) /\ (x < 0 /\ x + W >= 0 => k = x + W)
      BY <3>1, AddressIs DEF W
    <3> HIDE DEF k
    <3>3. ~(k < len)
      <4>1. CASE x < 0
        BY <2>1, <3>1, <3>2, <4>1
      <4>2. CASE ~(x < 0)
        BY <2>1, <3>1, <3>2, <4>2
      <4>3. QED
        BY <4>1, <4>2
    <3>4. QED
      BY <3>3 DEF k, x
  <2>4. QED
    BY <2>2, <2>3
<1> HIDE DEF A
<1>8. QED
  BY <1>4, <1>5, <1>6, <1>7 DEF out, StoresIn

(* Shifts by whole bytes move the bytes, and drop what leaves the word.    *)
DoubledTo(v, b0, b1, b2, b3) ==
  /\ Doubled(v, 0) = v /\ Doubled(v, 8) = Together(0, b0, b1, b2)
  /\ Doubled(v, 16) = Together(0, 0, b0, b1) /\ Doubled(v, 24) = Together(0, 0, 0, b0)
HalvedTo(v, b0, b1, b2, b3) ==
  /\ Halved(v, 0) = v /\ Halved(v, 8) = Together(b1, b2, b3, 0)
  /\ Halved(v, 16) = Together(b2, b3, 0, 0) /\ Halved(v, 24) = Together(b3, 0, 0, 0)

Shifted(b0, b1, b2, b3) ==
  LET v == Together(b0, b1, b2, b3)
  IN /\ v \in Int /\ v >= 0 /\ v < Word /\ v % Word = v
     /\ DoubledTo(v, b0, b1, b2, b3) /\ HalvedTo(v, b0, b1, b2, b3)

(* ByteShifts: all of that of four bytes.                                  *)
LEMMA ByteShifts ==
  ASSUME Byte = 8, NEW b0 \in 0 .. 255, NEW b1 \in 0 .. 255, NEW b2 \in 0 .. 255, NEW b3 \in 0 .. 255
  PROVE  Shifted(b0, b1, b2, b3)
<1> DEFINE v == Together(b0, b1, b2, b3)
           d1 == Together(0, b0, b1, b2)
           d2 == Together(0, 0, b0, b1)
           d3 == Together(0, 0, 0, b0)
           h1 == Together(b1, b2, b3, 0)
           h2 == Together(b2, b3, 0, 0)
           h3 == Together(b3, 0, 0, 0)
           e1 == b3
           e2 == b2 + (256 * b3)
           e3 == (b1 + (256 * b2)) + (65536 * b3)
           f1 == b0
           f2 == b0 + (256 * b1)
           f3 == (b0 + (256 * b1)) + (65536 * b2)
           W == 4294967296
           x1 == v * 256
           x2 == v * 65536
           x3 == v * 16777216
<1>1. Host = 32 /\ Word = W /\ 2^0 = 1 /\ 2^8 = 256 /\ 2^16 = 65536 /\ 2^24 = 16777216
  <2>1. Host = 32 /\ 2^32 = W
    BY Powers, SMT DEF Host
  <2>2. 2^0 = 1 /\ 2^8 = 256 /\ 2^16 = 65536 /\ 2^24 = 16777216
    BY SMT
  <2>3. QED
    BY <2>1, <2>2 DEF Word
<1>2. /\ b0 \in Int /\ b1 \in Int /\ b2 \in Int /\ b3 \in Int
      /\ v \in Int /\ d1 \in Int /\ d2 \in Int /\ d3 \in Int /\ h1 \in Int /\ h2 \in Int /\ h3 \in Int
      /\ e1 \in Int /\ e2 \in Int /\ e3 \in Int /\ f1 \in Int /\ f2 \in Int /\ f3 \in Int
  BY SMT DEF Together
<1>3. /\ v >= 0 /\ v < W /\ d1 >= 0 /\ d1 < W /\ d2 >= 0 /\ d2 < W /\ d3 >= 0 /\ d3 < W
      /\ f1 >= 0 /\ f1 < 256 /\ f2 >= 0 /\ f2 < 65536 /\ f3 >= 0 /\ f3 < 16777216
  BY SMT DEF Together
<1>4. x1 = (W * e1) + d1 /\ x2 = (W * e2) + d2 /\ x3 = (W * e3) + d3 /\ v = (W * 0) + v
  BY SMT DEF Together
<1>5. v = (256 * h1) + f1 /\ v = (65536 * h2) + f2 /\ v = (16777216 * h3) + f3
  BY SMT DEF Together
<1>6. x1 \in Int /\ x2 \in Int /\ x3 \in Int /\ v * 1 = v /\ v \div 1 = v
  BY <1>2, SMT
<1> HIDE DEF v, d1, d2, d3, h1, h2, h3, e1, e2, e3, f1, f2, f3, x1, x2, x3
<1>7. W \in Int /\ W > 0 /\ 256 \in Int /\ 256 > 0 /\ 65536 \in Int /\ 65536 > 0 /\ 16777216 \in Int /\ 16777216 > 0 /\ 0 \in Int
  BY SMT
<1> HIDE DEF W
<1>8. x1 % W = d1
  BY ONLY <1>2, <1>3, <1>4, <1>6, <1>7, ModUnique
<1>9. x2 % W = d2
  BY ONLY <1>2, <1>3, <1>4, <1>6, <1>7, ModUnique
<1>10. x3 % W = d3
  BY ONLY <1>2, <1>3, <1>4, <1>6, <1>7, ModUnique
<1>11. v % W = v
  BY ONLY <1>2, <1>3, <1>4, <1>6, <1>7, ModUnique
<1>12. v \div 256 = h1
  BY ONLY <1>2, <1>3, <1>5, <1>7, ModUnique
<1>13. v \div 65536 = h2
  BY ONLY <1>2, <1>3, <1>5, <1>7, ModUnique
<1>14. v \div 16777216 = h3
  BY ONLY <1>2, <1>3, <1>5, <1>7, ModUnique
<1>15. Doubled(v, 0) = v /\ Doubled(v, 8) = d1 /\ Doubled(v, 16) = d2 /\ Doubled(v, 24) = d3
  <2>1. /\ Doubled(v, 0) = (v * 2^0) % Word /\ Doubled(v, 8) = (v * 2^8) % Word
        /\ Doubled(v, 16) = (v * 2^16) % Word /\ Doubled(v, 24) = (v * 2^24) % Word
    BY <1>1 DEF Doubled
  <2>2. QED
    BY <1>1, <1>6, <1>8, <1>9, <1>10, <1>11, <2>1 DEF x1, x2, x3
<1>16. Halved(v, 0) = v /\ Halved(v, 8) = h1 /\ Halved(v, 16) = h2 /\ Halved(v, 24) = h3
  <2>1. /\ Halved(v, 0) = v \div 2^0 /\ Halved(v, 8) = v \div 2^8
        /\ Halved(v, 16) = v \div 2^16 /\ Halved(v, 24) = v \div 2^24
    BY <1>1 DEF Halved
  <2>2. QED
    BY <1>1, <1>6, <1>12, <1>13, <1>14, <2>1
<1>17. DoubledTo(v, b0, b1, b2, b3)
  BY <1>15 DEF DoubledTo, d1, d2, d3
<1>18. HalvedTo(v, b0, b1, b2, b3)
  BY <1>16 DEF HalvedTo, h1, h2, h3
<1>19. QED
  BY <1>1, <1>2, <1>3, <1>11, <1>17, <1>18 DEF v, Shifted

(* A word has four bytes.                                                  *)
LEMMA FourBytes ==
  ASSUME Byte = 8, NEW v \in 0 .. Word - 1
  PROVE  /\ \A i \in 0 .. 3 : Digit(v, i) \in 0 .. 255
         /\ v = Together(Digit(v, 0), Digit(v, 1), Digit(v, 2), Digit(v, 3))
<1> DEFINE W == Word
<1>1. W \in Int
  BY WordIs
<1> HIDE DEF W
<1>2. v \in Int /\ v >= 0 /\ v < W
  BY <1>1 DEF W
<1>3. \A i \in 0 .. 3 : Digit(v, i) \in Octets
  BY <1>2, DigitIs
<1>4. Octets = 0 .. 255
  BY WordIs DEF Octets
<1>5. v = ((Digit(v, 0) + (256 * Digit(v, 1))) + (65536 * Digit(v, 2))) + (16777216 * Digit(v, 3))
  BY <1>2, BytesComeBack DEF Digit, W
<1>6. QED
  BY <1>3, <1>4, <1>5 DEF Together

(* The value of a few bytes.                                               *)
Joined(f, n) == PartialSums([i \in 0 .. n - 1 |-> f[i] * 2^(Byte * i)], n)[n]

(* Bytes joined are bytes put together, zeros above them.                  *)
LEMMA JoinedIs ==
  ASSUME Byte = 8, NEW len \in 1 .. 4, NEW f, \A i \in 0 .. len - 1 : f[i] \in 0 .. 255
  PROVE  Joined(f, len) = Together(f[0], IF len > 1 THEN f[1] ELSE 0, IF len > 2 THEN f[2] ELSE 0, IF len > 3 THEN f[3] ELSE 0)
<1> DEFINE g == [i \in 0 .. len - 1 |-> f[i] * 2^(Byte * i)]
           s == PartialSums(g, len)
<1>1. \A i \in 0 .. len - 1 : i \in 0 .. 3 /\ f[i] \in Int
  OBVIOUS
<1>2. \A i \in 0 .. len - 1 : g[i] \in Int
  <2> SUFFICES ASSUME NEW i \in 0 .. len - 1 PROVE g[i] \in Int
    OBVIOUS
  <2> DEFINE e == 2^(Byte * i)
  <2>1. e \in Int /\ f[i] \in Int
    BY <1>1, BytePower
  <2> HIDE DEF e
  <2>2. f[i] * e \in Int
    BY <2>1, SMT
  <2>3. QED
    BY <2>2 DEF e
<1>3. s[0] = 0 /\ (\A k \in 0 .. len - 1 : s[k + 1] = s[k] + g[k]) /\ \A k \in 0 .. len : s[k] \in Int
  <2> HIDE DEF g
  <2>1. len \in Nat
    OBVIOUS
  <2>2. QED
    BY <1>2, <2>1, SumsAre
<1>4. /\ g[0] = f[0] /\ (len > 1 => g[1] = f[1] * 256) /\ (len > 2 => g[2] = f[2] * 65536)
      /\ (len > 3 => g[3] = f[3] * 16777216)
  <2>1. 2^(Byte * 0) = 1 /\ 2^(Byte * 1) = 256 /\ 2^(Byte * 2) = 65536 /\ 2^(Byte * 3) = 16777216
    BY WordIs
  <2>2. g[0] = f[0] * 1 /\ f[0] * 1 = f[0]
    <3>1. 0 \in 0 .. len - 1 /\ f[0] \in Int
      BY <1>1
    <3>2. f[0] * 1 = f[0]
      BY <3>1, SMT
    <3>3. QED
      BY <2>1, <3>1, <3>2
  <2>3. len > 1 => g[1] = f[1] * 256
    BY <2>1
  <2>4. len > 2 => g[2] = f[2] * 65536
    BY <2>1
  <2>5. len > 3 => g[3] = f[3] * 16777216
    BY <2>1
  <2>6. QED
    BY <2>2, <2>3, <2>4, <2>5
<1>5. Joined(f, len) = s[len]
  BY DEF Joined
<1> HIDE DEF s, g
<1>6. CASE len = 1
  <2>1. s[1] = s[0] + g[0] /\ g[0] \in Int
    <3>1. 0 \in 0 .. len - 1 /\ 0 + 1 = 1
      BY <1>6
    <3>2. QED
      BY <1>2, <1>3, <3>1
  <2>2. QED
    BY <1>3, <1>4, <1>5, <1>6, <2>1, SMT DEF Together
<1>7. CASE len = 2
  <2>1. s[1] = s[0] + g[0] /\ g[0] \in Int /\ s[2] = s[1] + g[1] /\ g[1] \in Int /\ f[1] \in Int
    <3>1. 0 \in 0 .. len - 1 /\ 0 + 1 = 1 /\ 1 \in 0 .. len - 1 /\ 1 + 1 = 2
      BY <1>7
    <3>2. QED
      BY <1>1, <1>2, <1>3, <3>1
  <2>2. QED
    BY <1>3, <1>4, <1>5, <1>7, <2>1, SMT DEF Together
<1>8. CASE len = 3
  <2>1. s[1] = s[0] + g[0] /\ g[0] \in Int /\ s[2] = s[1] + g[1] /\ g[1] \in Int /\ f[1] \in Int
        /\ s[3] = s[2] + g[2] /\ g[2] \in Int /\ f[2] \in Int
    <3>1. 0 \in 0 .. len - 1 /\ 0 + 1 = 1 /\ 1 \in 0 .. len - 1 /\ 1 + 1 = 2 /\ 2 \in 0 .. len - 1 /\ 2 + 1 = 3
      BY <1>8
    <3>2. QED
      BY <1>1, <1>2, <1>3, <3>1
  <2>2. QED
    BY <1>3, <1>4, <1>5, <1>8, <2>1, SMT DEF Together
<1>9. CASE len = 4
  <2>1. s[1] = s[0] + g[0] /\ g[0] \in Int /\ s[2] = s[1] + g[1] /\ g[1] \in Int /\ f[1] \in Int
        /\ s[3] = s[2] + g[2] /\ g[2] \in Int /\ f[2] \in Int /\ s[4] = s[3] + g[3] /\ g[3] \in Int /\ f[3] \in Int
    <3>1. /\ 0 \in 0 .. len - 1 /\ 0 + 1 = 1 /\ 1 \in 0 .. len - 1 /\ 1 + 1 = 2 /\ 2 \in 0 .. len - 1 /\ 2 + 1 = 3
          /\ 3 \in 0 .. len - 1 /\ 3 + 1 = 4
      BY <1>9
    <3>2. QED
      BY <1>1, <1>2, <1>3, <3>1
  <2>2. QED
    BY <1>3, <1>4, <1>5, <1>9, <2>1, SMT DEF Together
<1>10. QED
  BY <1>6, <1>7, <1>8, <1>9

(* An access crosses a page where it ends in the next one, after LowPart   *)
(* bytes.                                                                  *)
InTwo(l, len, k) ==
  /\ k \in 1 .. len - 1
  /\ \A i \in 0 .. k - 1 : PageOf(l + i) = PageOf(l)
  /\ \A i \in k .. len - 1 : PageOf(l + i) = PageOf(l + k) /\ (l + i) % Page = i - k
  /\ \A i \in 0 .. k - 1 : (l + i) % Page >= len - k

(* An access in one page does not cross; one that crosses is in two.       *)
LEMMA CrossesWhere ==
  ASSUME Byte = 8, NEW l \in Nat, NEW len \in 1 .. 4
  PROVE  /\ ~Crosses(l, len) => \A i \in 0 .. len - 1 : PageOf(l + i) = PageOf(l)
         /\ Crosses(l, len) => InTwo(l, len, LowPart(l))
<1> DEFINE P == Page
           n == PageOf(l)
           r == l % Page
           k == LowPart(l)
           y == P * n
<1>1. P \in Int /\ P >= 4 /\ n \in Nat /\ r \in 0 .. P - 1 /\ l = y + r /\ y \in Int
  BY PageIs, InPagesHolds DEF InPages
<1>2. r \in Int /\ r >= 0 /\ r < P /\ k = P - r
  BY <1>1 DEF LowPart
<1>3. ASSUME NEW i \in 0 .. 4, r + i < P PROVE PageOf(l + i) = n /\ (l + i) % Page = r + i
  <2> HIDE DEF y, r, n
  <2>1. l + i \in Nat /\ r + i \in 0 .. P - 1 /\ l + i = y + (r + i)
    BY <1>1, <1>2, <1>3
  <2> DEFINE x == l + i
             o == r + i
  <2>2. x \in Nat /\ o \in 0 .. Page - 1 /\ x = (Page * n) + o /\ n \in Int
    BY <1>1, <2>1 DEF y
  <2> HIDE DEF x, o
  <2>3. PageOf(x) = n /\ x % Page = o
    BY <2>2, PageUnique
  <2>4. QED
    BY <2>3 DEF x, o
<1>4. ASSUME NEW i \in 0 .. 4, r + i >= P PROVE PageOf(l + i) = n + 1 /\ (l + i) % Page = (r + i) - P
  <2>1. y + P = P * (n + 1)
    BY <1>1, SMT
  <2> HIDE DEF y, r, n
  <2>2. l + i \in Nat /\ (r + i) - P \in 0 .. P - 1 /\ l + i = (y + P) + ((r + i) - P)
    BY <1>1, <1>2, <1>4
  <2> DEFINE x == l + i
             o == (r + i) - P
             q == n + 1
  <2>3. x \in Nat /\ o \in 0 .. Page - 1 /\ x = (Page * q) + o /\ q \in Int
    BY <1>1, <2>1, <2>2
  <2> HIDE DEF x, o, q
  <2>4. PageOf(x) = q /\ x % Page = o
    BY <2>3, PageUnique
  <2>5. QED
    BY <2>4 DEF x, o, q
<1>5. Crosses(l, len) <=> r + (len - 1) >= P
  <2> DEFINE i == len - 1
             h == PageOf(l + i)
  <2>1. i \in 0 .. 4 /\ l + len - 1 = l + i
    OBVIOUS
  <2>2. Crosses(l, len) <=> n % 2 # h % 2
    BY <2>1 DEF Crosses, PageOf
  <2>3. n % 2 # (n + 1) % 2
    BY <1>1, SMT
  <2> HIDE DEF h, n, r
  <2>4. r + i < P => h = n
    BY <1>3, <2>1 DEF h
  <2>5. r + i >= P => h = n + 1
    BY <1>4, <2>1 DEF h
  <2>6. r + i < P \/ r + i >= P
    BY <1>1, <1>2, <2>1
  <2> HIDE DEF i
  <2>7. ~(r + i < P /\ r + i >= P)
    BY <1>1, <1>2, <2>1
  <2>8. Crosses(l, len) <=> r + i >= P
    BY <2>2, <2>3, <2>4, <2>5, <2>6, <2>7
  <2>9. QED
    BY <2>8 DEF i
<1> HIDE DEF P, n, r, k, y
<1>6. ASSUME ~Crosses(l, len), NEW i \in 0 .. len - 1 PROVE PageOf(l + i) = n
  <2>1. i \in 0 .. 4 /\ r + i < P
    BY <1>1, <1>2, <1>5, <1>6
  <2>2. QED
    BY <1>3, <2>1
<1>7. ASSUME Crosses(l, len) PROVE InTwo(l, len, k)
  <2>1. k \in 1 .. len - 1 /\ k \in Int
    BY <1>1, <1>2, <1>5, <1>7
  <2>2. ASSUME NEW i \in 0 .. k - 1 PROVE PageOf(l + i) = n /\ (l + i) % Page >= len - k
    <3>1. i \in 0 .. 4 /\ r + i < P
      BY <1>1, <1>2, <2>1
    <3>2. PageOf(l + i) = n /\ (l + i) % Page = r + i
      BY <1>3, <3>1
    <3>3. r + i >= len - k
      BY <1>1, <1>2, <2>1
    <3>4. QED
      BY <3>2, <3>3
  <2>3. ASSUME NEW i \in k .. len - 1 PROVE PageOf(l + i) = n + 1 /\ (l + i) % Page = i - k
    <3>1. i \in 0 .. 4 /\ r + i >= P
      BY <1>1, <1>2, <2>1
    <3>2. PageOf(l + i) = n + 1 /\ (l + i) % Page = (r + i) - P
      BY <1>4, <3>1
    <3>3. (r + i) - P = i - k
      BY <1>1, <1>2, <2>1
    <3>4. QED
      BY <3>2, <3>3
  <2>4. k \in k .. len - 1
    BY <2>1
  <2>5. \A i \in 0 .. k - 1 : PageOf(l + i) = PageOf(l)
    BY <2>2 DEF n
  <2>6. \A i \in k .. len - 1 : PageOf(l + i) = PageOf(l + k)
    BY <2>3, <2>4
  <2>7. QED
    BY <2>1, <2>2, <2>3, <2>5, <2>6 DEF InTwo
<1>8. QED
  BY <1>6, <1>7 DEF k, n

(* Machines, the byte that a place holds, and addresses that have places.  *)
PageMachines == [dir : Directories, mem : Memories, screen : Screens]
Cell(m, p) == IF is_mmio(p) THEN m.screen[p - VMEM_ADDR] ELSE m.mem[p]
PlaceAt(m, l, i) == Physical(m.dir, l + i)
Reached(m, l, len) ==
  \A i \in 0 .. len - 1 : At(m.dir, PageOf(l + i)) \in Int /\ PlaceAt(m, l, i) \in 0 .. PHY_MEM - 1

(* A place holds a byte.                                                   *)
LEMMA CellIs ==
  ASSUME Byte = 8, NEW m \in PageMachines, NEW p \in 0 .. PHY_MEM - 1
  PROVE  Cell(m, p) \in 0 .. 255 /\ Cell(m, p) \in Octets
<1>1. /\ m.mem \in [0 .. PHY_MEM - 1 -> Octets] /\ m.screen \in [0 .. VideoLen - 1 -> Octets]
      /\ VMEM_ADDR \in Nat /\ VideoLen \in Nat /\ PHY_MEM \in Nat
  BY PagingAssumption DEF PageMachines, Memories, Screens, Octets
<1>2. is_mmio(p) => p - VMEM_ADDR \in 0 .. VideoLen - 1
  BY <1>1 DEF is_mmio
<1>3. Cell(m, p) \in Octets
  BY <1>1, <1>2 DEF Cell
<1>4. QED
  BY <1>3, WordIs DEF Octets

(* A frame is of the screen or not, as a whole.                            *)
LEMMA ScreenFrames ==
  ASSUME Byte = 8, NEW dir, NEW l \in Nat, At(dir, PageOf(l)) \in Int
  PROVE  is_mmio(Physical(dir, l)) <=> At(dir, PageOf(l)) \in VideoPage .. VideoPage + MapPages - 1
<1> DEFINE P == Page
           f == At(dir, PageOf(l))
           p == Physical(dir, l)
           v == VideoPage
           w == v + MapPages
<1>1. P \in Int /\ v \in Int /\ MapPages \in Int /\ VMEM_ADDR = P * v /\ VideoLen = P * MapPages
  BY InPagesHolds DEF InPages
<1>2. p \in Int /\ (p < P * v <=> f < v) /\ (p < P * w <=> f < w) /\ w \in Int /\ f \in Int
  <2>1. w \in Int
    BY <1>1
  <2>2. QED
    BY <1>1, <2>1, PhysicalIs
<1>3. P * w = (P * v) + (P * MapPages) /\ P * v \in Int /\ P * MapPages \in Int
  BY <1>1, SMT
<1> HIDE DEF P, f, p, v
<1>4. is_mmio(p) <=> (~(p < P * v) /\ p < P * w)
  BY <1>1, <1>2, <1>3 DEF is_mmio
<1>5. f \in v .. v + MapPages - 1 <=> (~(f < v) /\ f < w)
  BY <1>1, <1>2
<1>6. QED
  BY <1>2, <1>4, <1>5 DEF f, p, v

(* Places of a page follow each other, on the screen or not.               *)
LEMMA OnePage ==
  ASSUME Byte = 8, NEW m, NEW l \in Nat, NEW i \in 0 .. 4, NEW j \in 0 .. 4, PageOf(l + i) = PageOf(l + j),
         At(m.dir, PageOf(l + i)) \in Int
  PROVE  /\ PlaceAt(m, l, j) \in Int /\ PlaceAt(m, l, i) = PlaceAt(m, l, j) + (i - j)
         /\ is_mmio(PlaceAt(m, l, i)) <=> is_mmio(PlaceAt(m, l, j))
<1> DEFINE x == l + i
           y == l + j
           p == Physical(m.dir, x)
           q == Physical(m.dir, y)
<1>1. x \in Nat /\ y \in Nat /\ PageOf(x) = PageOf(y) /\ At(m.dir, PageOf(x)) \in Int /\ At(m.dir, PageOf(y)) \in Int
  OBVIOUS
<1> HIDE DEF x, y
<1>2. p - x = q - y /\ p \in Int /\ q \in Int
  BY <1>1, PlacesFollow, PhysicalIs
<1>3. is_mmio(p) <=> is_mmio(q)
  BY <1>1, ScreenFrames
<1> HIDE DEF p, q
<1>4. p = q + (i - j)
  BY <1>1, <1>2 DEF x, y
<1>5. QED
  BY <1>2, <1>3, <1>4 DEF p, q, x, y, PlaceAt

(* A read of bytes that follow each other joins them.                      *)
LEMMA PlainRead ==
  ASSUME Byte = 8, NEW m \in PageMachines, NEW a \in Int, NEW n \in 1 .. 4, a >= 0, a + n <= PHY_MEM,
         \A i \in 0 .. n - 1 : is_mmio(a + i) <=> is_mmio(a)
  PROVE  /\ paddr_read(m, a, n) = Joined([i \in 0 .. n - 1 |-> Cell(m, a + i)], n)
         /\ ~is_mmio(a) => Load(m, a, n) = Joined([i \in 0 .. n - 1 |-> Cell(m, a + i)], n)
<1>1. /\ VMEM_ADDR \in Nat /\ VideoLen \in Nat /\ PHY_MEM \in Nat /\ Word \in Int /\ PHY_MEM <= Word /\ VideoLen <= Word
  <2>1. /\ VMEM_ADDR \in Nat /\ VideoLen \in Nat /\ PHY_MEM \in Nat /\ KOFFSET \in Nat /\ Word \in Int
        /\ KOFFSET + PHY_MEM <= Word
    BY PagingAssumption, WordIs
  <2>2. VideoLen <= PHY_MEM
    <3>1. VMEM_ADDR + VideoLen <= PT_SIZE
      BY PagingAssumption
    <3>2. PT_SIZE = Page * NR_PTE /\ PHY_MEM = Page * MemoryPages /\ Page \in Int /\ Page > 0 /\ NR_PTE \in Int /\ MemoryPages \in Int
          /\ NR_PTE <= MemoryPages /\ PT_SIZE \in Int
      <4>1. NR_PTE <= KernelPages /\ KernelPages <= MemoryPages /\ NR_PTE \in Int /\ KernelPages \in Int /\ MemoryPages \in Int
        BY InPagesHolds DEF InPages
      <4>2. QED
        BY <4>1, InPagesHolds DEF InPages
    <3>3. PT_SIZE <= PHY_MEM
      BY <3>2, Grows
    <3> HIDE DEF Word
    <3>4. QED
      BY <2>1, <3>1, <3>2, <3>3
  <2> DEFINE W == Word
  <2>3. W \in Int /\ KOFFSET + PHY_MEM <= W
    BY <2>1
  <2> HIDE DEF W
  <2>4. PHY_MEM <= W /\ VideoLen <= W
    BY <2>1, <2>2, <2>3
  <2>5. QED
    BY <2>1, <2>4 DEF W
<1> DEFINE b == [i \in 0 .. n - 1 |-> Cell(m, a + i)]
<1>2. CASE ~is_mmio(a)
  <2>1. Load(m, a, n) = PartialSums([i \in 0 .. n - 1 |-> m.mem[a + i] * 2^(Byte * i)], n)[n]
    <3>1. Byte = 8 /\ PHY_MEM \in Nat /\ PHY_MEM <= Word /\ a \in Int /\ n \in 1 .. 4 /\ a >= 0 /\ a + n <= PHY_MEM
      BY <1>1
    <3>2. QED
      BY ONLY <3>1, LoadBytes
  <2>2. [i \in 0 .. n - 1 |-> m.mem[a + i] * 2^(Byte * i)] = [i \in 0 .. n - 1 |-> b[i] * 2^(Byte * i)]
    BY <1>2 DEF Cell
  <2>3. QED
    BY <1>2, <2>1, <2>2 DEF paddr_read, Joined
<1>3. CASE is_mmio(a)
  <2> DEFINE c == a - VMEM_ADDR
             o == OnScreen(m)
  <2>1. c \in Int /\ c >= 0 /\ c + n <= VideoLen
    <3>1. n - 1 \in 0 .. n - 1
      OBVIOUS
    <3>2. is_mmio(a + (n - 1)) /\ is_mmio(a)
      BY <1>3, <3>1
    <3>3. QED
      BY <1>1, <3>2 DEF is_mmio
  <2>2. o.mem = m.screen
    BY DEF OnScreen
  <2>3. Load(o, c, n) = PartialSums([i \in 0 .. n - 1 |-> o.mem[c + i] * 2^(Byte * i)], n)[n]
    <3> HIDE DEF o, c
    <3>1. Byte = 8 /\ VideoLen \in Nat /\ VideoLen <= Word /\ c \in Int /\ n \in 1 .. 4 /\ c >= 0 /\ c + n <= VideoLen
      BY <1>1, <2>1
    <3>2. QED
      BY ONLY <3>1, LoadBytes
  <2>4. \A i \in 0 .. n - 1 : o.mem[c + i] = b[i]
    <3> SUFFICES ASSUME NEW i \in 0 .. n - 1 PROVE o.mem[c + i] = b[i]
      OBVIOUS
    <3>1. c + i = (a + i) - VMEM_ADDR
      BY <1>1
    <3>2. b[i] = m.screen[(a + i) - VMEM_ADDR]
      BY <1>3 DEF Cell
    <3> HIDE DEF b, c, o
    <3>3. QED
      BY <2>2, <3>1, <3>2
  <2>5. [i \in 0 .. n - 1 |-> o.mem[c + i] * 2^(Byte * i)] = [i \in 0 .. n - 1 |-> b[i] * 2^(Byte * i)]
    <3> HIDE DEF b, c, o
    <3>1. QED
      BY <2>4
  <2>6. Load(o, c, n) = Joined(b, n)
    BY <2>3, <2>5 DEF Joined
  <2>7. QED
    BY <1>3, <2>6 DEF paddr_read
<1>4. QED
  BY <1>2, <1>3

(* How memory.c puts the two halves of a read across pages together.       *)
Whole(dataL, dataH, len, k) ==
  Halved(Doubled((dataL + Doubled(dataH, k * Byte)) % Word, Host - (len * Byte)), Host - (len * Byte))

Join(c0, c1, c2, c3) ==
  /\ Whole(Together(c0, 0, 0, 0), Together(c1, 0, 0, 0), 2, 1) = Together(c0, c1, 0, 0)
  /\ Whole(Together(c0, 0, 0, 0), Together(c1, c2, c3, 0), 4, 1) = Together(c0, c1, c2, c3)
  /\ Whole(Together(c0, c1, 0, 0), Together(c2, c3, 0, 0), 4, 2) = Together(c0, c1, c2, c3)
  /\ Whole(Together(c0, c1, c2, 0), Together(c3, 0, 0, 0), 4, 3) = Together(c0, c1, c2, c3)

(* The halves make the whole, wherever the page ends.                      *)
LEMMA HalvesJoin ==
  ASSUME Byte = 8, NEW c0 \in 0 .. 255, NEW c1 \in 0 .. 255, NEW c2 \in 0 .. 255, NEW c3 \in 0 .. 255
  PROVE  Join(c0, c1, c2, c3)
<1> DEFINE v == Together(c0, c1, c2, c3)
           u == Together(c0, c1, 0, 0)
<1>1. /\ Host - (2 * Byte) = 16 /\ Host - (4 * Byte) = 0 /\ 1 * Byte = 8 /\ 2 * Byte = 16 /\ 3 * Byte = 24
  BY SMT DEF Host
<1>0. /\ Byte = 8 /\ 0 \in 0 .. 255 /\ c0 \in 0 .. 255 /\ c1 \in 0 .. 255 /\ c2 \in 0 .. 255 /\ c3 \in 0 .. 255
  OBVIOUS
<1>2. /\ Doubled(Together(c1, 0, 0, 0), 8) = Together(0, c1, 0, 0)
      /\ Doubled(Together(c1, c2, c3, 0), 8) = Together(0, c1, c2, c3)
      /\ Doubled(Together(c2, c3, 0, 0), 16) = Together(0, 0, c2, c3)
      /\ Doubled(Together(c3, 0, 0, 0), 24) = Together(0, 0, 0, c3)
  <2>1. /\ Shifted(c1, 0, 0, 0) /\ Shifted(c1, c2, c3, 0)
        /\ Shifted(c2, c3, 0, 0) /\ Shifted(c3, 0, 0, 0)
    BY ONLY <1>0, ByteShifts, Zenon
  <2>2. QED
    BY <2>1 DEF Shifted, DoubledTo
<1>3. /\ Together(c0, 0, 0, 0) + Together(0, c1, 0, 0) = u
      /\ Together(c0, 0, 0, 0) + Together(0, c1, c2, c3) = v
      /\ Together(c0, c1, 0, 0) + Together(0, 0, c2, c3) = v
      /\ Together(c0, c1, c2, 0) + Together(0, 0, 0, c3) = v
  BY SMT DEF Together
<1>4. v % Word = v /\ Doubled(v, 0) = v /\ Halved(v, 0) = v
  <2>1. Shifted(c0, c1, c2, c3)
    BY ONLY <1>0, ByteShifts, Zenon
  <2>2. QED
    BY <2>1 DEF Shifted, DoubledTo, HalvedTo
<1>5. u % Word = u /\ Doubled(u, 16) = Together(0, 0, c0, c1) /\ Halved(Together(0, 0, c0, c1), 16) = u
  <2>1. Shifted(c0, c1, 0, 0) /\ Shifted(0, 0, c0, c1)
    BY ONLY <1>0, ByteShifts, Zenon
  <2>2. QED
    BY <2>1 DEF Shifted, DoubledTo, HalvedTo
<1> HIDE DEF u, v
<1>6. Whole(Together(c0, 0, 0, 0), Together(c1, 0, 0, 0), 2, 1) = u
  BY <1>1, <1>2, <1>3, <1>5 DEF Whole
<1>7. Whole(Together(c0, 0, 0, 0), Together(c1, c2, c3, 0), 4, 1) = v
  BY <1>1, <1>2, <1>3, <1>4 DEF Whole
<1>8. Whole(Together(c0, c1, 0, 0), Together(c2, c3, 0, 0), 4, 2) = v
  BY <1>1, <1>2, <1>3, <1>4 DEF Whole
<1>9. Whole(Together(c0, c1, c2, 0), Together(c3, 0, 0, 0), 4, 3) = v
  BY <1>1, <1>2, <1>3, <1>4 DEF Whole
<1>10. QED
  BY <1>6, <1>7, <1>8, <1>9 DEF u, v, Join

(* A read joins the bytes at the places of its addresses.                  *)
Unsplit(m, l, len) == Crosses(l, len) => \A i \in 0 .. len - 1 : ~is_mmio(PlaceAt(m, l, i))
CellsAt(m, l, n) == [i \in 0 .. n - 1 |-> Cell(m, PlaceAt(m, l, i))]

(* It does in one page, and across two that are not of the screen.         *)
LEMMA ReadJoins ==
  ASSUME Byte = 8, NEW m \in PageMachines, NEW l \in Nat, NEW len \in {1, 2, 4}, Reached(m, l, len), Unsplit(m, l, len)
  PROVE  laddr_read(m, l, len) = Joined(CellsAt(m, l, len), len)
<1> DEFINE p(i) == PlaceAt(m, l, i)
           c(i) == Cell(m, p(i))
<1>1. \A i \in 0 .. len - 1 : i \in 0 .. 4 /\ At(m.dir, PageOf(l + i)) \in Int /\ p(i) \in 0 .. PHY_MEM - 1
  BY DEF Reached
<1>2. \A i \in 0 .. len - 1 : c(i) \in 0 .. 255
  BY <1>1, CellIs
<1>3. PHY_MEM \in Nat /\ len \in 1 .. 4 /\ 0 \in 0 .. len - 1 /\ l + 0 = l
  BY PagingAssumption
<1>4. p(0) = page_translate(m, l)
  BY <1>3 DEF PlaceAt, page_translate
<1> HIDE DEF p, c
<1>5. ASSUME NEW j \in 0 .. len - 1, NEW n \in 1 .. 4, j + n <= len, \A i \in j .. j + n - 1 : PageOf(l + i) = PageOf(l + j)
      PROVE  LET g == [i \in 0 .. n - 1 |-> c(j + i)]
             IN /\ paddr_read(m, p(j), n) = Joined(g, n)
                /\ ~is_mmio(p(j)) => Load(m, p(j), n) = Joined(g, n)
  <2>1. ASSUME NEW i \in 0 .. n - 1
        PROVE  p(j + i) = p(j) + i /\ (is_mmio(p(j) + i) <=> is_mmio(p(j))) /\ p(j) \in Int /\ p(j) + i \in 0 .. PHY_MEM - 1
    <3> DEFINE k == j + i
    <3>1. k \in 0 .. len - 1 /\ k \in j .. j + n - 1 /\ k - j = i /\ j \in 0 .. 4 /\ k \in 0 .. 4
      BY <1>3, <1>5
    <3> HIDE DEF k
    <3>2. PageOf(l + k) = PageOf(l + j) /\ At(m.dir, PageOf(l + k)) \in Int
      BY <1>1, <1>5, <3>1
    <3>3. p(j) \in Int /\ p(k) = p(j) + (k - j) /\ (is_mmio(p(k)) <=> is_mmio(p(j)))
      BY <3>1, <3>2, OnePage DEF p
    <3>4. p(k) = p(j) + i /\ p(k) \in 0 .. PHY_MEM - 1
      BY <1>1, <3>1, <3>3
    <3>5. QED
      BY <3>3, <3>4 DEF k
  <2> DEFINE a == p(j)
  <2>2. a \in Int /\ a >= 0 /\ a + n <= PHY_MEM
    <3>1. 0 \in 0 .. n - 1 /\ n - 1 \in 0 .. n - 1
      BY <1>5
    <3>2. a \in Int /\ a + 0 \in 0 .. PHY_MEM - 1 /\ a + (n - 1) \in 0 .. PHY_MEM - 1
      BY <2>1, <3>1
    <3> HIDE DEF a
    <3>3. QED
      BY <1>3, <1>5, <3>2
  <2>3. \A i \in 0 .. n - 1 : is_mmio(a + i) <=> is_mmio(a)
    BY <2>1
  <2>4. [i \in 0 .. n - 1 |-> Cell(m, a + i)] = [i \in 0 .. n - 1 |-> c(j + i)]
    <3>1. \A i \in 0 .. n - 1 : Cell(m, a + i) = c(j + i)
      BY <2>1 DEF c
    <3> HIDE DEF a
    <3>2. QED
      BY <3>1
  <2> HIDE DEF a
  <2>5. /\ paddr_read(m, a, n) = Joined([i \in 0 .. n - 1 |-> Cell(m, a + i)], n)
        /\ ~is_mmio(a) => Load(m, a, n) = Joined([i \in 0 .. n - 1 |-> Cell(m, a + i)], n)
    BY <1>5, <2>2, <2>3, PlainRead
  <2>6. QED
    BY <2>4, <2>5 DEF a
<1>6. CellsAt(m, l, len) = [i \in 0 .. len - 1 |-> c(i)]
  BY DEF CellsAt, c, p
<1>7. CASE ~Crosses(l, len)
  <2>1. \A i \in 0 .. 0 + len - 1 : PageOf(l + i) = PageOf(l + 0)
    <3>1. \A i \in 0 .. len - 1 : PageOf(l + i) = PageOf(l)
      BY <1>3, <1>7, CrossesWhere
    <3>2. 0 + len - 1 = len - 1
      BY <1>3
    <3>3. QED
      BY <1>3, <3>1, <3>2
  <2>2. 0 + len <= len
    BY <1>3
  <2>3. paddr_read(m, p(0), len) = Joined([i \in 0 .. len - 1 |-> c(0 + i)], len)
    BY <1>3, <1>5, <2>1, <2>2
  <2>4. [i \in 0 .. len - 1 |-> c(0 + i)] = [i \in 0 .. len - 1 |-> c(i)]
    <3>1. \A i \in 0 .. len - 1 : 0 + i = i
      OBVIOUS
    <3>2. QED
      BY <3>1
  <2>5. QED
    BY <1>4, <1>6, <1>7, <2>3, <2>4 DEF laddr_read
<1>8. CASE Crosses(l, len)
  <2> DEFINE k == LowPart(l)
  <2>1. InTwo(l, len, k)
    BY <1>3, <1>8, CrossesWhere
  <2> HIDE DEF k
  <2>2. k \in 1 .. len - 1 /\ k \in 0 .. len - 1 /\ k \in 1 .. 4 /\ len - k \in 1 .. 4
    BY <1>3, <2>1 DEF InTwo
  <2>3. Load(m, p(0), k) = Joined([i \in 0 .. k - 1 |-> c(0 + i)], k)
    <3>1. \A i \in 0 .. 0 + k - 1 : PageOf(l + i) = PageOf(l + 0)
      <4>1. \A i \in 0 .. k - 1 : PageOf(l + i) = PageOf(l)
        BY <2>1 DEF InTwo
      <4>2. 0 + k - 1 = k - 1
        BY <2>2
      <4>3. QED
        BY <1>3, <4>1, <4>2
    <3>2. 0 + k <= len /\ ~is_mmio(p(0))
      BY <1>3, <1>8, <2>2 DEF Unsplit, p
    <3>3. QED
      BY <1>3, <1>5, <2>2, <3>1, <3>2
  <2>4. Load(m, p(k), len - k) = Joined([i \in 0 .. (len - k) - 1 |-> c(k + i)], len - k)
    <3> DEFINE n == len - k
    <3>1. n \in 1 .. 4 /\ k + n <= len /\ ~is_mmio(p(k)) /\ k + n - 1 = len - 1
      BY <1>3, <1>8, <2>2 DEF Unsplit, p
    <3>2. \A i \in k .. k + n - 1 : PageOf(l + i) = PageOf(l + k)
      <4> HIDE DEF n
      <4>1. QED
        BY <2>1, <3>1 DEF InTwo
    <3> HIDE DEF n
    <3>3. Load(m, p(k), n) = Joined([i \in 0 .. n - 1 |-> c(k + i)], n)
      BY <1>5, <2>2, <3>1, <3>2
    <3>4. QED
      BY <3>3 DEF n
  <2> DEFINE dataL == Load(m, p(0), k)
             dataH == Load(m, p(k), len - k)
  <2>5. laddr_read(m, l, len) = Whole(dataL, dataH, len, k)
    <3>1. p(k) = page_translate(m, l + k)
      BY DEF p, PlaceAt, page_translate
    <3>2. QED
      BY <1>4, <1>8, <3>1 DEF laddr_read, Whole, k
  <2>6. \A i \in 0 .. k - 1 : 0 + i = i /\ i \in 0 .. len - 1
    BY <2>2
  <2>7. \A i \in 0 .. (len - k) - 1 : k + i \in 0 .. len - 1
    BY <2>2
  <2> DEFINE gL == [i \in 0 .. k - 1 |-> c(0 + i)]
             gH == [i \in 0 .. (len - k) - 1 |-> c(k + i)]
             g == [i \in 0 .. len - 1 |-> c(i)]
  <2>8. dataL = Together(gL[0], IF k > 1 THEN gL[1] ELSE 0, IF k > 2 THEN gL[2] ELSE 0, IF k > 3 THEN gL[3] ELSE 0)
    <3>1. \A i \in 0 .. k - 1 : gL[i] \in 0 .. 255
      BY <1>2, <2>6
    <3> HIDE DEF gL
    <3>2. QED
      BY <2>2, <2>3, <3>1, JoinedIs DEF gL
  <2>9. dataH = Together(gH[0], IF len - k > 1 THEN gH[1] ELSE 0, IF len - k > 2 THEN gH[2] ELSE 0,
                         IF len - k > 3 THEN gH[3] ELSE 0)
    <3>1. \A i \in 0 .. (len - k) - 1 : gH[i] \in 0 .. 255
      BY <1>2, <2>7
    <3> HIDE DEF gH
    <3>2. QED
      BY <2>2, <2>4, <3>1, JoinedIs DEF gH
  <2>10. Joined(g, len) = Together(g[0], IF len > 1 THEN g[1] ELSE 0, IF len > 2 THEN g[2] ELSE 0,
                                   IF len > 3 THEN g[3] ELSE 0)
    <3>1. \A i \in 0 .. len - 1 : g[i] \in 0 .. 255
      BY <1>2
    <3> HIDE DEF g
    <3>2. QED
      BY <1>3, <3>1, JoinedIs
  <2> HIDE DEF dataL, dataH
  <2>11. Whole(dataL, dataH, len, k) = Joined(g, len)
    <3>1. CASE len = 2 /\ k = 1
      <4>1. Byte = 8 /\ c(0) \in 0 .. 255 /\ c(1) \in 0 .. 255 /\ 0 \in 0 .. 255
        BY <1>2, <3>1
      <4>2. dataL = Together(c(0), 0, 0, 0) /\ dataH = Together(c(1), 0, 0, 0) /\ Joined(g, len) = Together(c(0), c(1), 0, 0)
        <5>1. gL[0] = c(0) /\ gH[0] = c(1) /\ g[0] = c(0) /\ g[1] = c(1)
          BY <3>1
        <5> HIDE DEF gL, gH, g
        <5>2. QED
          BY <2>8, <2>9, <2>10, <3>1, <5>1
      <4> HIDE DEF g
      <4>3. QED
        <5>1. Join(c(0), c(1), 0, 0)
          BY ONLY <4>1, HalvesJoin, Zenon
        <5>2. QED
          BY <3>1, <4>2, <5>1 DEF Join
    <3>2. CASE len = 4
      <4>1. Byte = 8 /\ c(0) \in 0 .. 255 /\ c(1) \in 0 .. 255 /\ c(2) \in 0 .. 255 /\ c(3) \in 0 .. 255
        BY <1>2, <3>2
      <4>2. Joined(g, len) = Together(c(0), c(1), c(2), c(3))
        <5>1. g[0] = c(0) /\ g[1] = c(1) /\ g[2] = c(2) /\ g[3] = c(3)
          BY <3>2
        <5> HIDE DEF g
        <5>2. QED
          BY <2>10, <3>2, <5>1
      <4> HIDE DEF g
      <4>7. Join(c(0), c(1), c(2), c(3))
        BY ONLY <4>1, HalvesJoin, Zenon
      <4>3. CASE k = 1
        <5>1. gL[0] = c(0) /\ gH[0] = c(1) /\ gH[1] = c(2) /\ gH[2] = c(3)
          BY <3>2, <4>3
        <5> HIDE DEF gL, gH, g
        <5>2. dataL = Together(c(0), 0, 0, 0) /\ dataH = Together(c(1), c(2), c(3), 0)
          BY <2>8, <2>9, <3>2, <4>3, <5>1
        <5>3. QED
          BY <3>2, <4>2, <4>3, <4>7, <5>2 DEF Join
      <4>4. CASE k = 2
        <5>1. gL[0] = c(0) /\ gL[1] = c(1) /\ gH[0] = c(2) /\ gH[1] = c(3)
          BY <3>2, <4>4
        <5> HIDE DEF gL, gH, g
        <5>2. dataL = Together(c(0), c(1), 0, 0) /\ dataH = Together(c(2), c(3), 0, 0)
          BY <2>8, <2>9, <3>2, <4>4, <5>1
        <5>3. QED
          BY <3>2, <4>2, <4>4, <4>7, <5>2 DEF Join
      <4>5. CASE k = 3
        <5>1. gL[0] = c(0) /\ gL[1] = c(1) /\ gL[2] = c(2) /\ gH[0] = c(3)
          BY <3>2, <4>5
        <5> HIDE DEF gL, gH, g
        <5>2. dataL = Together(c(0), c(1), c(2), 0) /\ dataH = Together(c(3), 0, 0, 0)
          BY <2>8, <2>9, <3>2, <4>5, <5>1
        <5>3. QED
          BY <3>2, <4>2, <4>5, <4>7, <5>2 DEF Join
      <4>6. QED
        BY <2>2, <3>2, <4>3, <4>4, <4>5
    <3>3. QED
      BY <2>2, <3>1, <3>2
  <2>12. QED
    BY <1>6, <2>5, <2>11
<1>9. QED
  BY <1>7, <1>8

(* A write of bytes that follow each other changes those.                  *)
Wrote(m, out, a, n, v) ==
  /\ \A i \in 0 .. n - 1 : Cell(out, a + i) = Digit(v, i)
  /\ \A x \in 0 .. PHY_MEM - 1 : x \notin a .. a + n - 1 => Cell(out, x) = Cell(m, x)
Kept(m, out) == out \in PageMachines /\ out.dir = m.dir

(* A store to memory does, away from the screen.                           *)
LEMMA PlainStore ==
  ASSUME Byte = 8, NEW m \in PageMachines, NEW a \in Int, NEW n \in 1 .. 4, NEW v \in Int
  PROVE  LET out == Store(m, a, n, v)
         IN /\ Kept(m, out)
            /\ a >= 0 /\ a + n <= PHY_MEM /\ (\A i \in 0 .. n - 1 : ~is_mmio(a + i)) => Wrote(m, out, a, n, v)
<1> DEFINE out == Store(m, a, n, v)
           d == m.dir
           s == m.screen
           y == out.mem
<1>1. m = [dir |-> d, mem |-> m.mem, screen |-> s] /\ d \in Directories /\ s \in Screens
      /\ m.mem \in [0 .. PHY_MEM - 1 -> Octets] /\ "mem" \in DOMAIN m
  BY DEF PageMachines, Memories, Octets
<1>2. PHY_MEM \in Nat /\ PHY_MEM <= Word
  <2> DEFINE W == Word
  <2>1. W \in Int /\ KOFFSET \in Nat /\ PHY_MEM \in Nat /\ KOFFSET + PHY_MEM <= W
    BY WordIs, PagingAssumption
  <2> HIDE DEF W
  <2>2. QED
    BY <2>1 DEF W
<1>3. /\ out = [m EXCEPT !.mem = y] /\ y \in [0 .. PHY_MEM - 1 -> Octets]
      /\ a >= 0 /\ a + n <= PHY_MEM =>
           /\ \A i \in 0 .. n - 1 : y[a + i] = Digit(v, i)
           /\ \A b \in 0 .. PHY_MEM - 1 : b \notin a .. a + n - 1 => y[b] = m.mem[b]
  <2>1. Byte = 8 /\ PHY_MEM \in Nat /\ PHY_MEM <= Word /\ m.mem \in [0 .. PHY_MEM - 1 -> Octets]
        /\ a \in Int /\ n \in 1 .. 4 /\ v \in Int
    BY <1>1, <1>2
  <2>2. StoresIn(m, out, PHY_MEM, a, n, v)
    BY ONLY <2>1, StoreBytes
  <2> HIDE DEF out
  <2>3. QED
    BY <1>1, <2>2 DEF StoresIn
<1> HIDE DEF y, out
<1>4. out = [dir |-> d, mem |-> y, screen |-> s]
  <2> HIDE DEF d, s
  <2>1. QED
    BY <1>1, <1>3
<1>5. y \in Memories
  BY <1>3 DEF Memories, Octets
<1> HIDE DEF d, s
<1>6. out \in PageMachines /\ out.dir = d /\ out.screen = s
  BY <1>1, <1>4, <1>5 DEF PageMachines
<1>7. ASSUME a >= 0, a + n <= PHY_MEM, \A i \in 0 .. n - 1 : ~is_mmio(a + i)
      PROVE  Wrote(m, out, a, n, v)
  <2>1. \A i \in 0 .. n - 1 : Cell(out, a + i) = Digit(v, i)
    BY <1>3, <1>4, <1>7 DEF Cell
  <2>2. \A x \in 0 .. PHY_MEM - 1 : x \notin a .. a + n - 1 => Cell(out, x) = Cell(m, x)
    BY <1>3, <1>4, <1>6, <1>7 DEF Cell, s
  <2>3. QED
    BY <2>1, <2>2 DEF Wrote
<1>8. QED
  BY <1>6, <1>7 DEF out, d, Kept

(* A write does, on the screen or away from it.                            *)
LEMMA PlainWrite ==
  ASSUME Byte = 8, NEW m \in PageMachines, NEW a \in Int, NEW n \in 1 .. 4, NEW v \in Int
  PROVE  LET out == paddr_write(m, a, n, v)
         IN /\ Kept(m, out)
            /\ a >= 0 /\ a + n <= PHY_MEM /\ (\A i \in 0 .. n - 1 : is_mmio(a + i) <=> is_mmio(a)) =>
                 Wrote(m, out, a, n, v)
<1>1. CASE ~is_mmio(a)
  <2>1. paddr_write(m, a, n, v) = Store(m, a, n, v)
    BY <1>1 DEF paddr_write
  <2>2. QED
    BY <1>1, <2>1, PlainStore
<1>2. CASE is_mmio(a)
  <2> DEFINE out == paddr_write(m, a, n, v)
             c == a - VMEM_ADDR
             o == OnScreen(m)
             d == m.dir
             g == m.mem
             stored_ == Store(o, c, n, v)
             y == stored_.mem
  <2>1. /\ m = [dir |-> d, mem |-> g, screen |-> m.screen] /\ d \in Directories /\ g \in Memories
        /\ o.mem = m.screen /\ m.screen \in [0 .. VideoLen - 1 -> Octets] /\ "mem" \in DOMAIN o
    BY DEF PageMachines, Screens, Octets, OnScreen
  <2>2. VideoLen \in Nat /\ VideoLen <= Word /\ VMEM_ADDR \in Nat /\ c \in Int /\ PHY_MEM \in Nat
    <3>1. VMEM_ADDR \in Nat /\ VideoLen \in Nat /\ PHY_MEM \in Nat /\ KOFFSET \in Nat /\ KOFFSET + PHY_MEM <= Word
          /\ Word \in Int
      BY PagingAssumption, WordIs
    <3>2. VMEM_ADDR + VideoLen <= PT_SIZE
      BY PagingAssumption
    <3>3. PT_SIZE = Page * NR_PTE /\ PHY_MEM = Page * MemoryPages /\ Page \in Int /\ Page > 0 /\ NR_PTE \in Int /\ MemoryPages \in Int
          /\ NR_PTE <= MemoryPages /\ PT_SIZE \in Int
      <4>1. NR_PTE <= KernelPages /\ KernelPages <= MemoryPages /\ NR_PTE \in Int /\ KernelPages \in Int /\ MemoryPages \in Int
        BY InPagesHolds DEF InPages
      <4>2. QED
        BY <4>1, InPagesHolds DEF InPages
    <3>4. PT_SIZE <= PHY_MEM
      BY <3>3, Grows
    <3> DEFINE W == Word
    <3>5. W \in Int /\ KOFFSET + PHY_MEM <= W
      BY <3>1
    <3> HIDE DEF W
    <3>6. VideoLen <= W
      BY <3>1, <3>2, <3>3, <3>4, <3>5
    <3>7. QED
      BY <3>1, <3>6 DEF W
  <2>3. out = [m EXCEPT !.screen = y]
    BY <1>2 DEF paddr_write
  <2> HIDE DEF out
  <2>4. /\ y \in [0 .. VideoLen - 1 -> Octets]
        /\ c >= 0 /\ c + n <= VideoLen =>
             /\ \A i \in 0 .. n - 1 : y[c + i] = Digit(v, i)
             /\ \A b \in 0 .. VideoLen - 1 : b \notin c .. c + n - 1 => y[b] = m.screen[b]
    <3> HIDE DEF o, c
    <3>1. Byte = 8 /\ VideoLen \in Nat /\ VideoLen <= Word /\ o.mem \in [0 .. VideoLen - 1 -> Octets]
          /\ c \in Int /\ n \in 1 .. 4 /\ v \in Int
      BY <2>1, <2>2
    <3>2. StoresIn(o, stored_, VideoLen, c, n, v)
      BY ONLY <3>1, StoreBytes
    <3> HIDE DEF stored_
    <3>3. QED
      BY <2>1, <3>2 DEF StoresIn
  <2> HIDE DEF y, o, stored_
  <2>5. out = [dir |-> d, mem |-> g, screen |-> y]
    <3> HIDE DEF d, g
    <3>1. QED
      BY <2>1, <2>3
  <2>6. y \in Screens
    BY <2>4 DEF Screens, Octets
  <2>7. out \in PageMachines /\ out.dir = d /\ out.mem = g /\ out.screen = y
    BY <2>1, <2>5, <2>6 DEF PageMachines
  <2>8. ASSUME a >= 0, a + n <= PHY_MEM, \A i \in 0 .. n - 1 : is_mmio(a + i) <=> is_mmio(a)
        PROVE  Wrote(m, out, a, n, v)
    <3>1. c >= 0 /\ c + n <= VideoLen
      <4>1. n - 1 \in 0 .. n - 1
        OBVIOUS
      <4>2. is_mmio(a + (n - 1)) /\ is_mmio(a)
        BY <1>2, <2>8, <4>1
      <4>3. QED
        BY <2>2, <4>2 DEF is_mmio
    <3>2. ASSUME NEW i \in 0 .. n - 1 PROVE Cell(out, a + i) = Digit(v, i)
      <4>1. (a + i) - VMEM_ADDR = c + i /\ is_mmio(a + i)
        BY <1>2, <2>2, <2>8
      <4>2. Cell(out, a + i) = y[c + i]
        BY <2>7, <4>1 DEF Cell
      <4> HIDE DEF c
      <4>3. QED
        BY <2>4, <3>1, <4>2
    <3>3. ASSUME NEW x \in 0 .. PHY_MEM - 1, x \notin a .. a + n - 1 PROVE Cell(out, x) = Cell(m, x)
      <4>1. CASE is_mmio(x)
        <5> DEFINE b == x - VMEM_ADDR
        <5>1. b \in 0 .. VideoLen - 1 /\ b \notin c .. c + n - 1
          BY <2>2, <3>3, <4>1 DEF is_mmio
        <5>2. y[b] = m.screen[b]
          <6> HIDE DEF b, c
          <6>1. QED
            BY <2>4, <3>1, <5>1
        <5>3. QED
          BY <2>7, <4>1, <5>2 DEF Cell
      <4>2. CASE ~is_mmio(x)
        BY <2>7, <4>2 DEF Cell
      <4>3. QED
        BY <4>1, <4>2
    <3>4. QED
      BY <3>2, <3>3 DEF Wrote
  <2>9. QED
    BY <2>7, <2>8 DEF out, d, Kept
<1>3. QED
  BY <1>1, <1>2

(* Without its last bytes, and without its first ones, a word keeps the    *)
(* others.                                                                 *)
DropsLast(v, e) ==
  LET x == Halved(Doubled(v, e * Byte), e * Byte)
  IN x \in Int /\ \A i \in 0 .. 3 - e : Digit(x, i) = Digit(v, i)
DropsFirst(v, e) ==
  LET x == Halved(v, e * Byte)
  IN x \in Int /\ \A i \in 0 .. 3 - e : Digit(x, i) = Digit(v, i + e)

(* The shifts of laddr_write leave the digits of each half.                *)
LEMMA WordSplits ==
  ASSUME Byte = 8, NEW v \in 0 .. Word - 1, NEW e \in 1 .. 3
  PROVE  DropsLast(v, e) /\ DropsFirst(v, e)
<1> DEFINE b0 == Digit(v, 0)
           b1 == Digit(v, 1)
           b2 == Digit(v, 2)
           b3 == Digit(v, 3)
<1>1. /\ Byte = 8 /\ 0 \in 0 .. 255 /\ b0 \in 0 .. 255 /\ b1 \in 0 .. 255 /\ b2 \in 0 .. 255 /\ b3 \in 0 .. 255
  BY FourBytes
<1>2. v = Together(b0, b1, b2, b3)
  BY FourBytes
<1> HIDE DEF b0, b1, b2, b3
<1>3. Shifted(b0, b1, b2, b3)
  BY ONLY <1>1, ByteShifts, Zenon
<1>4. Shifted(0, b0, b1, b2) /\ Shifted(0, 0, b0, b1) /\ Shifted(0, 0, 0, b0)
  BY ONLY <1>1, ByteShifts, Zenon
<1>5. Shifted(b1, b2, b3, 0) /\ Shifted(b2, b3, 0, 0) /\ Shifted(b3, 0, 0, 0)
  BY ONLY <1>1, ByteShifts, Zenon
<1>6. Shifted(b0, b1, b2, 0) /\ Shifted(b0, b1, 0, 0) /\ Shifted(b0, 0, 0, 0)
  BY ONLY <1>1, ByteShifts, Zenon
<1>7. /\ Halved(v, 8) = Together(b1, b2, b3, 0) /\ Halved(v, 16) = Together(b2, b3, 0, 0) /\ Halved(v, 24) = Together(b3, 0, 0, 0)
      /\ Doubled(v, 8) = Together(0, b0, b1, b2) /\ Doubled(v, 16) = Together(0, 0, b0, b1) /\ Doubled(v, 24) = Together(0, 0, 0, b0)
  BY <1>2, <1>3 DEF Shifted, HalvedTo, DoubledTo
<1>8. /\ Halved(Together(0, b0, b1, b2), 8) = Together(b0, b1, b2, 0)
      /\ Halved(Together(0, 0, b0, b1), 16) = Together(b0, b1, 0, 0)
      /\ Halved(Together(0, 0, 0, b0), 24) = Together(b0, 0, 0, 0)
  BY <1>4 DEF Shifted, HalvedTo
<1> DEFINE DigitsAt(x, c0, c1, c2) ==
             x \in Int /\ Digit(x, 0) = c0 /\ Digit(x, 1) = c1 /\ Digit(x, 2) = c2
<1>9. ASSUME NEW c0 \in 0 .. 255, NEW c1 \in 0 .. 255, NEW c2 \in 0 .. 255, Shifted(c0, c1, c2, 0)
      PROVE  DigitsAt(Together(c0, c1, c2, 0), c0, c1, c2)
  <2>1. Byte = 8 /\ c0 \in 0 .. 255 /\ c1 \in 0 .. 255 /\ c2 \in 0 .. 255 /\ 0 \in 0 .. 255
    BY <1>1
  <2>2. DigitsOf(Together(c0, c1, c2, 0), c0, c1, c2, 0)
    BY ONLY <2>1, DigitsAre, Zenon
  <2>3. Together(c0, c1, c2, 0) \in Int
    BY <1>9 DEF Shifted
  <2>4. QED
    BY <2>2, <2>3 DEF DigitsOf, Digit
<1> HIDE DEF DigitsAt
<1>10. /\ DigitsAt(Together(b1, b2, b3, 0), b1, b2, b3) /\ DigitsAt(Together(b2, b3, 0, 0), b2, b3, 0)
       /\ DigitsAt(Together(b3, 0, 0, 0), b3, 0, 0)
  BY <1>1, <1>5, <1>9, Zenon
<1>11. /\ DigitsAt(Together(b0, b1, b2, 0), b0, b1, b2) /\ DigitsAt(Together(b0, b1, 0, 0), b0, b1, 0)
       /\ DigitsAt(Together(b0, 0, 0, 0), b0, 0, 0)
  BY <1>1, <1>6, <1>9, Zenon
<1>12. Byte = 8
  OBVIOUS
<1>13. CASE e = 1
  <2>1. e * Byte = 8 /\ 0 .. 3 - e = {0, 1, 2}
    BY <1>12, <1>13
  <2>2. Halved(v, e * Byte) = Together(b1, b2, b3, 0)
        /\ Halved(Doubled(v, e * Byte), e * Byte) = Together(b0, b1, b2, 0)
    BY <1>7, <1>8, <2>1
  <2>3. 0 + e = 1 /\ 1 + e = 2 /\ 2 + e = 3
    BY <1>13
  <2>4. QED
    BY <1>10, <1>11, <2>1, <2>2, <2>3 DEF DropsLast, DropsFirst, DigitsAt, b0, b1, b2, b3
<1>14. CASE e = 2
  <2>1. e * Byte = 16 /\ 0 .. 3 - e = {0, 1}
    BY <1>12, <1>14
  <2>2. Halved(v, e * Byte) = Together(b2, b3, 0, 0)
        /\ Halved(Doubled(v, e * Byte), e * Byte) = Together(b0, b1, 0, 0)
    BY <1>7, <1>8, <2>1
  <2>3. 0 + e = 2 /\ 1 + e = 3
    BY <1>14
  <2>4. QED
    BY <1>10, <1>11, <2>1, <2>2, <2>3 DEF DropsLast, DropsFirst, DigitsAt, b0, b1, b2, b3
<1>15. CASE e = 3
  <2>1. e * Byte = 24 /\ 0 .. 3 - e = {0}
    BY <1>12, <1>15
  <2>2. Halved(v, e * Byte) = Together(b3, 0, 0, 0)
        /\ Halved(Doubled(v, e * Byte), e * Byte) = Together(b0, 0, 0, 0)
    BY <1>7, <1>8, <2>1
  <2>3. 0 + e = 3
    BY <1>15
  <2>4. QED
    BY <1>10, <1>11, <2>1, <2>2, <2>3 DEF DropsLast, DropsFirst, DigitsAt, b0, b1, b2, b3
<1>16. QED
  BY <1>13, <1>14, <1>15

(* A write changes the bytes at the places of its addresses.               *)
Changes(m, out, l, len, data) ==
  \A x \in 0 .. PHY_MEM - 1 :
    /\ \A i \in 0 .. len - 1 : x = PlaceAt(m, l, i) => Cell(out, x) = Digit(data, i)
    /\ (\A i \in 0 .. len - 1 : x # PlaceAt(m, l, i)) => Cell(out, x) = Cell(m, x)

(* It does in one page, and across two that are not of the screen.         *)
LEMMA WriteChanges ==
  ASSUME Byte = 8, NEW m \in PageMachines, NEW l \in Nat, NEW len \in {1, 2, 4}, NEW data \in 0 .. Word - 1,
         Reached(m, l, len)
  PROVE  LET out == laddr_write(m, l, len, data)
         IN Kept(m, out) /\ (Unsplit(m, l, len) => Changes(m, out, l, len, data))
<1> DEFINE p(i) == PlaceAt(m, l, i)
           out == laddr_write(m, l, len, data)
<1>1. \A i \in 0 .. len - 1 : i \in 0 .. 4 /\ At(m.dir, PageOf(l + i)) \in Int /\ p(i) \in 0 .. PHY_MEM - 1 /\ p(i) \in Int
  <2>1. PHY_MEM \in Nat
    BY PagingAssumption
  <2>2. QED
    BY <2>1 DEF Reached
<1>2. PHY_MEM \in Nat /\ len \in 1 .. 4 /\ 0 \in 0 .. len - 1 /\ l + 0 = l
  BY PagingAssumption
<1>3. p(0) = page_translate(m, l)
  BY <1>2 DEF PlaceAt, page_translate
<1>4. data \in Int
  BY WordIs
<1> HIDE DEF p
<1>5. ASSUME NEW i \in 0 .. len - 1, NEW j \in 0 .. len - 1, PageOf(l + i) = PageOf(l + j)
      PROVE  p(i) = p(j) + (i - j) /\ (is_mmio(p(i)) <=> is_mmio(p(j)))
  BY <1>1, <1>5, OnePage DEF p
<1>6. CASE ~Crosses(l, len)
  <2> DEFINE a == p(0)
  <2>1. out = paddr_write(m, a, len, data)
    BY <1>3, <1>6 DEF laddr_write
  <2>2. \A i \in 0 .. len - 1 : p(i) = a + i /\ (is_mmio(a + i) <=> is_mmio(a))
    <3> SUFFICES ASSUME NEW i \in 0 .. len - 1 PROVE p(i) = a + i /\ (is_mmio(a + i) <=> is_mmio(a))
      OBVIOUS
    <3>1. PageOf(l + i) = PageOf(l + 0)
      BY <1>2, <1>6, CrossesWhere
    <3>2. p(i) = p(0) + (i - 0) /\ (is_mmio(p(i)) <=> is_mmio(p(0))) /\ i - 0 = i
      BY <1>2, <1>5, <3>1
    <3>3. QED
      BY <3>2
  <2>3. a \in Int /\ a >= 0 /\ a + len <= PHY_MEM
    <3>1. len - 1 \in 0 .. len - 1
      BY <1>2
    <3>2. a + (len - 1) \in 0 .. PHY_MEM - 1 /\ a \in 0 .. PHY_MEM - 1 /\ a \in Int
      <4>1. p(len - 1) = a + (len - 1)
        BY <2>2, <3>1
      <4>2. QED
        BY <1>1, <1>2, <3>1, <4>1
    <3> HIDE DEF a
    <3>3. QED
      BY <1>2, <3>2
  <2> HIDE DEF a, out
  <2>4. Kept(m, out) /\ Wrote(m, out, a, len, data)
    BY <1>2, <1>4, <2>1, <2>2, <2>3, PlainWrite
  <2>5. Changes(m, out, l, len, data)
    <3> SUFFICES ASSUME NEW x \in 0 .. PHY_MEM - 1
                 PROVE  /\ \A i \in 0 .. len - 1 : x = p(i) => Cell(out, x) = Digit(data, i)
                        /\ (\A i \in 0 .. len - 1 : x # p(i)) => Cell(out, x) = Cell(m, x)
      BY DEF Changes, p
    <3>1. \A i \in 0 .. len - 1 : x = p(i) => Cell(out, x) = Digit(data, i)
      BY <2>2, <2>4 DEF Wrote
    <3>2. ASSUME \A i \in 0 .. len - 1 : x # p(i) PROVE Cell(out, x) = Cell(m, x)
      <4>1. x \notin a .. a + len - 1
        <5> SUFFICES ASSUME x \in a .. a + len - 1 PROVE FALSE
          OBVIOUS
        <5>1. x - a \in 0 .. len - 1 /\ a + (x - a) = x
          BY <1>2, <2>3
        <5>2. QED
          BY <2>2, <3>2, <5>1
      <4>2. QED
        BY <2>4, <4>1 DEF Wrote
    <3>3. QED
      BY <3>1, <3>2
  <2>6. QED
    BY <2>4, <2>5 DEF out
<1>7. CASE Crosses(l, len)
  <2> DEFINE k == LowPart(l)
             n == len - k
             dataL == Halved(Doubled(data, n * Byte), n * Byte)
             dataH == Halved(data, k * Byte)
             low == Store(m, p(0), k, dataL)
  <2>1. InTwo(l, len, k)
    BY <1>2, <1>7, CrossesWhere
  <2>2. out = Store(low, p(k), n, dataH)
    <3>1. p(k) = page_translate(m, l + k)
      BY DEF p, PlaceAt, page_translate
    <3>2. QED
      BY <1>3, <1>7, <3>1 DEF laddr_write
  <2> HIDE DEF k
  <2>3. k \in 1 .. len - 1 /\ k \in 0 .. len - 1 /\ k \in 1 .. 3 /\ n \in 1 .. 3 /\ k \in Int /\ n \in Int
        /\ n \in 1 .. 4 /\ k \in 1 .. 4
    BY <1>2, <2>1 DEF InTwo
  <2>4. DropsLast(data, n) /\ DropsFirst(data, k)
    <3> HIDE DEF n
    <3>1. QED
      BY <2>3, WordSplits
  <2>5. dataL \in Int /\ dataH \in Int
    BY <2>4 DEF DropsLast, DropsFirst
  <2>6. \A i \in 0 .. k - 1 : Digit(dataL, i) = Digit(data, i)
    <3>1. \A i \in 0 .. k - 1 : i \in 0 .. 3 - n
      BY <1>2, <2>3
    <3>2. QED
      BY <2>4, <3>1 DEF DropsLast
  <2>7. \A i \in 0 .. n - 1 : Digit(dataH, i) = Digit(data, i + k)
    <3>1. \A i \in 0 .. n - 1 : i \in 0 .. 3 - k
      BY <1>2, <2>3
    <3>2. QED
      BY <2>4, <3>1 DEF DropsFirst
  <2> HIDE DEF dataL, dataH, out
  <2> DEFINE a == p(0)
             h == p(k)
  <2>8. a \in Int /\ h \in Int
    BY <1>1, <1>2, <2>3
  <2>9. /\ Kept(m, low)
        /\ a >= 0 /\ a + k <= PHY_MEM /\ (\A i \in 0 .. k - 1 : ~is_mmio(a + i)) => Wrote(m, low, a, k, dataL)
    BY <2>3, <2>5, <2>8, PlainStore
  <2> HIDE DEF low, n
  <2>10. low \in PageMachines /\ low.dir = m.dir
    BY <2>9 DEF Kept
  <2>11. /\ Kept(low, out)
         /\ h >= 0 /\ h + n <= PHY_MEM /\ (\A i \in 0 .. n - 1 : ~is_mmio(h + i)) => Wrote(low, out, h, n, dataH)
    BY <2>2, <2>3, <2>5, <2>8, <2>10, PlainStore
  <2>12. Kept(m, out)
    BY <2>10, <2>11 DEF Kept
  <2>13. \A i \in 0 .. k - 1 : i \in 0 .. len - 1 /\ p(i) = a + i
    <3> SUFFICES ASSUME NEW i \in 0 .. k - 1 PROVE i \in 0 .. len - 1 /\ p(i) = a + i
      OBVIOUS
    <3>1. i \in 0 .. len - 1 /\ i - 0 = i
      BY <2>3
    <3>2. PageOf(l + i) = PageOf(l + 0)
      BY <1>2, <2>1 DEF InTwo
    <3>3. QED
      BY <1>2, <1>5, <3>1, <3>2
  <2>14. \A i \in 0 .. n - 1 : k + i \in 0 .. len - 1 /\ p(k + i) = h + i
    <3> SUFFICES ASSUME NEW i \in 0 .. n - 1 PROVE k + i \in 0 .. len - 1 /\ p(k + i) = h + i
      OBVIOUS
    <3> DEFINE j == k + i
    <3>1. j \in 0 .. len - 1 /\ j \in k .. len - 1 /\ j - k = i
      BY <2>3 DEF n
    <3> HIDE DEF j
    <3>2. PageOf(l + j) = PageOf(l + k)
      BY <2>1, <3>1 DEF InTwo
    <3>3. p(j) = p(k) + (j - k)
      BY <1>5, <2>3, <3>1, <3>2
    <3>4. QED
      BY <3>1, <3>3 DEF j
  <2>15. ASSUME NEW i \in 0 .. k - 1, NEW j \in 0 .. n - 1 PROVE p(i) # p(k + j)
    <3> DEFINE q == k + j
    <3>1. i \in 0 .. len - 1 /\ q \in 0 .. len - 1 /\ q \in k .. len - 1 /\ q - k = j
      BY <2>3, <2>13, <2>14 DEF n
    <3> HIDE DEF q
    <3>2. (l + i) % Page >= len - k /\ (l + q) % Page = j
      <4>1. (l + q) % Page = q - k
        BY <2>1, <3>1 DEF InTwo
      <4>2. QED
        BY <2>1, <3>1, <4>1 DEF InTwo
    <3>3. len - k = n /\ j < n
      BY <2>3 DEF n
    <3>4. (l + i) % Page # (l + q) % Page
      BY <2>3, <3>2, <3>3
    <3>5. p(i) = p(q) => (l + i) % Page = (l + q) % Page
      <4>1. l + i \in Nat /\ l + q \in Nat
        BY <3>1
      <4>2. QED
        BY <1>1, <3>1, <4>1, PlacesFollow DEF p, PlaceAt
    <3>6. QED
      BY <3>4, <3>5 DEF q
  <2>16. ASSUME Unsplit(m, l, len) PROVE Changes(m, out, l, len, data)
    <3>1. \A i \in 0 .. len - 1 : ~is_mmio(p(i))
      BY <1>7, <2>16 DEF Unsplit, p
    <3>2. Wrote(m, low, a, k, dataL)
      <4>1. \A i \in 0 .. k - 1 : ~is_mmio(a + i)
        BY <2>13, <3>1
      <4>2. a >= 0 /\ a + k <= PHY_MEM
        <5>1. k - 1 \in 0 .. k - 1
          BY <2>3
        <5>2. a \in 0 .. PHY_MEM - 1 /\ a + (k - 1) \in 0 .. PHY_MEM - 1
          <6>1. p(k - 1) = a + (k - 1) /\ k - 1 \in 0 .. len - 1
            BY <2>13, <5>1
          <6>2. QED
            BY <1>1, <1>2, <6>1
        <5> HIDE DEF a
        <5>3. QED
          BY <1>2, <2>3, <2>8, <5>2
      <4>3. QED
        BY <2>9, <4>1, <4>2
    <3>3. Wrote(low, out, h, n, dataH)
      <4>1. \A i \in 0 .. n - 1 : ~is_mmio(h + i)
        BY <2>14, <3>1
      <4>2. h >= 0 /\ h + n <= PHY_MEM
        <5>1. n - 1 \in 0 .. n - 1
          BY <2>3
        <5>2. h \in 0 .. PHY_MEM - 1 /\ h + (n - 1) \in 0 .. PHY_MEM - 1
          <6>1. p(k + (n - 1)) = h + (n - 1) /\ k + (n - 1) \in 0 .. len - 1
            BY <2>14, <5>1
          <6>2. QED
            BY <1>1, <2>3, <6>1
        <5> HIDE DEF h
        <5>3. QED
          BY <1>2, <2>3, <2>8, <5>2
      <4>3. QED
        BY <2>11, <4>1, <4>2
    <3> SUFFICES ASSUME NEW x \in 0 .. PHY_MEM - 1
                 PROVE  /\ \A i \in 0 .. len - 1 : x = p(i) => Cell(out, x) = Digit(data, i)
                        /\ (\A i \in 0 .. len - 1 : x # p(i)) => Cell(out, x) = Cell(m, x)
      BY DEF Changes, p
    <3>4. ASSUME \A j \in 0 .. n - 1 : x # p(k + j) PROVE Cell(out, x) = Cell(low, x)
      <4>1. x \notin h .. h + n - 1
        <5> SUFFICES ASSUME x \in h .. h + n - 1 PROVE FALSE
          OBVIOUS
        <5> HIDE DEF h
        <5>1. x - h \in 0 .. n - 1 /\ h + (x - h) = x
          BY <2>3, <2>8
        <5>2. QED
          BY <2>14, <3>4, <5>1
      <4>2. QED
        BY <3>3, <4>1 DEF Wrote
    <3>5. ASSUME \A i \in 0 .. k - 1 : x # p(i) PROVE Cell(low, x) = Cell(m, x)
      <4>1. x \notin a .. a + k - 1
        <5> SUFFICES ASSUME x \in a .. a + k - 1 PROVE FALSE
          OBVIOUS
        <5> HIDE DEF a
        <5>1. x - a \in 0 .. k - 1 /\ a + (x - a) = x
          BY <2>3, <2>8
        <5>2. QED
          BY <2>13, <3>5, <5>1
      <4>2. QED
        BY <3>2, <4>1 DEF Wrote
    <3>6. ASSUME NEW i \in 0 .. len - 1, x = p(i) PROVE Cell(out, x) = Digit(data, i)
      <4>1. CASE i \in 0 .. k - 1
        <5>1. Cell(out, x) = Cell(low, x)
          BY <2>15, <3>4, <3>6, <4>1
        <5>2. Cell(low, x) = Digit(dataL, i)
          BY <2>13, <3>2, <3>6, <4>1 DEF Wrote
        <5>3. QED
          BY <2>6, <4>1, <5>1, <5>2
      <4>2. CASE i \notin 0 .. k - 1
        <5> DEFINE j == i - k
        <5>1. j \in 0 .. n - 1 /\ k + j = i /\ j + k = i
          BY <2>3, <4>2 DEF n
        <5> HIDE DEF j
        <5>2. x = h + j
          BY <2>14, <3>6, <5>1
        <5>3. Cell(out, h + j) = Digit(dataH, j)
          BY <3>3, <5>1 DEF Wrote
        <5>4. QED
          BY <2>7, <5>1, <5>2, <5>3
      <4>3. QED
        BY <4>1, <4>2
    <3>7. ASSUME \A i \in 0 .. len - 1 : x # p(i) PROVE Cell(out, x) = Cell(m, x)
      <4>1. \A j \in 0 .. n - 1 : x # p(k + j)
        BY <2>14, <3>7
      <4>2. \A i \in 0 .. k - 1 : x # p(i)
        BY <2>13, <3>7
      <4>3. QED
        BY <3>4, <3>5, <4>1, <4>2
    <3>8. QED
      BY <3>6, <3>7
  <2>17. QED
    BY <2>12, <2>16 DEF out
<1>8. QED
  BY <1>6, <1>7

(* A single byte is read from its place.                                   *)
LEMMA ReadOne ==
  ASSUME Byte = 8, NEW m \in PageMachines, NEW l \in Nat, At(m.dir, PageOf(l)) \in Int,
         Physical(m.dir, l) \in 0 .. PHY_MEM - 1
  PROVE  laddr_read(m, l, 1) = Cell(m, Physical(m.dir, l))
<1> DEFINE f == CellsAt(m, l, 1)
<1>1. 0 .. 1 - 1 = {0} /\ l + 0 = l /\ l + 1 - 1 = l /\ 1 \in {1, 2, 4} /\ 1 \in 1 .. 4
  OBVIOUS
<1>2. ~Crosses(l, 1)
  BY <1>1 DEF Crosses
<1>3. Reached(m, l, 1) /\ Unsplit(m, l, 1)
  BY <1>1, <1>2 DEF Reached, Unsplit, PlaceAt
<1>4. laddr_read(m, l, 1) = Joined(f, 1)
  BY <1>1, <1>3, ReadJoins
<1>5. f[0] = Cell(m, Physical(m.dir, l)) /\ f[0] \in 0 .. 255
  <2>1. Cell(m, Physical(m.dir, l)) \in 0 .. 255
    BY CellIs
  <2>2. f[0] = Cell(m, PlaceAt(m, l, 0))
    BY <1>1 DEF CellsAt
  <2>3. QED
    BY <1>1, <2>1, <2>2 DEF PlaceAt
<1> HIDE DEF f
<1>6. Joined(f, 1) = Together(f[0], 0, 0, 0)
  <2>1. \A i \in 0 .. 1 - 1 : f[i] \in 0 .. 255
    BY <1>1, <1>5
  <2>2. Joined(f, 1) = Together(f[0], IF 1 > 1 THEN f[1] ELSE 0, IF 1 > 2 THEN f[2] ELSE 0, IF 1 > 3 THEN f[3] ELSE 0)
    BY <1>1, <2>1, JoinedIs
  <2>3. QED
    BY <2>2
<1>7. Together(f[0], 0, 0, 0) = f[0]
  BY <1>5, SMT DEF Together
<1>8. QED
  BY <1>4, <1>5, <1>6, <1>7

(* The machine that a program in a space runs on, and what it keeps of     *)
(* another space when more is mapped.                                      *)
MachineOf(s) == [dir |-> s.updir, mem |-> s.mem, screen |-> s.screen]
SameAt(s, out, l) ==
  /\ Frame(out.updir, l) # NotPresent
  /\ laddr_read(MachineOf(out), l, 1) = laddr_read(MachineOf(s), l, 1)

(* An address keeps its byte when its entry and its cell stay.             *)
LEMMA SameHolds ==
  ASSUME Byte = 8, NEW s \in Spaces, NEW out \in Spaces, NEW l \in Addresses, InProgram(s, l),
         Frame(s.updir, l) # NotPresent, At(out.updir, PageOf(l)) = At(s.updir, PageOf(l)),
         LET p == Physical(s.updir, l) IN Cell(MachineOf(out), p) = Cell(MachineOf(s), p)
  PROVE  SameAt(s, out, l)
<1> DEFINE p == Physical(s.updir, l)
           m == MachineOf(s)
           o == MachineOf(out)
<1>1. l \in Nat
  BY AddressPages
<1>2. Frame(out.updir, l) = Frame(s.updir, l) /\ Physical(out.updir, l) = p
  BY <1>1, PageIs DEF Physical
<1>3. m \in PageMachines /\ o \in PageMachines /\ m.dir = s.updir /\ o.dir = out.updir
  BY DEF MachineOf, PageMachines, Spaces
<1>4. At(s.updir, PageOf(l)) \in Int /\ p \in 0 .. PHY_MEM - 1
  BY DEF InProgram
<1> HIDE DEF m, o
<1>5. laddr_read(m, l, 1) = Cell(m, p)
  BY <1>1, <1>3, <1>4, ReadOne
<1>6. laddr_read(o, l, 1) = Cell(o, p)
  BY <1>1, <1>2, <1>3, <1>4, ReadOne
<1>7. QED
  BY <1>2, <1>5, <1>6 DEF SameAt, m, o

(* The segments of a program.                                              *)
LEMMA SegmentsLie ==
  ASSUME Byte = 8, NEW segs \in Layouts
  PROVE  /\ segs \in Seq(Segment) /\ segs # <<>> /\ Len(segs) \in Nat /\ Len(segs) >= 1
         /\ \A k \in 1 .. Len(segs) :
              LET ph == segs[k]
              IN /\ ph.vaddr \in Nat /\ ph.memsz \in Nat /\ ph.vaddr >= PT_SIZE /\ ph.memsz > 0
                 /\ ph.vaddr + ph.memsz <= KOFFSET - STACK_SIZE
                 /\ ph.file \in Seq(Octets) /\ Len(ph.file) <= ph.memsz /\ Len(ph.file) \in Nat
         /\ \A k \in 1 .. Len(segs) :
              k < Len(segs) => segs[k].vaddr + segs[k].memsz <= segs[k + 1].vaddr
<1>1. /\ segs \in Seq(Segment) /\ segs # <<>>
      /\ \A k \in 1 .. Len(segs) :
           /\ Len(segs[k].file) <= segs[k].memsz /\ segs[k].vaddr + segs[k].memsz <= KOFFSET - STACK_SIZE
           /\ k < Len(segs) => segs[k].vaddr + segs[k].memsz <= segs[k + 1].vaddr
  BY PagingAssumption
<1>2. KOFFSET \in Nat /\ PT_SIZE \in Nat
  BY PagingAssumption, InPagesHolds DEF InPages
<1>3. Len(segs) \in Nat /\ Len(segs) >= 1
  BY <1>1
<1>4. ASSUME NEW k \in 1 .. Len(segs)
      PROVE  LET ph == segs[k]
             IN /\ ph.vaddr \in Nat /\ ph.memsz \in Nat /\ ph.vaddr >= PT_SIZE /\ ph.memsz > 0
                /\ ph.vaddr + ph.memsz <= KOFFSET - STACK_SIZE
                /\ ph.file \in Seq(Octets) /\ Len(ph.file) <= ph.memsz /\ Len(ph.file) \in Nat
  <2>1. segs[k] \in Segment
    BY <1>1
  <2> DEFINE ph == segs[k]
  <2>2. ph.vaddr \in PT_SIZE .. KOFFSET - 1 /\ ph.memsz \in 1 .. KOFFSET - 1 /\ ph.file \in Seq(Octets)
    BY <2>1 DEF Segment, Octets
  <2>3. Len(ph.file) <= ph.memsz /\ ph.vaddr + ph.memsz <= KOFFSET - STACK_SIZE
    BY <1>1
  <2> HIDE DEF ph
  <2>4. Len(ph.file) \in Nat
    BY <2>2
  <2>5. QED
    BY <1>2, <2>2, <2>3, <2>4 DEF ph
<1>5. QED
  BY <1>1, <1>3, <1>4

(* What the loader makes of a space with a segment: its pages are added,   *)
(* it is one piece of memory, and holds the bytes of the file and zeros.   *)
Covered(dir, vaddr, size) == \A n \in PageOf(vaddr) .. PageOf(vaddr + size - 1) : At(dir, n) # NotPresent
Adds(s, out) ==
  /\ out \in Spaces /\ Placed(out) /\ out.screen = s.screen
  /\ \A n \in Pages : At(s.updir, n) # NotPresent => At(out.updir, n) = At(s.updir, n)
  /\ \A n \in 0 .. NR_PTE - 1 : At(out.updir, n) = At(s.updir, n)
Filled_(ph, i) == IF i < Len(ph.file) THEN ph.file[i + 1] ELSE 0
LoadedAt(s, out, ph, at) ==
  /\ at \in Int /\ at >= KMEM /\ at + ph.memsz <= PHY_MEM
  /\ \A i \in 0 .. ph.memsz - 1 :
       /\ At(out.updir, PageOf(ph.vaddr + i)) \in Int /\ At(out.updir, PageOf(ph.vaddr + i)) # NotPresent
       /\ Physical(out.updir, ph.vaddr + i) = at + i /\ out.mem[at + i] = Filled_(ph, i)
  /\ \A a \in 0 .. PHY_MEM - 1 : a \notin at .. at + ph.memsz - 1 => out.mem[a] = s.mem[a]

(* mm_malloc adds pages.                                                   *)
LEMMA MallocAdds ==
  ASSUME Byte = 8, NEW s \in Spaces, Placed(s), NEW vaddr \in Nat, NEW size \in Nat,
         vaddr >= PT_SIZE, size > 0, vaddr + size <= KOFFSET, HasMemory(mm_malloc(s, vaddr, size))
  PROVE  LET out == mm_malloc(s, vaddr, size)
         IN Adds(s, out) /\ Covered(out.updir, vaddr, size) /\ out.brk = s.brk /\ out.mem = s.mem
<1> DEFINE out == mm_malloc(s, vaddr, size)
<1>1. Extended(s, out, vaddr, size)
  BY MallocExtends
<1>2. PageOf(vaddr) >= NR_PTE /\ NR_PTE \in Int /\ PageOf(vaddr) \in Int
  <2>1. PT_SIZE = Page * NR_PTE /\ NR_PTE \in Int /\ PT_SIZE \in Int
    BY InPagesHolds DEF InPages
  <2>2. PageOf(vaddr) \in Nat /\ (vaddr < Page * NR_PTE <=> PageOf(vaddr) < NR_PTE)
    BY <2>1, PageIs, PageBelow
  <2>3. QED
    BY <2>1, <2>2
<1>3. \A n \in 0 .. NR_PTE - 1 : n \in Pages /\ n \notin PageOf(vaddr) .. PageOf(vaddr + size - 1)
  <2> DEFINE w == NR_PDE * NR_PTE
  <2>1. NR_PTE <= w /\ w \in Int
    <3>1. NR_PTE <= KernelPages /\ KernelPages <= MemoryPages /\ MemoryPages <= UserPages /\ UserPages + MemoryPages <= w
          /\ KernelPages \in Int /\ MemoryPages \in Nat /\ UserPages \in Int /\ w \in Int
      BY InPagesHolds DEF InPages
    <3> HIDE DEF w
    <3>2. QED
      BY <1>2, <3>1
  <2>2. Pages = 0 .. w - 1
    BY DEF Pages
  <2> HIDE DEF w
  <2>3. QED
    BY <1>2, <2>1, <2>2
<1> HIDE DEF out
<1>4. QED
  BY <1>1, <1>3 DEF Extended, Adds, Covered, out

(* LoadPart in terms of mm_malloc.                                         *)
LEMMA LoadPartIs ==
  ASSUME NEW s, NEW ph, mm_malloc(s, ph.vaddr, ph.memsz) \in Spaces
  PROVE  LET got == mm_malloc(s, ph.vaddr, ph.memsz)
             at == Physical(got.updir, ph.vaddr)
             new_brk == at + ph.memsz - 1
         IN LoadPart(s, ph) =
              [updir |-> got.updir, pf |-> got.pf, brk |-> IF got.brk < new_brk THEN new_brk ELSE got.brk,
               mem |-> [a \in 0 .. PHY_MEM - 1 |->
                          IF a - at \in 0 .. ph.memsz - 1
                          THEN IF a - at < Len(ph.file) THEN ph.file[a - at + 1] ELSE 0
                          ELSE got.mem[a]],
               screen |-> got.screen]
<1> DEFINE got == mm_malloc(s, ph.vaddr, ph.memsz)
           at == Physical(got.updir, ph.vaddr)
           new_brk == at + ph.memsz - 1
           b == IF got.brk < new_brk THEN new_brk ELSE got.brk
           G(g) == [a \in DOMAIN g |-> IF a - at \in 0 .. ph.memsz - 1
                                       THEN IF a - at < Len(ph.file) THEN ph.file[a - at + 1] ELSE 0
                                       ELSE g[a]]
           M == G(got.mem)
<1>1. LoadPart(s, ph) = [got EXCEPT !.brk = b, !.mem = M]
  BY DEF LoadPart
<1>2. got = [updir |-> got.updir, pf |-> got.pf, brk |-> got.brk, mem |-> got.mem, screen |-> got.screen]
      /\ DOMAIN got.mem = 0 .. PHY_MEM - 1
  BY DEF Spaces, Memories
<1>3. M = [a \in 0 .. PHY_MEM - 1 |-> IF a - at \in 0 .. ph.memsz - 1
                                     THEN IF a - at < Len(ph.file) THEN ph.file[a - at + 1] ELSE 0
                                     ELSE got.mem[a]]
  <2> HIDE DEF got, at
  <2>1. QED
    BY <1>2
<1> HIDE DEF M, b, got
<1>4. [got EXCEPT !.brk = b, !.mem = M] = [updir |-> got.updir, pf |-> got.pf, brk |-> b, mem |-> M, screen |-> got.screen]
  <2> DEFINE w == [got EXCEPT !.brk = b]
  <2>1. w = [updir |-> got.updir, pf |-> got.pf, brk |-> b, mem |-> got.mem, screen |-> got.screen]
    BY <1>2
  <2>2. [got EXCEPT !.brk = b, !.mem = M] = [w EXCEPT !.mem = M]
    OBVIOUS
  <2> HIDE DEF w
  <2>3. [w EXCEPT !.mem = M] = [updir |-> got.updir, pf |-> got.pf, brk |-> b, mem |-> M, screen |-> got.screen]
    BY <2>1
  <2>4. QED
    BY <2>2, <2>3
<1>5. LoadPart(s, ph) = [updir |-> got.updir, pf |-> got.pf, brk |-> b, mem |-> M, screen |-> got.screen]
  BY <1>1, <1>4
<1>6. QED
  BY <1>3, <1>5 DEF b, got

SegmentLies(ph) ==
  /\ ph.vaddr \in Nat /\ ph.memsz \in Nat /\ ph.vaddr >= PT_SIZE /\ ph.memsz > 0
  /\ ph.vaddr + ph.memsz <= KOFFSET - STACK_SIZE
  /\ ph.file \in Seq(Octets) /\ Len(ph.file) <= ph.memsz /\ Len(ph.file) \in Nat

(* One program header, loaded.                                             *)
PartLoaded(s, out, ph) ==
  /\ Adds(s, out) /\ Covered(out.updir, ph.vaddr, ph.memsz)
  /\ Topped(out, PageOf(ph.vaddr + ph.memsz - 1)) /\ out.brk >= PT_SIZE
  /\ LoadedAt(s, out, ph, Physical(out.updir, ph.vaddr))

(* Its bytes lie in consecutive frames and replace nothing else.           *)
LEMMA PartLoads ==
  ASSUME Byte = 8, NEW s \in Spaces, Placed(s), FirstTable(s.updir, FALSE), NEW ph, SegmentLies(ph),
         NEW top \in Nat, top <= PageOf(ph.vaddr), Topped(s, top), HasMemory(LoadPart(s, ph))
  PROVE  PartLoaded(s, LoadPart(s, ph), ph)
<1> DEFINE out == LoadPart(s, ph)
           got == mm_malloc(s, ph.vaddr, ph.memsz)
           at == Physical(got.updir, ph.vaddr)
           new_brk == at + ph.memsz - 1
           b == IF got.brk < new_brk THEN new_brk ELSE got.brk
           v == ph.vaddr
           z == ph.memsz
           F(n) == At(got.updir, n)
           M == [a \in 0 .. PHY_MEM - 1 |-> IF a - at \in 0 .. z - 1
                                           THEN IF a - at < Len(ph.file) THEN ph.file[a - at + 1] ELSE 0
                                           ELSE got.mem[a]]
<1>1. /\ v \in Nat /\ z \in Nat /\ v >= PT_SIZE /\ z > 0 /\ v + z <= KOFFSET - STACK_SIZE
      /\ ph.file \in Seq(Octets) /\ Len(ph.file) <= z /\ Len(ph.file) \in Nat
  BY DEF SegmentLies
<1>2. KOFFSET \in Nat /\ PHY_MEM \in Nat /\ KMEM \in Nat /\ PT_SIZE \in Int /\ Page \in Int /\ Page >= 4 /\ PT_SIZE <= KMEM
      /\ STACK_SIZE \in Nat /\ STACK_SIZE > 0
  <2>0. STACK_SIZE \in Nat /\ STACK_SIZE > 0
    BY PagingAssumption
  <2>1. KOFFSET \in Nat /\ PHY_MEM \in Nat /\ KMEM \in Nat
    BY PagingAssumption
  <2>2. /\ PT_SIZE \in Int /\ Page \in Int /\ Page >= 4 /\ NR_PTE \in Int /\ KernelPages \in Int /\ NR_PTE <= KernelPages
        /\ PT_SIZE = Page * NR_PTE /\ KMEM = Page * KernelPages
    BY InPagesHolds DEF InPages
  <2>3. PT_SIZE <= KMEM
    BY <2>2, Grows
  <2>4. QED
    BY <2>0, <2>1, <2>2, <2>3
<1>3. v + z <= KOFFSET /\ v + z < KOFFSET
  <2> HIDE DEF v, z
  <2>1. QED
    BY <1>1, <1>2
<1>4. got \in Spaces
  BY <1>1, <1>3, MallocIs
<1>5. out = [updir |-> got.updir, pf |-> got.pf, brk |-> b, mem |-> M, screen |-> got.screen]
  BY <1>4, LoadPartIs
<1> HIDE DEF out
<1>6. out.updir = got.updir /\ out.pf = got.pf /\ out.brk = b /\ out.mem = M /\ out.screen = got.screen
  BY <1>5
<1>7. HasMemory(got)
  BY <1>6 DEF HasMemory, out
<1>8. Adds(s, got) /\ Covered(got.updir, v, z) /\ got.brk = s.brk /\ got.mem = s.mem
  BY <1>1, <1>3, <1>7, MallocAdds
<1>9. /\ Topped(got, PageOf(v + z - 1))
      /\ \A n \in PageOf(v) .. PageOf(v + z - 1) : F(n) = F(PageOf(v)) + (n - PageOf(v))
  BY <1>1, <1>3, FramesFollow
<1>10. FirstTable(got.updir, FALSE)
  BY <1>8 DEF Adds, FirstTable
<1>11. /\ PageOf(v) \in Nat /\ PageOf(v) <= PageOf(v + z - 1)
       /\ \A l \in v .. v + z - 1 : PageOf(l) \in PageOf(v) .. PageOf(v + z - 1)
  BY <1>1, <1>3, UserArea
<1> DEFINE first == PageOf(v)
           last_ == PageOf(v + z - 1)
           f == F(first)
           d == first - f
<1> HIDE DEF got, b, M
<1>12. ASSUME NEW l \in v .. v + z - 1
       PROVE  /\ l \in Addresses /\ Frame(got.updir, l) # NotPresent /\ F(PageOf(l)) \in Int
              /\ F(PageOf(l)) # NotPresent
              /\ Physical(got.updir, l) >= KMEM /\ Physical(got.updir, l) \in 0 .. PHY_MEM - 1
  <2> HIDE DEF v, z
  <2>1. l \in Nat /\ l \in Addresses /\ l < KOFFSET /\ l >= PT_SIZE
    BY <1>1, <1>2, <1>3 DEF Addresses
  <2>2. F(PageOf(l)) # NotPresent /\ Frame(got.updir, l) = F(PageOf(l))
    BY <1>8, <1>11, <2>1, PageIs DEF Covered
  <2>3. InProgram(got, l)
    BY <1>4, <1>8, <1>10, <2>1, <2>2, ProgramPlaces DEF Adds
  <2>4. PdeOf(l) # 0
    <3>1. PdeOf(l) = 0 <=> PageOf(l) < NR_PTE
      BY <2>1, AddressPages
    <3>2. l < Page * NR_PTE <=> PageOf(l) < NR_PTE
      BY <2>1, PageBelow, InPagesHolds DEF InPages
    <3>3. PT_SIZE = Page * NR_PTE
      BY InPagesHolds DEF InPages
    <3>4. QED
      BY <1>2, <2>1, <3>1, <3>2, <3>3
  <2>5. QED
    BY <2>1, <2>2, <2>3, <2>4 DEF InProgram
<1>13. v \in v .. v + z - 1 /\ v + z - 1 \in v .. v + z - 1 /\ v \in Nat
  <2> HIDE DEF v, z
  <2>1. QED
    BY <1>1
<1>14. f \in Int /\ d \in Int
  BY <1>11, <1>12, <1>13
<1>15. ASSUME NEW l \in v .. v + z - 1 PROVE Physical(got.updir, l) = l - (Page * d)
  <2>1. F(PageOf(l)) = f + (PageOf(l) - first) /\ F(PageOf(l)) \in Int /\ l \in Nat
    BY <1>9, <1>11, <1>12, AddressPages
  <2>2. PageOf(l) \in Int
    BY <2>1, PageIs
  <2>3. F(PageOf(l)) = PageOf(l) - d
    <3> HIDE DEF F, f
    <3>1. first \in Int
      BY <1>11
    <3> HIDE DEF first
    <3>2. QED
      BY <1>14, <2>1, <2>2, <3>1
  <2> HIDE DEF d
  <2>4. QED
    BY <1>14, <2>1, <2>3, PhysicalIs
<1> DEFINE y == Page * d
<1>16. y \in Int
  <2> HIDE DEF d
  <2>1. QED
    BY <1>2, <1>14, SMT
<1>17. at = v - y /\ at \in Int /\ at >= KMEM /\ at + z <= PHY_MEM
  <2>1. at = v - y
    BY <1>13, <1>15
  <2>2. Physical(got.updir, v + z - 1) = (v + z - 1) - y
    BY <1>13, <1>15
  <2>3. at >= KMEM /\ at \in Int
    BY <1>2, <1>12, <1>13
  <2>4. (v + z - 1) - y \in 0 .. PHY_MEM - 1
    BY <1>12, <1>13, <2>2
  <2> HIDE DEF y, v, z, at
  <2>5. QED
    BY <1>1, <1>2, <1>16, <2>1, <2>3, <2>4
<1>18. \A i \in 0 .. z - 1 : v + i \in v .. v + z - 1 /\ Physical(got.updir, v + i) = at + i
  <2> SUFFICES ASSUME NEW i \in 0 .. z - 1
               PROVE  v + i \in v .. v + z - 1 /\ Physical(got.updir, v + i) = at + i
    OBVIOUS
  <2> HIDE DEF v, z, at, y
  <2> DEFINE l == v + i
  <2>1. l \in v .. v + z - 1
    BY <1>1
  <2>2. Physical(got.updir, l) = l - y
    BY <1>15, <2>1 DEF y
  <2> HIDE DEF l
  <2>3. l - y = at + i
    BY <1>1, <1>16, <1>17 DEF l
  <2>4. QED
    BY <2>1, <2>2, <2>3 DEF l
<1>19. M \in Memories
  <2> SUFFICES ASSUME NEW a \in 0 .. PHY_MEM - 1 PROVE M[a] \in Octets
    BY DEF M, Memories, Octets
  <2>1. got.mem[a] \in Octets
    BY <1>4 DEF Spaces, Memories, Octets
  <2>2. 0 \in Octets
    BY WordIs DEF Octets
  <2> HIDE DEF at, v, z
  <2>3. ASSUME a - at \in 0 .. z - 1, a - at < Len(ph.file) PROVE ph.file[a - at + 1] \in Octets
    <3> DEFINE j == a - at + 1
    <3>1. j \in 1 .. Len(ph.file)
      BY <1>1, <1>17, <2>3
    <3> HIDE DEF j
    <3>2. ph.file[j] \in Octets
      BY <1>1, <3>1
    <3>3. QED
      BY <3>2 DEF j
  <2>4. QED
    BY <2>1, <2>2, <2>3 DEF M
<1>20. b \in Nat /\ b >= PT_SIZE
  <2>1. got.brk \in Nat
    BY <1>4 DEF Spaces
  <2>0. new_brk = at + (z - 1)
    BY DEF z
  <2> HIDE DEF at, v, z, new_brk
  <2>2. new_brk \in Int /\ new_brk >= KMEM
    BY <1>1, <1>2, <1>17, <2>0
  <2> HIDE DEF new_brk
  <2>3. QED
    BY <1>2, <2>1, <2>2 DEF b
<1>21. out \in Spaces
  BY <1>4, <1>5, <1>19, <1>20 DEF Spaces
<1>22. Adds(s, out)
  BY <1>6, <1>8, <1>21 DEF Adds, Placed
<1>23. LoadedAt(s, out, ph, at)
  <2>1. ASSUME NEW i \in 0 .. z - 1
        PROVE  /\ At(out.updir, PageOf(v + i)) \in Int /\ At(out.updir, PageOf(v + i)) # NotPresent
               /\ Physical(out.updir, v + i) = at + i /\ out.mem[at + i] = Filled_(ph, i)
    <3>1. /\ At(out.updir, PageOf(v + i)) \in Int /\ At(out.updir, PageOf(v + i)) # NotPresent
          /\ Physical(out.updir, v + i) = at + i
      BY <1>6, <1>12, <1>18
    <3> HIDE DEF at, v, z
    <3>2. at + i \in 0 .. PHY_MEM - 1 /\ (at + i) - at = i
      BY <1>1, <1>2, <1>17
    <3>3. M[at + i] = Filled_(ph, i)
      BY <3>2 DEF M, Filled_
    <3>4. QED
      BY <1>6, <3>1, <3>3
  <2>2. ASSUME NEW a \in 0 .. PHY_MEM - 1, a \notin at .. at + z - 1 PROVE out.mem[a] = s.mem[a]
    <3> HIDE DEF at, v, z
    <3>1. a - at \notin 0 .. z - 1
      BY <1>1, <1>17, <2>2
    <3>2. M[a] = got.mem[a]
      BY <3>1 DEF M
    <3>3. QED
      BY <1>6, <1>8, <3>2
  <2>3. QED
    BY <1>17, <2>1, <2>2 DEF LoadedAt
<1>24. Topped(out, PageOf(v + z - 1)) /\ Covered(out.updir, v, z)
  BY <1>6, <1>8, <1>9 DEF Topped, Covered
<1>25. QED
  BY <1>6, <1>20, <1>22, <1>23, <1>24 DEF PartLoaded, out

(* The inductive invariant: what a space is while segments are loaded and  *)
(* after the program has started.                                          *)
Runs(segs, ld) == segs # <<>> /\ ld > Len(segs)
TopPage(segs, ld) == IF ld = 0 THEN NR_PTE - 1 ELSE PageOf(segs[ld].vaddr + segs[ld].memsz - 1)
Parts(s, segs, ld) == \A k \in 1 .. Len(segs) : k <= ld => Covered(s.updir, segs[k].vaddr, segs[k].memsz)
Heaped(s, hp) ==
  /\ hp.end >= PT_SIZE /\ hp.end <= KOFFSET - STACK_SIZE /\ hp.from >= PT_SIZE
  /\ hp.calls = 0 => hp.from = hp.end
  /\ hp.calls > 0 => s.brk = hp.end
  /\ \A a \in hp.from .. hp.end - 1 : At(s.updir, PageOf(a)) # NotPresent
InvOf(s, segs, ld, hp) ==
  /\ s \in Spaces /\ Placed(s) /\ FirstTable(s.updir, Runs(segs, ld))
  /\ segs \in Layouts \cup {<<>>} /\ ld \in Nat /\ ld <= Len(segs) + 1 /\ (segs = <<>> => ld = 0)
  /\ hp \in [calls : Nat, end : Nat, from : Nat]
  /\ Parts(s, segs, ld)
  /\ ~Runs(segs, ld) => Topped(s, TopPage(segs, ld))
  /\ ld >= 1 => s.brk >= PT_SIZE
  /\ Runs(segs, ld) => Heaped(s, hp)
PagingInv == InvOf(space, segments, loaded, heap)

(* Loading a segment keeps the invariant.                                  *)
LEMMA LoadKeeps ==
  ASSUME Byte = 8, NEW s, NEW segs, NEW ld, NEW hp, InvOf(s, segs, ld, hp), ld < Len(segs),
         HasMemory(LoadPart(s, segs[ld + 1]))
  PROVE  LET out == LoadPart(s, segs[ld + 1])
         IN InvOf(out, segs, ld + 1, hp) /\ PartLoaded(s, out, segs[ld + 1])
<1> DEFINE k == ld + 1
           ph == segs[k]
           out == LoadPart(s, ph)
           last_ == PageOf(ph.vaddr + ph.memsz - 1)
<1>1. /\ s \in Spaces /\ Placed(s) /\ FirstTable(s.updir, Runs(segs, ld))
      /\ segs \in Layouts \cup {<<>>} /\ ld \in Nat
      /\ hp \in [calls : Nat, end : Nat, from : Nat]
      /\ Parts(s, segs, ld) /\ (~Runs(segs, ld) => Topped(s, TopPage(segs, ld)))
  BY DEF InvOf
<1>2. segs \in Layouts /\ Len(segs) \in Nat
  <2>1. segs # <<>>
    BY <1>1
  <2>2. QED
    BY <1>1, <2>1, SegmentsLie
<1>3. ~Runs(segs, ld) /\ ~Runs(segs, k) /\ k \in 1 .. Len(segs) /\ k # 0 /\ k >= 1 /\ k <= Len(segs) + 1 /\ k \in Nat
  BY <1>1, <1>2 DEF Runs
<1>4. SegmentLies(ph)
  <2> HIDE DEF k
  <2>1. QED
    BY <1>2, <1>3, SegmentsLie DEF SegmentLies
<1>5. NR_PTE \in Int /\ NR_PTE > 0 /\ Page \in Int /\ Page >= 4 /\ PT_SIZE = Page * NR_PTE /\ KOFFSET \in Nat /\ STACK_SIZE \in Nat /\ STACK_SIZE > 0
  BY InPagesHolds, PagingAssumption DEF InPages
<1>6. PageOf(ph.vaddr) \in Nat /\ PageOf(ph.vaddr) >= NR_PTE /\ last_ \in Nat
  <2> DEFINE v == ph.vaddr
             z == ph.memsz
  <2>1. v \in Nat /\ z \in Nat /\ v >= PT_SIZE /\ z > 0 /\ v + z <= KOFFSET - STACK_SIZE
    BY <1>4 DEF SegmentLies
  <2> HIDE DEF v, z
  <2>2. v + z <= KOFFSET
    BY <1>5, <2>1
  <2>3. PageOf(v) \in Nat /\ PageOf(v + z - 1) \in Nat
    BY <2>1, <2>2, UserArea
  <2>4. v < Page * NR_PTE <=> PageOf(v) < NR_PTE
    BY <1>5, <2>1, PageBelow
  <2> DEFINE t == PT_SIZE
             n == PageOf(v)
  <2>5. t \in Int /\ (v < t <=> n < NR_PTE) /\ n \in Nat /\ v >= t
    BY <1>5, <2>1, <2>3, <2>4, InPagesHolds DEF InPages
  <2> HIDE DEF t, n
  <2>6. n >= NR_PTE
    BY <1>5, <2>1, <2>5
  <2>7. QED
    BY <2>3, <2>6 DEF n, v, z
<1>7. TopPage(segs, ld) \in Nat /\ TopPage(segs, ld) <= PageOf(ph.vaddr)
  <2>1. CASE ld = 0
    <3>1. TopPage(segs, ld) = NR_PTE - 1
      BY <2>1 DEF TopPage
    <3>2. QED
      BY <1>5, <1>6, <3>1
  <2>2. CASE ld # 0
    <3> DEFINE q == segs[ld]
               v == q.vaddr
               z == q.memsz
               w == ph.vaddr
    <3>1. ld \in 1 .. Len(segs) /\ ld < Len(segs)
      BY <1>1, <1>2, <2>2
    <3>2. v \in Nat /\ z \in Nat /\ z > 0 /\ v + z <= KOFFSET - STACK_SIZE
      BY <1>2, <3>1, SegmentsLie
    <3>3. v + z <= w /\ w \in Nat
      BY <1>2, <1>4, <3>1, SegmentsLie DEF SegmentLies
    <3>4. TopPage(segs, ld) = PageOf(v + z - 1)
      BY <2>2 DEF TopPage
    <3> HIDE DEF v, z, w
    <3>5. v + z - 1 \in Nat /\ v + z - 1 <= w /\ v + z <= KOFFSET
      BY <1>5, <3>2, <3>3
    <3> DEFINE y == v + z - 1
    <3> HIDE DEF y
    <3>6. y \in Nat /\ y <= w
      BY <3>5 DEF y
    <3>7. PageOf(y) \in Nat /\ PageOf(y) <= PageOf(w)
      <4>1. PageOf(w) \in Nat /\ PageOf(y) \in Nat
        BY <3>3, <3>6, PageIs
      <4>2. y < Page * (PageOf(w) + 1) <=> PageOf(y) < PageOf(w) + 1
        BY <3>6, <4>1, PageBelow
      <4>3. w < Page * (PageOf(w) + 1) <=> PageOf(w) < PageOf(w) + 1
        BY <3>3, <4>1, PageBelow
      <4> DEFINE X == Page * (PageOf(w) + 1)
      <4>4. X \in Int
        BY <1>5, <4>1, SMT
      <4>5. w < X
        BY <4>1, <4>3
      <4>6. y < X => PageOf(y) < PageOf(w) + 1
        BY <4>2
      <4> HIDE DEF X
      <4>7. y < X
        BY <3>3, <3>6, <4>4, <4>5
      <4>8. QED
        BY <4>1, <4>6, <4>7
    <3>8. QED
      BY <3>4, <3>7 DEF w, y
  <2>3. QED
    BY <2>1, <2>2
<1>8. PartLoaded(s, out, ph)
  <2>1. FirstTable(s.updir, FALSE) /\ Topped(s, TopPage(segs, ld)) /\ HasMemory(LoadPart(s, ph))
    <3>1. FirstTable(s.updir, FALSE)
      BY <1>1, <1>3 DEF FirstTable
    <3>2. QED
      BY <1>1, <1>3, <3>1
  <2> HIDE DEF ph
  <2>2. QED
    BY <1>1, <1>4, <1>7, <2>1, PartLoads
<1> HIDE DEF out
<1>9. Adds(s, out) /\ Covered(out.updir, ph.vaddr, ph.memsz) /\ Topped(out, last_) /\ out.brk >= PT_SIZE
  BY <1>8 DEF PartLoaded
<1>10. FirstTable(out.updir, Runs(segs, k))
  BY <1>1, <1>3, <1>9 DEF Adds, FirstTable
<1>11. Parts(out, segs, k)
  <2> SUFFICES ASSUME NEW j \in 1 .. Len(segs), j <= k
               PROVE  Covered(out.updir, segs[j].vaddr, segs[j].memsz)
    BY DEF Parts
  <2>1. CASE j = k
    BY <1>9, <2>1
  <2>2. CASE j # k
    <3>1. j <= ld
      BY <1>1, <2>2
    <3>2. Covered(s.updir, segs[j].vaddr, segs[j].memsz)
      BY <1>1, <3>1 DEF Parts
    <3>3. PageOf(segs[j].vaddr) .. PageOf(segs[j].vaddr + segs[j].memsz - 1) \subseteq Pages
      <4> DEFINE v == segs[j].vaddr
                 z == segs[j].memsz
      <4>1. v \in Nat /\ z \in Nat /\ z > 0 /\ v + z <= KOFFSET - STACK_SIZE
        BY <1>2, SegmentsLie
      <4> HIDE DEF v, z
      <4>2. v + z <= KOFFSET
        BY <1>5, <4>1
      <4>3. PageOf(v) .. PageOf(v + z - 1) \subseteq Pages
        BY <4>1, <4>2, UserArea
      <4>4. QED
        BY <4>3 DEF v, z
    <3>4. QED
      BY <1>9, <3>2, <3>3 DEF Covered, Adds
  <2>3. QED
    BY <2>1, <2>2
<1>12. TopPage(segs, k) = last_
  BY <1>3 DEF TopPage
<1>13. QED
  BY <1>1, <1>3, <1>8, <1>9, <1>10, <1>11, <1>12 DEF InvOf, Adds, out

(* Starting the program keeps it: its stack and its video memory are added. *)
Started(s) == LET stacked == mm_malloc(s, KOFFSET - STACK_SIZE, STACK_SIZE)
              IN [stacked EXCEPT !.updir = create_video_mapping(@)]
StartsWith(s, out) ==
  /\ out \in Spaces /\ Placed(out) /\ FirstTable(out.updir, TRUE)
  /\ \A n \in Pages : At(s.updir, n) # NotPresent => At(out.updir, n) = At(s.updir, n)
  /\ out.brk = s.brk /\ out.mem = s.mem /\ out.screen = s.screen

(* Both are added to what the space had.                                   *)
LEMMA StartedIs ==
  ASSUME Byte = 8, NEW s \in Spaces, Placed(s), FirstTable(s.updir, FALSE), KOFFSET - STACK_SIZE >= PT_SIZE,
         HasMemory(Started(s))
  PROVE  StartsWith(s, Started(s))
<1> DEFINE v == KOFFSET - STACK_SIZE
           got == mm_malloc(s, v, STACK_SIZE)
           out == Started(s)
<1>1. KOFFSET \in Nat /\ STACK_SIZE \in Nat /\ STACK_SIZE > 0 /\ Page \in Nat /\ Page > 0 /\ PT_SIZE \in Int /\ PT_SIZE >= 0
  <2>1. KOFFSET \in Nat /\ STACK_SIZE \in Nat /\ STACK_SIZE > 0 /\ Page \in Nat /\ Page >= 4
    BY PagingAssumption
  <2>2. Page \in Int /\ NR_PTE \in Int /\ NR_PTE > 0 /\ PT_SIZE = Page * NR_PTE /\ PT_SIZE \in Int
    BY InPagesHolds DEF InPages
  <2>3. Page * NR_PTE >= 0
    <3>1. Page > 0
      BY <2>1
    <3>2. Page * 0 < Page * NR_PTE /\ Page * 0 \in Int /\ Page * NR_PTE \in Int
      BY <2>2, <3>1, Grows
    <3>3. Page * 0 = 0
      BY <2>1
    <3> DEFINE y == Page * NR_PTE
    <3>4. QED
      BY ONLY <3>2, <3>3, 0 < y, y \in Int
  <2>4. QED
    BY <2>1, <2>2, <2>3
<1>2. v \in Nat /\ v >= PT_SIZE /\ v + STACK_SIZE = KOFFSET
  BY <1>1
<1>3. got \in Spaces
  <2> HIDE DEF v
  <2>1. QED
    BY <1>1, <1>2, MallocIs
<1> HIDE DEF got
<1>4. out = [got EXCEPT !.updir = create_video_mapping(got.updir)]
  BY DEF Started, got
<1> HIDE DEF out
<1>5. /\ out.updir = create_video_mapping(got.updir) /\ out.pf = got.pf /\ out.brk = got.brk
      /\ out.mem = got.mem /\ out.screen = got.screen
      /\ out = [updir |-> out.updir, pf |-> out.pf, brk |-> out.brk, mem |-> out.mem, screen |-> out.screen]
  BY <1>3, <1>4 DEF Spaces
<1>6. HasMemory(got)
  BY <1>5 DEF HasMemory, out
<1>7. Adds(s, got) /\ got.brk = s.brk /\ got.mem = s.mem
  <2> HIDE DEF v
  <2>1. v + STACK_SIZE <= KOFFSET
    BY <1>1, <1>2
  <2>2. QED
    BY <1>1, <1>2, <1>6, <2>1, MallocAdds DEF got
<1>8. got.updir \in Directories
  BY <1>3 DEF Spaces
<1>9. /\ out.updir \in Directories /\ FirstTable(out.updir, TRUE)
      /\ \A n \in Pages : n >= NR_PTE => At(out.updir, n) = At(got.updir, n)
  BY <1>5, <1>8, VideoMapped
<1>10. out \in Spaces
  BY <1>3, <1>5, <1>9 DEF Spaces
<1>11. /\ NR_PTE \in Int /\ NR_PTE > 0 /\ UserPages \in Int /\ NR_PTE <= UserPages
       /\ UserPages <= NR_PDE * NR_PTE /\ NR_PDE * NR_PTE \in Int
  <2> DEFINE w == NR_PDE * NR_PTE
  <2>1. NR_PTE <= KernelPages /\ KernelPages <= MemoryPages /\ MemoryPages <= UserPages /\ UserPages + MemoryPages <= w
        /\ KernelPages \in Int /\ MemoryPages \in Nat /\ UserPages \in Int /\ w \in Int /\ NR_PTE \in Int /\ NR_PTE > 0
    BY InPagesHolds DEF InPages
  <2> HIDE DEF w
  <2>2. NR_PTE <= UserPages /\ UserPages <= w
    BY <2>1
  <2>3. QED
    BY <2>1, <2>2 DEF w
<1>12. \A n \in Own : n \in Pages /\ n >= NR_PTE
  <2> DEFINE w == NR_PDE * NR_PTE
  <2>1. Pages = 0 .. w - 1 /\ w \in Int /\ UserPages <= w
    BY <1>11 DEF Pages
  <2> HIDE DEF w
  <2>2. QED
    BY <1>11, <2>1 DEF Own
<1>13. \A n \in Pages : n >= UserPages => n >= NR_PTE
  <2>1. \A n \in Pages : n \in Int
    BY DEF Pages
  <2>2. QED
    BY <1>11, <2>1
<1>14. \A n \in Own : At(out.updir, n) = At(got.updir, n)
  BY <1>9, <1>12
<1>15. \A n \in Pages : n >= UserPages => At(out.updir, n) = At(init_page, n)
  BY <1>7, <1>9, <1>13 DEF Adds, Placed
<1>16. Placed(out)
  <2>1. Placed(got)
    BY <1>7 DEF Adds
  <2>2. out.pf = got.pf
    BY <1>5
  <2>3. \A n \in Own : At(got.updir, n) = NotPresent \/ At(got.updir, n) \in KernelPages .. got.pf - 1
    BY <2>1 DEF Placed
  <2>4. \A n, q \in Own : At(got.updir, n) = At(got.updir, q) /\ At(got.updir, n) # NotPresent => n = q
    BY <2>1 DEF Placed
  <2>5. KernelPages <= got.pf /\ got.pf <= MemoryPages
    BY <2>1 DEF Placed
  <2>6. \A n, q \in Own : At(out.updir, n) = At(out.updir, q) /\ At(out.updir, n) # NotPresent => n = q
    BY <1>14, <2>4
  <2>7. QED
    BY <1>14, <1>15, <2>2, <2>3, <2>5, <2>6 DEF Placed
<1>17. ASSUME NEW n \in Pages, At(s.updir, n) # NotPresent PROVE At(out.updir, n) = At(s.updir, n)
  <2>1. n \in Int /\ n >= 0
    BY DEF Pages
  <2>2. CASE n < NR_PTE
    <3>1. n \in 0 .. NR_PTE - 1
      BY <1>11, <2>1, <2>2
    <3>2. QED
      BY <1>17, <3>1 DEF FirstTable
  <2>3. CASE n >= NR_PTE
    BY <1>7, <1>9, <1>17, <2>3 DEF Adds
  <2>4. QED
    BY <1>11, <2>1, <2>2, <2>3
<1>18. out.brk = s.brk /\ out.mem = s.mem /\ out.screen = s.screen
  BY <1>5, <1>7 DEF Adds
<1>19. QED
  BY <1>9, <1>10, <1>16, <1>17, <1>18 DEF StartsWith, out

(* Segments in place stay there when pages are only added.                 *)
LEMMA PartsKept ==
  ASSUME Byte = 8, NEW s, NEW out, NEW segs \in Layouts, NEW ld, NEW kd,
         Parts(s, segs, ld), \A n \in Pages : At(s.updir, n) # NotPresent => At(out.updir, n) = At(s.updir, n),
         \A k \in 1 .. Len(segs) : k <= ld
  PROVE  Parts(out, segs, kd)
<1>1. KOFFSET \in Nat /\ STACK_SIZE \in Nat /\ STACK_SIZE > 0 /\ Page \in Nat
  BY PagingAssumption
<1> SUFFICES ASSUME NEW j \in 1 .. Len(segs)
             PROVE  Covered(out.updir, segs[j].vaddr, segs[j].memsz)
  BY DEF Parts
<1> DEFINE v == segs[j].vaddr
           z == segs[j].memsz
<1>2. Covered(s.updir, v, z)
  BY DEF Parts
<1>3. v \in Nat /\ z \in Nat /\ z > 0 /\ v + z <= KOFFSET - STACK_SIZE
  BY SegmentsLie
<1> HIDE DEF v, z
<1>4. v + z <= KOFFSET
  BY <1>1, <1>3
<1>5. PageOf(v) .. PageOf(v + z - 1) \subseteq Pages
  BY <1>3, <1>4, UserArea
<1>6. Covered(out.updir, v, z)
  BY <1>2, <1>5 DEF Covered
<1>7. QED
  BY <1>6 DEF v, z

(* The program starts: its heap begins behind its last segment.            *)
HeapAt(e) == [calls |-> 0, end |-> e, from |-> e]
EndOf(segs) == segs[Len(segs)].vaddr + segs[Len(segs)].memsz

(* The invariant holds with the program running.                           *)
LEMMA StartKeeps ==
  ASSUME Byte = 8, NEW s, NEW segs, NEW ld, NEW hp, InvOf(s, segs, ld, hp), segs # <<>>, ld = Len(segs),
         HasMemory(Started(s))
  PROVE  InvOf(Started(s), segs, ld + 1, HeapAt(EndOf(segs))) /\ StartsWith(s, Started(s))
<1> DEFINE k == ld + 1
           out == Started(s)
           e == EndOf(segs)
           hq == HeapAt(e)
<1>1. /\ s \in Spaces /\ Placed(s) /\ FirstTable(s.updir, Runs(segs, ld))
      /\ segs \in Layouts /\ ld \in Nat /\ Parts(s, segs, ld) /\ (ld >= 1 => s.brk >= PT_SIZE)
  BY DEF InvOf
<1>2. Len(segs) \in Nat /\ Len(segs) >= 1 /\ ld \in 1 .. Len(segs) /\ ld >= 1
  BY <1>1, SegmentsLie
<1>3. ~Runs(segs, ld) /\ Runs(segs, k) /\ k \in Nat /\ k <= Len(segs) + 1
  BY <1>1, <1>2 DEF Runs
<1>4. FirstTable(s.updir, FALSE)
  BY <1>1, <1>3 DEF FirstTable
<1>5. KOFFSET \in Nat /\ STACK_SIZE \in Nat /\ STACK_SIZE > 0 /\ Page \in Nat /\ Page > 0 /\ PT_SIZE \in Int /\ PT_SIZE > 0
  <2>1. KOFFSET \in Nat /\ STACK_SIZE \in Nat /\ STACK_SIZE > 0 /\ Page \in Nat /\ Page >= 4
    BY PagingAssumption
  <2>2. Page \in Int /\ NR_PTE \in Int /\ NR_PTE > 0 /\ PT_SIZE = Page * NR_PTE /\ PT_SIZE \in Int
    BY InPagesHolds DEF InPages
  <2>3. Page * NR_PTE > 0
    BY <2>1, <2>2, SMT
  <2>4. QED
    BY <2>1, <2>2, <2>3
<1>6. e \in Nat /\ e >= PT_SIZE /\ e <= KOFFSET - STACK_SIZE
  <2> DEFINE v == segs[Len(segs)].vaddr
             z == segs[Len(segs)].memsz
  <2>1. v \in Nat /\ z \in Nat /\ v >= PT_SIZE /\ z > 0 /\ v + z <= KOFFSET - STACK_SIZE
    BY <1>1, <1>2, SegmentsLie
  <2>2. e = v + z
    BY DEF EndOf
  <2> HIDE DEF e, v, z
  <2>3. QED
    BY <1>5, <2>1, <2>2
<1> HIDE DEF e
<1>7. KOFFSET - STACK_SIZE >= PT_SIZE
  BY <1>5, <1>6
<1>8. StartsWith(s, out)
  BY <1>1, <1>4, <1>7, StartedIs
<1> HIDE DEF out
<1>9. FirstTable(out.updir, Runs(segs, k))
  BY <1>3, <1>8 DEF StartsWith, FirstTable
<1>10. Parts(out, segs, k)
  <2>1. \A j \in 1 .. Len(segs) : j <= ld
    BY <1>2
  <2> HIDE DEF k
  <2>2. QED
    BY <1>1, <1>8, <2>1, PartsKept DEF StartsWith
<1>11. hq \in [calls : Nat, end : Nat, from : Nat]
  BY <1>6 DEF HeapAt
<1>12. Heaped(out, hq)
  <2>1. hq.calls = 0 /\ hq.end = e /\ hq.from = e
    BY DEF HeapAt
  <2>2. e .. e - 1 = {}
    BY <1>6
  <2> HIDE DEF hq
  <2>3. QED
    BY <1>6, <2>1, <2>2 DEF Heaped
<1> HIDE DEF hq
<1>13. InvOf(out, segs, k, hq)
  <2> HIDE DEF k
  <2>1. out \in Spaces /\ Placed(out) /\ out.brk >= PT_SIZE
    BY <1>1, <1>2, <1>8 DEF StartsWith
  <2>2. QED
    BY <1>1, <1>3, <1>9, <1>10, <1>11, <1>12, <2>1 DEF InvOf
<1>14. QED
  BY <1>8, <1>13 DEF out, hq, e

(* sbrk keeps it: what it adds is mapped, but for the first call.          *)
Maps(s, out) ==
  /\ out \in Spaces /\ Placed(out)
  /\ \A n \in Pages : At(s.updir, n) # NotPresent => At(out.updir, n) = At(s.updir, n)
  /\ \A n \in 0 .. NR_PTE - 1 : At(out.updir, n) = At(s.updir, n)
  /\ out.mem = s.mem /\ out.screen = s.screen

(* mm_brk maps what lies between the old break and the new one.            *)
LEMMA BreakIs ==
  ASSUME Byte = 8, NEW s \in Spaces, Placed(s), s.brk >= PT_SIZE, NEW e \in Nat, e <= KOFFSET - STACK_SIZE,
         HasMemory(mm_brk(s, e))
  PROVE  LET out == mm_brk(s, e)
         IN /\ Maps(s, out) /\ out.brk = e
            /\ \A a \in s.brk .. e - 1 : At(out.updir, PageOf(a)) # NotPresent
<1> DEFINE v == s.brk
           z == e - v
           got == IF e > v THEN mm_malloc(s, v, z) ELSE s
           out == mm_brk(s, e)
<1>1. KOFFSET \in Nat /\ STACK_SIZE \in Nat /\ STACK_SIZE > 0 /\ Page \in Nat /\ PT_SIZE \in Int /\ v \in Nat
  BY PagingAssumption, InPagesHolds DEF InPages, Spaces
<1>2. got \in Spaces
  <2>1. CASE e > v
    <3> HIDE DEF v
    <3>1. z \in Nat /\ z > 0 /\ v + z <= KOFFSET
      BY <1>1, <2>1
    <3> HIDE DEF z
    <3>2. QED
      BY <1>1, <2>1, <3>1, MallocIs
  <2>2. QED
    BY <2>1
<1>3. out = [got EXCEPT !.brk = e]
  BY DEF mm_brk
<1> HIDE DEF out, got
<1>4. /\ out \in Spaces /\ out.updir = got.updir /\ out.pf = got.pf /\ out.brk = e
      /\ out.mem = got.mem /\ out.screen = got.screen
  BY <1>2, <1>3 DEF Spaces
<1>5. Maps(s, got) /\ \A a \in v .. e - 1 : At(got.updir, PageOf(a)) # NotPresent
  <2>1. CASE e > v
    <3>1. got = mm_malloc(s, v, z) /\ HasMemory(got)
      BY <1>4, <2>1 DEF got, HasMemory, out
    <3>2. v >= PT_SIZE
      OBVIOUS
    <3> HIDE DEF v
    <3>3. z \in Nat /\ z > 0 /\ v + z <= KOFFSET /\ v + z = e
      BY <1>1, <2>1
    <3> HIDE DEF z
    <3>4. Adds(s, got) /\ Covered(got.updir, v, z) /\ got.mem = s.mem
      BY <1>1, <3>1, <3>2, <3>3, MallocAdds
    <3>5. \A a \in v .. v + z - 1 : PageOf(a) \in PageOf(v) .. PageOf(v + z - 1)
      BY <1>1, <3>3, UserArea
    <3>6. v + z - 1 = e - 1
      BY <1>1, <3>3
    <3>7. \A a \in v .. e - 1 : At(got.updir, PageOf(a)) # NotPresent
      BY <3>4, <3>5, <3>6 DEF Covered
    <3>8. QED
      BY <3>4, <3>7 DEF Adds, Maps
  <2>2. CASE ~(e > v)
    <3>1. got = s
      BY <2>2 DEF got
    <3>2. v .. e - 1 = {}
      <4> HIDE DEF v
      <4>1. QED
        BY <1>1, <2>2
    <3>3. QED
      BY <3>1, <3>2 DEF Maps
  <2>3. QED
    BY <2>1, <2>2
<1>6. QED
  BY <1>4, <1>5 DEF Maps, Placed, out

HeapGrown(hp, e) == [calls |-> hp.calls + 1, end |-> e, from |-> IF hp.calls = 0 THEN e ELSE hp.from]

(* The invariant holds with the grown heap.                                *)
LEMMA BreakKeeps ==
  ASSUME Byte = 8, NEW s, NEW segs, NEW ld, NEW hp, InvOf(s, segs, ld, hp), Runs(segs, ld),
         NEW incr \in Nat, incr > 0, hp.end + incr <= KOFFSET - STACK_SIZE, HasMemory(mm_brk(s, hp.end + incr))
  PROVE  LET e == hp.end + incr
         IN InvOf(mm_brk(s, e), segs, ld, HeapGrown(hp, e)) /\ Maps(s, mm_brk(s, e))
<1> DEFINE e == hp.end + incr
           out == mm_brk(s, e)
           hq == HeapGrown(hp, e)
<1>1. /\ s \in Spaces /\ Placed(s) /\ FirstTable(s.updir, Runs(segs, ld))
      /\ segs \in Layouts \cup {<<>>} /\ ld \in Nat /\ ld <= Len(segs) + 1 /\ Parts(s, segs, ld)
      /\ (ld >= 1 => s.brk >= PT_SIZE) /\ hp \in [calls : Nat, end : Nat, from : Nat] /\ Heaped(s, hp)
  BY DEF InvOf
<1>2. segs \in Layouts /\ Len(segs) \in Nat /\ ld >= 1 /\ segs # <<>> /\ ld > Len(segs)
  <2>1. segs \in Layouts /\ ld > Len(segs) /\ segs # <<>>
    BY <1>1 DEF Runs
  <2>2. Len(segs) \in Nat /\ Len(segs) >= 1
    BY <2>1, SegmentsLie
  <2>3. QED
    BY <1>1, <2>1, <2>2
<1>3. hp.calls \in Nat /\ hp.end \in Nat /\ hp.from \in Nat /\ e \in Nat /\ e >= hp.end /\ e <= KOFFSET - STACK_SIZE
  BY <1>1
<1> HIDE DEF e
<1>4. /\ Maps(s, out) /\ out.brk = e
      /\ \A a \in s.brk .. e - 1 : At(out.updir, PageOf(a)) # NotPresent
  BY <1>1, <1>2, <1>3, BreakIs DEF e
<1> HIDE DEF out
<1>5. FirstTable(out.updir, Runs(segs, ld))
  BY <1>1, <1>4 DEF Maps, FirstTable
<1>6. Parts(out, segs, ld)
  <2>1. \A j \in 1 .. Len(segs) : j <= ld
    BY <1>1, <1>2
  <2>2. QED
    BY <1>1, <1>2, <1>4, <2>1, PartsKept DEF Maps
<1>7. hq \in [calls : Nat, end : Nat, from : Nat] /\ hq.calls = hp.calls + 1 /\ hq.end = e
      /\ hq.from = IF hp.calls = 0 THEN e ELSE hp.from
  BY <1>3 DEF HeapGrown
<1> HIDE DEF hq
<1>8. KOFFSET \in Nat /\ STACK_SIZE \in Nat /\ STACK_SIZE > 0 /\ Page \in Nat /\ PT_SIZE \in Int
  BY PagingAssumption, InPagesHolds DEF InPages
<1>9. hp.end >= PT_SIZE /\ hp.from >= PT_SIZE /\ (hp.calls > 0 => s.brk = hp.end)
      /\ \A a \in hp.from .. hp.end - 1 : At(s.updir, PageOf(a)) # NotPresent
  BY <1>1 DEF Heaped
<1>10. \A a \in hq.from .. hq.end - 1 : At(out.updir, PageOf(a)) # NotPresent
  <2>1. CASE hp.calls = 0
    <3>1. hq.from .. hq.end - 1 = {}
      BY <1>3, <1>7, <2>1
    <3>2. QED
      BY <3>1
  <2>2. CASE hp.calls # 0
    <3>1. s.brk = hp.end
      BY <1>3, <1>9, <2>2
    <3> SUFFICES ASSUME NEW a \in hp.from .. e - 1 PROVE At(out.updir, PageOf(a)) # NotPresent
      BY <1>7, <2>2
    <3>2. a \in Int /\ a >= hp.from /\ a <= e - 1 /\ a >= PT_SIZE
      BY <1>3, <1>8, <1>9
    <3>3. CASE a < hp.end
      <4>1. a \in hp.from .. hp.end - 1
        BY <1>3, <3>2, <3>3
      <4>2. At(s.updir, PageOf(a)) # NotPresent
        BY <1>9, <4>1
      <4>3. PageOf(a) \in Pages
        <5>1. a \in Nat /\ a + 1 <= KOFFSET /\ a \in a .. a + 1 - 1
          BY <1>3, <1>8, <3>2, <3>3
        <5>2. \A l \in a .. a + 1 - 1 : PageOf(l) \in PageOf(a) .. PageOf(a + 1 - 1)
          BY <5>1, UserArea
        <5>3. PageOf(a) .. PageOf(a + 1 - 1) \subseteq Pages
          BY <5>1, UserArea
        <5>4. QED
          BY <5>1, <5>2, <5>3
      <4>4. QED
        BY <1>4, <4>2, <4>3 DEF Maps
    <3>4. CASE a >= hp.end
      <4>1. a \in s.brk .. e - 1
        BY <1>3, <3>1, <3>2, <3>4
      <4>2. QED
        BY <1>4, <4>1
    <3>5. QED
      BY <1>3, <3>2, <3>3, <3>4
  <2>3. QED
    BY <2>1, <2>2
<1>11. Heaped(out, hq)
  <2>1. hq.from >= PT_SIZE /\ hq.end >= PT_SIZE /\ hq.calls # 0 /\ hq.end <= KOFFSET - STACK_SIZE
    BY <1>3, <1>7, <1>8, <1>9
  <2>2. QED
    BY <1>4, <1>7, <1>10, <2>1 DEF Heaped
<1>12. InvOf(out, segs, ld, hq)
  <2>1. out \in Spaces /\ Placed(out) /\ out.brk >= PT_SIZE
    BY <1>3, <1>4, <1>8, <1>9 DEF Maps
  <2>2. QED
    BY <1>1, <1>2, <1>5, <1>6, <1>7, <1>11, <2>1 DEF InvOf
<1>13. QED
  BY <1>4, <1>12 DEF out, hq, e

(* A space begins so.                                                      *)
LEMMA PagingStarts ==
  ASSUME Byte = 8, PagingInit
  PROVE  PagingInv
<1> DEFINE m == [a \in 0 .. PHY_MEM - 1 |-> (a + (a \div Page)) % 2^Byte]
           c == [a \in 0 .. VideoLen - 1 |-> a % 2^Byte]
<1>1. /\ PHY_MEM \in Nat /\ VideoLen \in Nat /\ 2^Byte = 256
      /\ Page \in Int /\ Page > 0 /\ KernelPages \in Nat /\ NR_PTE \in Int /\ NR_PTE > 0
      /\ UserPages \in Nat /\ MemoryPages \in Nat
      /\ KernelPages <= MemoryPages /\ MemoryPages <= UserPages /\ NR_PTE <= KernelPages
  BY PagingAssumption, WordIs, InPagesHolds DEF InPages
<1>2. UserPages <= NR_PDE * NR_PTE /\ NR_PDE * NR_PTE \in Int
  <2> DEFINE w == NR_PDE * NR_PTE
  <2>1. UserPages + MemoryPages <= w /\ w \in Int
    BY InPagesHolds DEF InPages
  <2> HIDE DEF w
  <2>2. UserPages <= w
    BY <1>1, <2>1
  <2>3. QED
    BY <2>1, <2>2 DEF w
<1>3. /\ space = [updir |-> init_mm, pf |-> KMEM \div Page, brk |-> 0, mem |-> m, screen |-> c]
      /\ segments = <<>> /\ loaded = 0 /\ heap = NoHeap
  BY DEF PagingInit
<1>4. m \in Memories
  <2> SUFFICES ASSUME NEW a \in 0 .. PHY_MEM - 1 PROVE (a + (a \div Page)) % 2^Byte \in 0 .. 2^Byte - 1
    BY DEF Memories
  <2> DEFINE q == a \div Page
             x == a + q
  <2>1. q \in Int
    BY <1>1, ModIs
  <2> HIDE DEF q
  <2>2. x \in Int
    BY <2>1
  <2> HIDE DEF x
  <2>3. x % 256 \in 0 .. 256 - 1
    BY <2>2
  <2>4. QED
    BY <1>1, <2>3 DEF x, q
<1>5. c \in Screens
  <2> SUFFICES ASSUME NEW a \in 0 .. VideoLen - 1 PROVE a % 2^Byte \in 0 .. 2^Byte - 1
    BY DEF Screens
  <2>1. a % 256 \in 0 .. 256 - 1
    BY <1>1
  <2>2. QED
    BY <1>1, <2>1
<1> HIDE DEF m, c
<1>6. /\ space.updir = init_mm /\ space.pf = KernelPages /\ space.brk = 0 /\ space \in Spaces
  BY <1>1, <1>3, <1>4, <1>5, FirstTables DEF Spaces, KernelPages
<1>7. \A n \in Pages : At(space.updir, n) = IF n < UserPages THEN NotPresent ELSE At(init_page, n)
  BY <1>6, FirstTables
<1>8. \A n \in 0 .. UserPages - 1 : n \in Pages /\ n < UserPages
  <2> DEFINE w == NR_PDE * NR_PTE
  <2>1. Pages = 0 .. w - 1 /\ w \in Int /\ UserPages <= w
    BY <1>2 DEF Pages
  <2> HIDE DEF w
  <2>2. QED
    BY <1>1, <2>1
<1>9. \A n \in 0 .. UserPages - 1 : At(space.updir, n) = NotPresent
  BY <1>7, <1>8
<1>10. /\ Own \subseteq 0 .. UserPages - 1 /\ 0 .. NR_PTE - 1 \subseteq 0 .. UserPages - 1
       /\ NR_PTE - 1 \in 0 .. UserPages - 1 /\ (NR_PTE - 1) + 1 .. UserPages - 1 \subseteq 0 .. UserPages - 1
  BY <1>1 DEF Own
<1>11. \A n \in Pages : n >= UserPages => At(space.updir, n) = At(init_page, n)
  <2>1. \A n \in Pages : n \in Int
    BY DEF Pages
  <2>2. QED
    BY <1>1, <1>7, <2>1
<1>12. Placed(space)
  BY <1>1, <1>6, <1>9, <1>10, <1>11 DEF Placed
<1>13. ~Runs(segments, loaded) /\ Len(segments) = 0
  BY <1>3 DEF Runs
<1>14. FirstTable(space.updir, Runs(segments, loaded))
  BY <1>9, <1>10, <1>13 DEF FirstTable
<1>15. Topped(space, TopPage(segments, loaded))
  BY <1>3, <1>9, <1>10 DEF Topped, TopPage
<1>16. Parts(space, segments, loaded)
  BY <1>13 DEF Parts
<1>17. heap \in [calls : Nat, end : Nat, from : Nat]
  BY <1>3 DEF NoHeap
<1>18. QED
  BY <1>3, <1>6, <1>12, <1>13, <1>14, <1>15, <1>16, <1>17 DEF PagingInv, InvOf

(* The machine that the processor sees: the kernel's directory, and then   *)
(* the program's.                                                          *)
ViewOf(s, runs) == [dir |-> IF runs THEN s.updir ELSE init_page, mem |-> s.mem, screen |-> s.screen]

(* That machine, and that what an address stands for is settled.           *)
LEMMA ViewIs ==
  ASSUME Byte = 8, PagingInv
  PROVE  /\ View = ViewOf(space, Running) /\ View \in PageMachines
         /\ View.dir = IF Running THEN space.updir ELSE init_page
         /\ Running = Runs(segments, loaded) /\ Stands(space)
<1>1. space \in Spaces /\ Placed(space) /\ FirstTable(space.updir, Runs(segments, loaded))
  BY DEF PagingInv, InvOf
<1>2. Running = Runs(segments, loaded)
  BY DEF Running, Runs
<1>3. View = ViewOf(space, Running)
  BY DEF View, ProgramView, ViewOf
<1>4. View.dir = IF Running THEN space.updir ELSE init_page
  BY <1>3 DEF ViewOf
<1>5. space.updir \in Directories /\ space.mem \in Memories /\ space.screen \in Screens /\ init_page \in Directories
  BY <1>1, KernelTables DEF Spaces
<1>6. View \in PageMachines
  BY <1>3, <1>5 DEF ViewOf, PageMachines
<1>7. QED
  BY <1>1, <1>2, <1>3, <1>4, <1>6 DEF Stands

(* What is mapped has a place.                                             *)
LEMMA PlaceIs ==
  ASSUME Byte = 8, PagingInv, NEW l \in Addresses, Present(View, l)
  PROVE  /\ At(View.dir, PageOf(l)) \in Int /\ Physical(View.dir, l) \in 0 .. PHY_MEM - 1
         /\ page_translate(View, l) = Physical(View.dir, l)
<1>1. /\ View.dir = IF Running THEN space.updir ELSE init_page
      /\ space \in Spaces /\ Placed(space) /\ FirstTable(space.updir, Running) /\ Running \in BOOLEAN
  BY ViewIs DEF Stands, Running
<1>2. Frame(View.dir, l) # NotPresent
  BY DEF Present
<1>3. CASE Running
  BY <1>1, <1>2, <1>3, ProgramPlaces DEF InProgram, page_translate
<1>4. CASE ~Running
  BY <1>1, <1>2, <1>4, KernelPlaces DEF InKernel, page_translate
<1>5. QED
  BY <1>3, <1>4

(* An access to mapped addresses reaches places only.                      *)
LEMMA ReachedIs ==
  ASSUME Byte = 8, PagingInv, NEW l \in Addresses, NEW len \in {1, 2, 4}, IsMapped(View, l, len)
  PROVE  /\ Reached(View, l, len) /\ (Unsplit(View, l, len) <=> ~Split(View, l, len))
         /\ \A i \in 0 .. len - 1 : l + i \in Addresses /\ Present(View, l + i)
<1>1. l \in Nat
  BY AddressPages
<1>2. \A i \in 0 .. len - 1 : l + i \in Area(l, len)
  BY <1>1 DEF Area
<1>3. \A i \in 0 .. len - 1 : l + i \in Addresses /\ Present(View, l + i)
  BY <1>2 DEF IsMapped
<1>4. Reached(View, l, len)
  BY <1>3, PlaceIs DEF Reached, PlaceAt
<1>5. \A a \in Area(l, len) : a - l \in 0 .. len - 1 /\ l + (a - l) = a
  BY <1>1 DEF Area
<1>6. \A i \in 0 .. len - 1 : PlaceAt(View, l, i) = page_translate(View, l + i)
  BY DEF PlaceAt, page_translate
<1>7. Unsplit(View, l, len) <=> ~Split(View, l, len)
  <2>1. (\E a \in Area(l, len) : is_mmio(page_translate(View, a))) <=> \E i \in 0 .. len - 1 : is_mmio(PlaceAt(View, l, i))
    <3>1. ASSUME NEW a \in Area(l, len), is_mmio(page_translate(View, a)) PROVE \E i \in 0 .. len - 1 : is_mmio(PlaceAt(View, l, i))
      <4>1. is_mmio(PlaceAt(View, l, a - l)) /\ a - l \in 0 .. len - 1
        BY <1>5, <1>6, <3>1
      <4>2. QED
        BY <4>1
    <3>2. ASSUME NEW i \in 0 .. len - 1, is_mmio(PlaceAt(View, l, i)) PROVE \E a \in Area(l, len) : is_mmio(page_translate(View, a))
      BY <1>2, <1>6, <3>2
    <3>3. QED
      BY <3>1, <3>2
  <2>2. QED
    BY <2>1 DEF Unsplit, Split
<1>8. QED
  BY <1>3, <1>4, <1>7

(* A store keeps the invariant, and the machine that it makes is the next  *)
(* one.                                                                    *)
AccessOf(len, l, data) ==
  LET out == laddr_write(View, l, len, data)
  IN /\ stored.count < MaxStores /\ IsMapped(View, l, len)
     /\ space' = [space EXCEPT !.mem = out.mem, !.screen = out.screen]
     /\ stored' = [count |-> stored.count + 1, at |-> l, len |-> len, data |-> data]
     /\ UNCHANGED <<segments, loaded, heap>>

(* It changes bytes, and neither directory nor frames.                     *)
LEMMA AccessKeeps ==
  ASSUME Byte = 8, PagingInv, NEW len \in {1, 2, 4}, NEW l \in Addresses, NEW data \in Stored, AccessOf(len, l, data)
  PROVE  PagingInv' /\ View' = laddr_write(View, l, len, data) /\ Kept(View, View') /\ Running' = Running
<1> DEFINE out == laddr_write(View, l, len, data)
<1>1. IsMapped(View, l, len) /\ space' = [space EXCEPT !.mem = out.mem, !.screen = out.screen]
      /\ segments' = segments /\ loaded' = loaded /\ heap' = heap
  BY DEF AccessOf
<1>2. data \in 0 .. Word - 1 /\ l \in Nat
  BY PagingAssumption, AddressPages
<1>3. View = ViewOf(space, Running) /\ View \in PageMachines
  BY ViewIs
<1>4. Reached(View, l, len)
  BY <1>1, ReachedIs
<1>5. Kept(View, out)
  BY <1>2, <1>3, <1>4, WriteChanges
<1> HIDE DEF out
<1>6. InvOf(space, segments, loaded, heap)
  BY DEF PagingInv
<1>7. space \in Spaces
  BY <1>6 DEF InvOf
<1>8. out.mem \in Memories /\ out.screen \in Screens /\ out.dir = View.dir
      /\ out = [dir |-> out.dir, mem |-> out.mem, screen |-> out.screen]
  BY <1>5 DEF Kept, PageMachines
<1> DEFINE s == space'
<1>9. /\ s.updir = space.updir /\ s.pf = space.pf /\ s.brk = space.brk /\ s.mem = out.mem /\ s.screen = out.screen
      /\ s = [updir |-> space.updir, pf |-> space.pf, brk |-> space.brk, mem |-> out.mem, screen |-> out.screen]
  <2> DEFINE w == [space EXCEPT !.mem = out.mem]
  <2>1. w = [updir |-> space.updir, pf |-> space.pf, brk |-> space.brk, mem |-> out.mem, screen |-> space.screen]
    BY <1>7 DEF Spaces
  <2>2. s = [w EXCEPT !.screen = out.screen]
    BY <1>1
  <2> HIDE DEF w
  <2>3. s = [updir |-> space.updir, pf |-> space.pf, brk |-> space.brk, mem |-> out.mem, screen |-> out.screen]
    BY <2>1, <2>2
  <2> HIDE DEF s
  <2>4. QED
    BY <2>3
<1> HIDE DEF s
<1>10. s \in Spaces
  BY <1>7, <1>8, <1>9 DEF Spaces
<1>11. InvOf(s, segments, loaded, heap)
  BY <1>6, <1>9, <1>10 DEF InvOf, Placed, Parts, Topped, Heaped
<1>12. PagingInv'
  BY <1>1, <1>11 DEF PagingInv, s
<1>13. Running' = Running
  BY <1>1 DEF Running
<1>14. View' = ViewOf(s, Running)
  <2>1. View' = ViewOf(space', Running')
    BY DEF View, ProgramView, ViewOf
  <2>2. QED
    BY <1>13, <2>1 DEF s
<1>15. View.dir = IF Running THEN space.updir ELSE init_page
  BY ViewIs
<1>16. View' = out
  BY <1>8, <1>9, <1>14, <1>15 DEF ViewOf
<1>17. QED
  BY <1>5, <1>12, <1>13, <1>16 DEF out

(* Every step keeps the invariant.                                         *)
LEMMA PagingKeeps ==
  ASSUME Byte = 8, PagingInv, [PagingStep]_pageVars
  PROVE  PagingInv'
<1>1. InvOf(space, segments, loaded, heap)
  BY DEF PagingInv
<1>2. CASE UNCHANGED pageVars
  BY <1>1, <1>2 DEF pageVars, PagingInv
<1>3. CASE ReadHeader
  <2>1. /\ segments = <<>> /\ segments' \in Layouts /\ loaded = 0 /\ loaded' = 0
        /\ space' = space /\ heap' = heap
    BY <1>1, <1>3 DEF ReadHeader, InvOf
  <2> DEFINE q == segments'
  <2>2. q \in Layouts /\ q # <<>> /\ Len(q) \in Nat /\ Len(q) >= 1
    BY <2>1, SegmentsLie
  <2> HIDE DEF q
  <2>3. ~Runs(q, 0) /\ ~Runs(segments, loaded) /\ TopPage(q, 0) = TopPage(segments, loaded)
    BY <2>1, <2>2 DEF Runs, TopPage
  <2>4. FirstTable(space.updir, Runs(q, 0)) /\ Topped(space, TopPage(q, 0))
    BY <1>1, <2>3 DEF InvOf, FirstTable
  <2>5. Parts(space, q, 0)
    BY <2>2 DEF Parts
  <2>6. InvOf(space, q, 0, heap)
    BY <1>1, <2>2, <2>3, <2>4, <2>5 DEF InvOf
  <2>7. QED
    BY <2>1, <2>6 DEF PagingInv, q
<1>4. CASE LoadSegment
  <2>1. /\ loaded < Len(segments) /\ HasMemory(LoadPart(space, segments[loaded + 1]))
        /\ space' = LoadPart(space, segments[loaded + 1]) /\ loaded' = loaded + 1
        /\ segments' = segments /\ heap' = heap
    BY <1>4 DEF LoadSegment, HasMemory
  <2>2. InvOf(LoadPart(space, segments[loaded + 1]), segments, loaded + 1, heap)
    BY <1>1, <2>1, LoadKeeps
  <2>3. QED
    BY <2>1, <2>2 DEF PagingInv
<1>5. CASE StartProgram
  <2>1. /\ segments # <<>> /\ loaded = Len(segments) /\ space' = Started(space) /\ HasMemory(Started(space))
        /\ loaded' = loaded + 1 /\ heap' = HeapAt(EndOf(segments)) /\ segments' = segments
    BY <1>5 DEF StartProgram, Started, HeapAt, End, EndOf, HasMemory
  <2>2. InvOf(Started(space), segments, loaded + 1, HeapAt(EndOf(segments)))
    BY <1>1, <2>1, StartKeeps
  <2>3. QED
    BY <2>1, <2>2 DEF PagingInv
<1>6. CASE sbrk
  <2>1. PICK incr \in Growths :
          /\ Running /\ heap.end + incr <= KOFFSET - STACK_SIZE /\ space' = mm_brk(space, heap.end + incr) /\ HasMemory(space')
          /\ heap' = HeapGrown(heap, heap.end + incr) /\ segments' = segments /\ loaded' = loaded
    BY <1>6 DEF sbrk, HeapGrown
  <2>2. incr \in Nat /\ incr > 0
    BY PagingAssumption
  <2>3. HasMemory(mm_brk(space, heap.end + incr)) /\ Runs(segments, loaded)
    BY <2>1 DEF HasMemory, Running, Runs
  <2>4. InvOf(mm_brk(space, heap.end + incr), segments, loaded, HeapGrown(heap, heap.end + incr))
    BY <1>1, <2>1, <2>2, <2>3, BreakKeeps
  <2>5. QED
    BY <2>1, <2>4 DEF PagingInv
<1>7. CASE Access
  <2>1. PICK len \in {1, 2, 4}, l \in Addresses, data \in Stored : AccessOf(len, l, data)
    BY <1>7, Zenon DEF Access, AccessOf
  <2>2. QED
    BY <2>1, AccessKeeps
<1>8. QED
  BY <1>2, <1>3, <1>4, <1>5, <1>6, <1>7 DEF PagingStep

(* What stays of a space, outside an area, when another comes of it.       *)
Stays(s, out, area) == \A l \in Addresses \ area : Frame(s.updir, l) # NotPresent => SameAt(s, out, l)

(* Everything does when pages are only added.                              *)
LEMMA AddsStays ==
  ASSUME Byte = 8, NEW s \in Spaces, Placed(s), NEW shown \in BOOLEAN, FirstTable(s.updir, shown), NEW out \in Spaces,
         \A n \in Pages : At(s.updir, n) # NotPresent => At(out.updir, n) = At(s.updir, n),
         out.mem = s.mem, out.screen = s.screen
  PROVE  Stays(s, out, {})
<1> SUFFICES ASSUME NEW l \in Addresses, Frame(s.updir, l) # NotPresent PROVE SameAt(s, out, l)
  BY DEF Stays
<1>1. InProgram(s, l)
  BY ProgramPlaces
<1>2. l \in Nat /\ PageOf(l) \in Pages
  BY AddressPages
<1>3. At(s.updir, PageOf(l)) # NotPresent
  BY <1>2, PageIs
<1>4. At(out.updir, PageOf(l)) = At(s.updir, PageOf(l))
  BY <1>2, <1>3
<1>5. \A p : Cell(MachineOf(out), p) = Cell(MachineOf(s), p)
  BY DEF Cell, MachineOf
<1>6. QED
  BY <1>1, <1>4, <1>5, SameHolds

(* A segment that is loaded leaves the rest where it is, with what it      *)
(* holds, and is found where it was linked to.                             *)
FilledAt(out, ph) ==
  \A i \in 0 .. ph.memsz - 1 :
    /\ Frame(out.updir, ph.vaddr + i) # NotPresent
    /\ laddr_read(MachineOf(out), ph.vaddr + i, 1) = Filled_(ph, i)

(* The rest has other places: a program shares none.                       *)
LEMMA PartStays ==
  ASSUME Byte = 8, NEW s \in Spaces, Placed(s), FirstTable(s.updir, FALSE), NEW ph, SegmentLies(ph),
         NEW out, PartLoaded(s, out, ph)
  PROVE  Stays(s, out, Area(ph.vaddr, ph.memsz)) /\ FilledAt(out, ph)
<1> DEFINE v == ph.vaddr
           z == ph.memsz
           at == Physical(out.updir, v)
           o == MachineOf(out)
           w == MachineOf(s)
<1>1. /\ v \in Nat /\ z \in Nat /\ v >= PT_SIZE /\ z > 0 /\ v + z <= KOFFSET - STACK_SIZE
  BY DEF SegmentLies
<1>2. Adds(s, out) /\ LoadedAt(s, out, ph, at)
  BY DEF PartLoaded
<1>3. /\ out \in Spaces /\ Placed(out) /\ out.screen = s.screen
      /\ \A n \in Pages : At(s.updir, n) # NotPresent => At(out.updir, n) = At(s.updir, n)
  BY <1>2 DEF Adds
<1>4. FirstTable(out.updir, FALSE)
  BY <1>2 DEF Adds, FirstTable
<1>5. /\ at \in Int /\ at >= KMEM /\ at + z <= PHY_MEM
      /\ \A i \in 0 .. z - 1 :
           /\ At(out.updir, PageOf(v + i)) \in Int /\ At(out.updir, PageOf(v + i)) # NotPresent
           /\ Physical(out.updir, v + i) = at + i /\ out.mem[at + i] = Filled_(ph, i)
      /\ \A a \in 0 .. PHY_MEM - 1 : a \notin at .. at + z - 1 => out.mem[a] = s.mem[a]
  BY <1>2 DEF LoadedAt
<1>6. KOFFSET \in Nat /\ STACK_SIZE \in Nat /\ STACK_SIZE > 0 /\ Page \in Nat /\ PHY_MEM \in Nat /\ KMEM \in Nat /\ VMEM_ADDR \in Nat /\ VideoLen \in Nat
      /\ PT_SIZE \in Int /\ VMEM_ADDR + VideoLen <= KMEM
  <2>0. STACK_SIZE \in Nat /\ STACK_SIZE > 0
    BY PagingAssumption
  <2>1. /\ KOFFSET \in Nat /\ Page \in Nat /\ PHY_MEM \in Nat /\ KMEM \in Nat /\ VMEM_ADDR \in Nat /\ VideoLen \in Nat
        /\ PT_SIZE \in Int /\ VMEM_ADDR + VideoLen <= PT_SIZE
    BY PagingAssumption, InPagesHolds DEF InPages
  <2>2. PT_SIZE <= KMEM
    <3>1. /\ Page \in Int /\ Page >= 4 /\ NR_PTE \in Int /\ KernelPages \in Int /\ NR_PTE <= KernelPages
          /\ PT_SIZE = Page * NR_PTE /\ KMEM = Page * KernelPages
      BY InPagesHolds DEF InPages
    <3>2. QED
      BY <3>1, Grows
  <2>3. QED
    BY <2>0, <2>1, <2>2
<1>7. o \in PageMachines /\ o.dir = out.updir /\ o.mem = out.mem /\ o.screen = out.screen
      /\ w.mem = s.mem /\ w.screen = s.screen
  BY <1>3 DEF MachineOf, PageMachines, Spaces
<1> HIDE DEF v, z, at, o, w
<1>8. ASSUME NEW i \in 0 .. z - 1
      PROVE  /\ v + i \in Addresses /\ Frame(out.updir, v + i) # NotPresent
             /\ laddr_read(o, v + i, 1) = Filled_(ph, i)
             /\ v + i \in Area(v, z)
  <2> DEFINE l == v + i
             p == at + i
  <2>1. l \in Nat /\ l \in Addresses /\ l \in v .. v + z - 1
    BY <1>1, <1>6 DEF Addresses
  <2>2. p \in 0 .. PHY_MEM - 1 /\ ~is_mmio(p)
    <3>1. p \in Int /\ p >= KMEM /\ p >= 0 /\ p <= PHY_MEM - 1
      BY <1>1, <1>5, <1>6
    <3> HIDE DEF p
    <3>2. QED
      BY <1>6, <3>1 DEF is_mmio
  <2>3. At(o.dir, PageOf(l)) \in Int /\ At(out.updir, PageOf(l)) # NotPresent /\ Physical(o.dir, l) = p
        /\ out.mem[p] = Filled_(ph, i)
    BY <1>5, <1>7
  <2> HIDE DEF l, p
  <2>4. laddr_read(o, l, 1) = Cell(o, p)
    BY <1>7, <2>1, <2>2, <2>3, ReadOne
  <2>5. Cell(o, p) = out.mem[p]
    BY <1>7, <2>2 DEF Cell
  <2>6. Frame(out.updir, l) # NotPresent
    BY <2>1, <2>3, PageIs
  <2>7. QED
    BY <2>1, <2>3, <2>4, <2>5, <2>6 DEF l, Area
<1>9. ASSUME NEW l \in Addresses \ Area(v, z), Frame(s.updir, l) # NotPresent PROVE SameAt(s, out, l)
  <2> DEFINE p == Physical(s.updir, l)
  <2>1. InProgram(s, l) /\ l \in Nat /\ PageOf(l) \in Pages
    BY <1>9, ProgramPlaces, AddressPages
  <2>2. At(s.updir, PageOf(l)) # NotPresent /\ Frame(s.updir, l) = At(s.updir, PageOf(l))
    BY <1>9, <2>1, PageIs
  <2>3. At(out.updir, PageOf(l)) = At(s.updir, PageOf(l))
    BY <1>3, <2>1, <2>2
  <2>4. Frame(out.updir, l) = Frame(s.updir, l) /\ Physical(out.updir, l) = p
    BY <2>1, <2>2, <2>3, PageIs DEF Physical
  <2>5. /\ p \in 0 .. PHY_MEM - 1
        /\ l >= KOFFSET => p < KMEM
        /\ l < KOFFSET /\ PdeOf(l) = 0 => p < KMEM
    BY <2>1 DEF InProgram
  <2> HIDE DEF p
  <2>6. p \notin at .. at + z - 1
    <3> SUFFICES ASSUME p \in at .. at + z - 1 PROVE FALSE
      OBVIOUS
    <3>1. p >= KMEM /\ p - at \in 0 .. z - 1 /\ at + (p - at) = p
      BY <1>1, <1>5, <1>6, <2>5
    <3>2. l < KOFFSET /\ PdeOf(l) # 0
      BY <1>6, <2>1, <2>5, <3>1
    <3> DEFINE i == p - at
               k == v + i
    <3>3. k \in Addresses /\ Frame(out.updir, k) # NotPresent /\ k \in Area(v, z)
      BY <1>8, <3>1
    <3>4. Physical(out.updir, k) = p
      BY <1>5, <3>1
    <3> HIDE DEF i, k
    <3>5. k = l
      BY <1>3, <1>4, <1>9, <2>4, <3>2, <3>3, <3>4, OwnPlaces
    <3>6. QED
      BY <1>9, <3>3, <3>5
  <2>7. Cell(o, p) = Cell(w, p)
    BY <1>3, <1>5, <1>7, <2>5, <2>6 DEF Cell
  <2>8. QED
    BY <1>3, <1>9, <2>1, <2>3, <2>7, SameHolds DEF p, o, w
<1>10. FilledAt(out, ph)
  BY <1>8 DEF FilledAt, v, z, o
<1>11. QED
  BY <1>9, <1>10 DEF Stays, v, z

(* What a store leaves at an address: its own byte, if the address stands  *)
(* for one that it names, and else what was there.                         *)
Written(at, len, data, b) ==
  LET same == {a \in Area(at, len) : StandsFor(a) = StandsFor(b)}
  IN IF same = {} THEN laddr_read(View, b, 1)
     ELSE LET a == CHOOSE x \in same : TRUE
          IN Low(data \div 2^(Byte * (a - at)), Byte)

(* A place holds what is to be found at its addresses.                     *)
LEMMA WrittenIs ==
  ASSUME Byte = 8, PagingInv, NEW out \in PageMachines, NEW at \in Addresses, NEW len \in {1, 2, 4},
         NEW data \in 0 .. Word - 1, IsMapped(View, at, len), Changes(View, out, at, len, data),
         NEW b \in Addresses, Present(View, b)
  PROVE  Cell(out, Physical(View.dir, b)) = Written(at, len, data, b)
<1> DEFINE same == {a \in Area(at, len) : StandsFor(a) = StandsFor(b)}
           p == Physical(View.dir, b)
<1>1. at \in Nat /\ View \in PageMachines /\ Stands(space) /\ b \in Nat
  BY ViewIs, AddressPages
<1>2. \A i \in 0 .. len - 1 : at + i \in Addresses /\ Present(View, at + i)
  BY ReachedIs
<1>3. p \in 0 .. PHY_MEM - 1 /\ At(View.dir, PageOf(b)) \in Int /\ page_translate(View, b) = p
  BY PlaceIs
<1>4. \A i \in 0 .. len - 1 : PlaceAt(View, at, i) = page_translate(View, at + i)
  BY DEF PlaceAt, page_translate
<1>5. \A i \in 0 .. len - 1 : p = PlaceAt(View, at, i) <=> StandsFor(at + i) = StandsFor(b)
  <2> SUFFICES ASSUME NEW i \in 0 .. len - 1 PROVE p = PlaceAt(View, at, i) <=> StandsFor(at + i) = StandsFor(b)
    OBVIOUS
  <2> DEFINE l == at + i
  <2>1. l \in Addresses /\ Present(View, l) /\ PlaceAt(View, at, i) = page_translate(View, l)
    BY <1>2, <1>4
  <2> HIDE DEF l
  <2>2. page_translate(View, l) = page_translate(View, b) <=> StandsFor(l) = StandsFor(b)
    BY <1>1, <2>1, StandsForPlaces
  <2>3. p = PlaceAt(View, at, i) <=> StandsFor(l) = StandsFor(b)
    BY <1>3, <2>1, <2>2
  <2>4. QED
    BY <2>3 DEF l
<1>6. /\ \A i \in 0 .. len - 1 : p = PlaceAt(View, at, i) => Cell(out, p) = Digit(data, i)
      /\ (\A i \in 0 .. len - 1 : p # PlaceAt(View, at, i)) => Cell(out, p) = Cell(View, p)
  BY <1>3 DEF Changes
<1>7. laddr_read(View, b, 1) = Cell(View, p)
  BY <1>1, <1>3, ReadOne
<1>8. /\ \A i \in 0 .. len - 1 : at + i \in Area(at, len)
      /\ \A a \in Area(at, len) : a - at \in 0 .. len - 1 /\ at + (a - at) = a
  BY <1>1 DEF Area
<1> HIDE DEF p
<1>9. CASE same = {}
  <2>1. \A i \in 0 .. len - 1 : p # PlaceAt(View, at, i)
    BY <1>5, <1>8, <1>9
  <2>2. Written(at, len, data, b) = laddr_read(View, b, 1)
    BY <1>9 DEF Written
  <2>3. QED
    BY <1>6, <1>7, <2>1, <2>2 DEF p
<1>10. CASE same # {}
  <2> DEFINE a == CHOOSE x \in same : TRUE
             i == a - at
  <2>1. a \in same
    BY <1>10
  <2>2. Written(at, len, data, b) = Low(data \div 2^(Byte * i), Byte)
    BY <1>10 DEF Written
  <2> HIDE DEF a
  <2>3. i \in 0 .. len - 1 /\ at + i = a /\ StandsFor(a) = StandsFor(b)
    BY <1>8, <2>1
  <2> HIDE DEF i
  <2>4. Cell(out, p) = Digit(data, i)
    BY <1>5, <1>6, <2>3
  <2>5. QED
    BY <2>2, <2>4 DEF Digit, p
<1>11. QED
  BY <1>9, <1>10

(* So a read returns what was last written, byte for byte.                 *)
Expected(at, n, data, l, len) ==
  PartialSums([i \in 0 .. len - 1 |-> Written(at, n, data, l + i) * 2^(Byte * i)], len)[len]

(* Read in the next state, under the directory of this one.                *)
LEMMA ReadsSee ==
  ASSUME Byte = 8, PagingInv, NEW out \in PageMachines, out.dir = View.dir, NEW at \in Addresses, NEW n \in {1, 2, 4},
         NEW data \in 0 .. Word - 1, IsMapped(View, at, n), Changes(View, out, at, n, data),
         NEW l \in Addresses, NEW len \in {1, 2, 4}, IsMapped(View, l, len), ~Split(View, l, len)
  PROVE  laddr_read(out, l, len) = Expected(at, n, data, l, len)
<1> DEFINE V(i) == Written(at, n, data, l + i)
           W == [i \in 0 .. len - 1 |-> V(i)]
<1>1. /\ l \in Nat /\ Reached(View, l, len) /\ Unsplit(View, l, len)
      /\ \A i \in 0 .. len - 1 : l + i \in Addresses /\ Present(View, l + i)
  BY AddressPages, ReachedIs
<1>2. \A i \in 0 .. len - 1 : PlaceAt(out, l, i) = PlaceAt(View, l, i)
  BY DEF PlaceAt
<1>3. Reached(out, l, len) /\ Unsplit(out, l, len)
  BY <1>1, <1>2 DEF Reached, Unsplit
<1>4. laddr_read(out, l, len) = Joined(CellsAt(out, l, len), len)
  BY <1>1, <1>3, ReadJoins
<1>5. \A i \in 0 .. len - 1 : Cell(out, PlaceAt(out, l, i)) = V(i)
  BY <1>1, <1>2, WrittenIs DEF PlaceAt
<1> HIDE DEF V
<1>6. CellsAt(out, l, len) = W
  BY <1>5 DEF CellsAt
<1>7. [i \in 0 .. len - 1 |-> W[i] * 2^(Byte * i)] = [i \in 0 .. len - 1 |-> V(i) * 2^(Byte * i)]
  OBVIOUS
<1>8. Joined(W, len) = PartialSums([i \in 0 .. len - 1 |-> V(i) * 2^(Byte * i)], len)[len]
  BY <1>7 DEF Joined
<1>9. QED
  BY <1>4, <1>6, <1>8 DEF V, Expected

(* For each step of the machine: only stores change stored.                *)
LEMMA ReadsSeeStores ==
  ASSUME Byte = 8, PagingInv, [PagingStep]_pageVars
  PROVE  ReadsSeeWrites
<1>1. CASE stored' = stored
  BY <1>1 DEF ReadsSeeWrites
<1>2. CASE stored' # stored
  <2>1. Access
    BY <1>2 DEF PagingStep, pageVars, ReadHeader, LoadSegment, StartProgram, sbrk
  <2>2. PICK n \in {1, 2, 4}, at \in Addresses, data \in Stored : AccessOf(n, at, data)
    BY <2>1, Zenon DEF Access, AccessOf
  <2>3. stored'.at = at /\ stored'.len = n /\ stored'.data = data /\ IsMapped(View, at, n)
    BY <2>2 DEF AccessOf
  <2>4. View' = laddr_write(View, at, n, data) /\ Kept(View, View')
    BY <2>2, AccessKeeps
  <2>5. data \in 0 .. Word - 1 /\ at \in Nat
    BY PagingAssumption, AddressPages
  <2>6. CASE Split(View, at, n)
    BY <2>3, <2>6 DEF ReadsSeeWrites
  <2>7. CASE ~Split(View, at, n)
    <3>1. Reached(View, at, n) /\ Unsplit(View, at, n) /\ View \in PageMachines
      BY <2>3, <2>7, ReachedIs, ViewIs
    <3>2. Changes(View, View', at, n, data)
      BY <2>4, <2>5, <3>1, WriteChanges
    <3> DEFINE out == View'
    <3>3. out \in PageMachines /\ out.dir = View.dir /\ Changes(View, out, at, n, data)
      BY <2>4, <3>2 DEF Kept
    <3> HIDE DEF out
    <3>4. \A l \in Addresses, len \in {1, 2, 4} :
            IsMapped(View, l, len) /\ ~Split(View, l, len) => laddr_read(out, l, len) = Expected(at, n, data, l, len)
      BY <2>3, <2>5, <3>3, ReadsSee
    <3>5. \A l \in Addresses, len \in {1, 2, 4} :
            IsMapped(View, l, len) /\ ~Split(View, l, len) =>
              laddr_read(View', l, len) = Expected(stored'.at, stored'.len, stored'.data, l, len)
      BY <2>3, <3>4 DEF out
    <3>6. QED
      BY <3>5 DEF ReadsSeeWrites, Expected, Written
  <2>8. QED
    BY <2>6, <2>7
<1>3. QED
  BY <1>1, <1>2

(* What is loaded is found, and the rest stays, when more is mapped.       *)
LEMMA MappingsStay ==
  ASSUME Byte = 8, PagingInv, [PagingStep]_pageVars
  PROVE  MappingsKeep
<1>1. InvOf(space, segments, loaded, heap)
  BY DEF PagingInv
<1>2. space \in Spaces /\ Placed(space) /\ FirstTable(space.updir, Runs(segments, loaded)) /\ loaded \in Nat
      /\ Runs(segments, loaded) \in BOOLEAN
  BY <1>1 DEF InvOf, Runs
<1>3. ProgramView = MachineOf(space) /\ ProgramView' = MachineOf(space')
  BY DEF ProgramView, MachineOf
<1>4. \A l : /\ Present(ProgramView, l) <=> Frame(space.updir, l) # NotPresent
             /\ Present(ProgramView', l) <=> Frame(space'.updir, l) # NotPresent
  BY DEF ProgramView, Present
<1>5. \A area : Stays(space, space', area) =>
        \A l \in Addresses \ area : Present(ProgramView, l) =>
          Present(ProgramView', l) /\ laddr_read(ProgramView', l, 1) = laddr_read(ProgramView, l, 1)
  BY <1>3, <1>4 DEF Stays, SameAt
<1>6. CASE loaded' = loaded /\ heap' = heap
  BY <1>6 DEF MappingsKeep
<1>7. CASE LoadSegment
  <2> DEFINE ph == segments[loaded + 1]
  <2>1. /\ loaded < Len(segments) /\ HasMemory(LoadPart(space, ph)) /\ space' = LoadPart(space, ph) /\ loaded' = loaded + 1
    BY <1>7 DEF LoadSegment, HasMemory
  <2>2. PartLoaded(space, LoadPart(space, ph), ph)
    BY <1>1, <2>1, LoadKeeps
  <2>3. segments \in Layouts /\ loaded + 1 \in 1 .. Len(segments) /\ ~Runs(segments, loaded)
    <3>1. segments # <<>>
      BY <1>1, <2>1 DEF InvOf
    <3>2. segments \in Layouts
      BY <1>1, <3>1 DEF InvOf
    <3>3. Len(segments) \in Nat
      BY <3>2, SegmentsLie
    <3>4. QED
      BY <1>2, <2>1, <3>2, <3>3 DEF Runs
  <2>4. SegmentLies(ph)
    BY <2>3, SegmentsLie DEF SegmentLies
  <2>5. FirstTable(space.updir, FALSE)
    BY <1>2, <2>3 DEF FirstTable
  <2>6. Stays(space, space', Area(ph.vaddr, ph.memsz)) /\ FilledAt(space', ph)
    <3> HIDE DEF ph
    <3>1. QED
      BY <1>2, <2>1, <2>2, <2>4, <2>5, PartStays
  <2>7. \A i \in 0 .. ph.memsz - 1 :
          /\ Present(ProgramView', ph.vaddr + i)
          /\ laddr_read(ProgramView', ph.vaddr + i, 1) = IF i < Len(ph.file) THEN ph.file[i + 1] ELSE 0
    BY <1>3, <1>4, <2>6 DEF FilledAt, Filled_
  <2>8. \A l \in Addresses \ Area(ph.vaddr, ph.memsz) : Present(ProgramView, l) =>
          Present(ProgramView', l) /\ laddr_read(ProgramView', l, 1) = laddr_read(ProgramView, l, 1)
    BY <1>5, <2>6
  <2>9. loaded < loaded' /\ loaded < Len(segments)
    BY <1>2, <2>1
  <2> HIDE DEF ph
  <2>10. QED
    BY <2>7, <2>8, <2>9 DEF MappingsKeep, ph
<1>8. ASSUME Stays(space, space', {}), ~(loaded < loaded' /\ loaded < Len(segments)) PROVE MappingsKeep
  BY <1>5, <1>8 DEF MappingsKeep
<1>9. CASE StartProgram
  <2>1. segments # <<>> /\ loaded = Len(segments) /\ space' = Started(space) /\ HasMemory(Started(space))
    BY <1>9 DEF StartProgram, Started, HasMemory
  <2>2. StartsWith(space, space')
    BY <1>1, <2>1, StartKeeps
  <2>3. Stays(space, space', {})
    BY <1>2, <2>2, AddsStays DEF StartsWith
  <2>4. ~(loaded < Len(segments))
    BY <1>2, <2>1
  <2>5. QED
    BY <1>8, <2>3, <2>4
<1>10. CASE sbrk
  <2>1. PICK incr \in Growths :
          /\ Running /\ heap.end + incr <= KOFFSET - STACK_SIZE /\ space' = mm_brk(space, heap.end + incr) /\ HasMemory(space')
          /\ loaded' = loaded
    BY <1>10 DEF sbrk
  <2>2. incr \in Nat /\ incr > 0
    BY PagingAssumption
  <2>3. HasMemory(mm_brk(space, heap.end + incr)) /\ Runs(segments, loaded)
    BY <2>1 DEF HasMemory, Running, Runs
  <2>4. Maps(space, space')
    BY <1>1, <2>1, <2>2, <2>3, BreakKeeps
  <2>5. Stays(space, space', {})
    BY <1>2, <2>4, AddsStays DEF Maps
  <2>6. ~(loaded < loaded')
    BY <1>2, <2>1
  <2>7. QED
    BY <1>8, <2>5, <2>6
<1>11. CASE ReadHeader \/ Access \/ UNCHANGED pageVars
  <2>1. loaded' = loaded /\ heap' = heap
    BY <1>11, Zenon DEF ReadHeader, Access, pageVars
  <2>2. QED
    BY <1>6, <2>1
<1>12. QED
  BY <1>7, <1>9, <1>10, <1>11 DEF PagingStep

(* A program that runs has what it needs.                                  *)
LEMMA ProgramHasSpace ==
  ASSUME Byte = 8, PagingInv
  PROVE  SpaceIsComplete
<1> SUFFICES ASSUME Running
             PROVE  /\ \A k \in 1 .. Len(segments), l \in Addresses :
                         l \in Area(segments[k].vaddr, segments[k].memsz) => Present(View, l)
                    /\ \A i \in 0 .. SCR_SIZE - 1 :
                         /\ Present(View, VMEM_ADDR + i)
                         /\ laddr_read(View, VMEM_ADDR + i, 1) = space.screen[i]
                    /\ \A a \in heap.from .. heap.end - 1 : Present(View, a)
  BY DEF SpaceIsComplete
<1> DEFINE dir == space.updir
<1>1. /\ View.dir = dir /\ View \in PageMachines /\ View.screen = space.screen
      /\ Runs(segments, loaded) /\ FirstTable(dir, TRUE)
  <2>1. /\ View = ViewOf(space, Running) /\ View \in PageMachines /\ View.dir = IF Running THEN dir ELSE init_page
        /\ Running = Runs(segments, loaded) /\ Stands(space)
    BY ViewIs
  <2>2. View.dir = dir /\ Runs(segments, loaded)
    BY <2>1
  <2>3. View.screen = space.screen
    BY <2>1 DEF ViewOf
  <2>4. FirstTable(dir, TRUE)
    BY <2>1 DEF Stands, FirstTable
  <2>5. QED
    BY <2>1, <2>2, <2>3, <2>4
<1>2. /\ segments \in Layouts /\ Parts(space, segments, loaded) /\ Heaped(space, heap) /\ loaded \in Nat
      /\ heap \in [calls : Nat, end : Nat, from : Nat] /\ loaded > Len(segments)
  BY <1>1 DEF PagingInv, InvOf, Runs
<1>3. /\ KOFFSET \in Nat /\ STACK_SIZE \in Nat /\ STACK_SIZE > 0 /\ Page \in Nat /\ PHY_MEM \in Nat /\ KMEM \in Nat /\ VMEM_ADDR \in Nat /\ VideoLen \in Nat
      /\ PT_SIZE \in Int /\ SCR_SIZE \in 1 .. VideoLen /\ VMEM_ADDR + VideoLen <= PHY_MEM /\ NotPresent = -1
      /\ NR_PTE \in Int /\ NR_PTE > 0
  <2>0. STACK_SIZE \in Nat /\ STACK_SIZE > 0
    BY PagingAssumption
  <2>1. /\ KOFFSET \in Nat /\ Page \in Nat /\ PHY_MEM \in Nat /\ KMEM \in Nat /\ VMEM_ADDR \in Nat /\ VideoLen \in Nat
        /\ PT_SIZE \in Int /\ SCR_SIZE \in 1 .. VideoLen /\ VMEM_ADDR + VideoLen <= PT_SIZE /\ KMEM <= PHY_MEM
    BY PagingAssumption, InPagesHolds DEF InPages
  <2>2. /\ Page \in Int /\ Page >= 4 /\ NR_PTE \in Int /\ NR_PTE > 0 /\ KernelPages \in Int /\ NR_PTE <= KernelPages
        /\ PT_SIZE = Page * NR_PTE /\ KMEM = Page * KernelPages
    BY InPagesHolds DEF InPages
  <2>3. PT_SIZE <= KMEM
    BY <2>2, Grows
  <2>4. QED
    BY <2>0, <2>1, <2>2, <2>3 DEF NotPresent
<1>4. \A l \in Nat : Frame(dir, l) = At(dir, PageOf(l)) /\ (Present(View, l) <=> At(dir, PageOf(l)) # NotPresent)
  BY <1>1, PageIs DEF Present
<1>5. ASSUME NEW k \in 1 .. Len(segments), NEW l \in Addresses, l \in Area(segments[k].vaddr, segments[k].memsz)
      PROVE  Present(View, l)
  <2> DEFINE v == segments[k].vaddr
             z == segments[k].memsz
  <2>1. v \in Nat /\ z \in Nat /\ z > 0 /\ v + z <= KOFFSET - STACK_SIZE /\ Len(segments) \in Nat
    BY <1>2, SegmentsLie
  <2>2. Covered(dir, v, z)
    BY <1>2, <2>1 DEF Parts
  <2>3. l \in v .. v + z - 1
    BY <1>5 DEF Area
  <2> HIDE DEF v, z
  <2>4. v + z <= KOFFSET /\ l \in Nat
    BY <1>3, <2>1, <2>3
  <2>5. PageOf(l) \in PageOf(v) .. PageOf(v + z - 1)
    BY <2>1, <2>3, <2>4, UserArea
  <2>6. QED
    BY <1>4, <2>2, <2>4, <2>5 DEF Covered
<1>6. ASSUME NEW i \in 0 .. SCR_SIZE - 1
      PROVE  Present(View, VMEM_ADDR + i) /\ laddr_read(View, VMEM_ADDR + i, 1) = space.screen[i]
  <2> DEFINE a == VMEM_ADDR + i
             n == PageOf(a)
  <2>1. a \in Nat /\ n \in ShownPages /\ n \in 0 .. NR_PTE - 1
    BY ScreenPages
  <2>2. a \in 0 .. PHY_MEM - 1 /\ is_mmio(a) /\ a - VMEM_ADDR = i
    BY <1>3 DEF is_mmio
  <2> HIDE DEF a
  <2>3. At(dir, n) = n
    BY <1>1, <2>1 DEF FirstTable
  <2> DEFINE d == 0
  <2>4. n \in Int /\ n # NotPresent /\ n = n - d /\ d \in Int
    BY <1>3, <2>1
  <2>5. Physical(dir, a) = a - (Page * d)
    BY <2>1, <2>3, <2>4, PhysicalIs
  <2>6. a - (Page * d) = a
    BY <1>3, <2>1
  <2>7. laddr_read(View, a, 1) = Cell(View, a)
    BY <1>1, <2>1, <2>2, <2>3, <2>4, <2>5, <2>6, ReadOne
  <2>8. Present(View, a)
    BY <1>4, <2>1, <2>3, <2>4
  <2>9. QED
    BY <1>1, <2>2, <2>7, <2>8 DEF Cell, a
<1>7. ASSUME NEW a \in heap.from .. heap.end - 1 PROVE Present(View, a)
  <2>1. a \in Nat /\ At(dir, PageOf(a)) # NotPresent
    BY <1>2 DEF Heaped
  <2>2. QED
    BY <1>4, <2>1
<1>8. QED
  BY <1>5, <1>6, <1>7

(* Theorem PagesAreHeld, of vmem.c, kvm.c, mm.c, elf.c, memory.c and       *)
(* page.c: whatever programs are loaded, whatever they ask for with sbrk   *)
(* and store, a read returns byte for byte what was last written, what is  *)
(* mapped stays where it is, and a program that runs has its segments, its *)
(* screen and its heap, for all sizes of pages, tables and areas.          *)
THEOREM PagesAreHeld ==
  ASSUME Byte = 8
  PROVE  PagingSpec => PagesHold
<1>1. PagingInit => PagingInv
  BY PagingStarts
<1>2. PagingInv /\ [PagingStep]_pageVars => PagingInv'
  BY PagingKeeps
<1>3. PagingInv => SpaceIsComplete
  BY ProgramHasSpace
<1>4. PagingInv /\ [PagingStep]_pageVars => ReadsSeeWrites /\ MappingsKeep
  BY ReadsSeeStores, MappingsStay
<1>5. PagingInv' => SpaceIsComplete'
  BY <1>3, PTL
<1>6. PagingInv /\ [PagingStep]_pageVars => [ReadsSeeWrites /\ MappingsKeep /\ SpaceIsComplete']_pageVars
  BY <1>2, <1>4, <1>5
<1>7. QED
  BY <1>1, <1>2, <1>6, PTL DEF PagingSpec, PagesHold
-----------------------------------------------------------------------------
(* The data cache: caches, and memory by address.                          *)
Caches == [Groups -> [Ways -> CacheLine]]
Contents == [Addrs -> Uint8]

(* What every intermediate cache of an access satisfies, with the memory   *)
(* as it then is.                                                          *)
Agrees(c, m) ==
  \A g \in Groups, w \in Ways :
    c[g][w].valid =>
      /\ <<c[g][w].mark, g>> \in Lines
      /\ \A o \in Offs : c[g][w].data[o] = m[<<<<c[g][w].mark, g>>, o>>]

HeldOnce(c) ==
  \A g \in Groups, v, w \in Ways :
    c[g][v].valid /\ c[g][w].valid /\ c[g][v].mark = c[g][w].mark => v = w

Good(c, m) == c \in Caches /\ Agrees(c, m) /\ HeldOnce(c)

IInv ==
  /\ hw_mem \in Contents
  /\ Good(cache, hw_mem)
  /\ ret = <<>> \/ \E len \in Lens : ret \in [0 .. len - 1 -> Uint8]
-----------------------------------------------------------------------------
(* What the constants make of lines, accesses and ways.                     *)
LEMMA Shape ==
  /\ LineSize \in Nat /\ LineSize > 0
  /\ \A l \in Lines : l[1] \in Nat /\ l[2] \in Groups /\ l = <<l[1], l[2]>>
  /\ \A len \in Lens : len \in Nat /\ len > 0 /\ len <= LineSize
  /\ Ways \subseteq Nat /\ Ways # {} /\ 0 \in Uint8
<1>1. LineSize \in Nat /\ LineSize > 0 /\ 0 \in Uint8
  BY CacheAssumption
<1>2. \A l \in Lines : l[1] \in Nat /\ l[2] \in Groups /\ l = <<l[1], l[2]>>
  <2>1. \A l \in Nat \X Groups : l[1] \in Nat /\ l[2] \in Groups /\ l = <<l[1], l[2]>>
    OBVIOUS
  <2> QED
    BY <2>1, CacheAssumption
<1>3. \A len \in Lens : len \in Nat /\ len > 0 /\ len <= LineSize
  <2>1. \A len \in 1 .. LineSize : len \in Nat /\ len > 0 /\ len <= LineSize
    BY <1>1
  <2> QED
    BY <2>1, CacheAssumption
<1>4. NR_WAYS \in Nat /\ NR_WAYS > 0
  BY CacheAssumption
<1>5. Ways \subseteq Nat /\ 0 \in Ways
  BY <1>4 DEF Ways
<1> QED
  BY <1>1, <1>2, <1>3, <1>5

(* An access across a line touches two different lines.                     *)
LEMMA NextLineDiffers == ASSUME NEW l \in Lines PROVE NextLine(l) # l
<1>1. l[1] \in Nat /\ l[2] \in Nat
  BY Shape, CacheAssumption DEF Groups
<1>2. l[1] + 1 # l[1] /\ l[2] + 1 # l[2]
  BY <1>1
<1>3. NextLine(l)[1] # l[1] \/ NextLine(l)[2] # l[2]
  BY <1>2 DEF NextLine
<1> QED
  BY <1>3

(* The first way of a set of ways is one of them.                          *)
LEMMA LeastIsIn == ASSUME NEW A \in SUBSET Ways, A # {} PROVE Least(A) \in A
<1> DEFINE R == OpToRel(<, Nat)
<1>1. IsWellFoundedOn(R, Nat)
  BY NatLessThanWellFounded, Zenon
<1>2. \A v, w \in Nat : v < w => <<v, w>> \in R
  BY DEF OpToRel
<1> HIDE DEF R
<1>3. A \subseteq Nat
  BY Shape
<1>4. PICK w \in A : \A v \in A : ~(<<v, w>> \in R)
  BY <1>1, <1>3, WFMin
<1>5. ASSUME NEW v \in A PROVE w <= v
  <2>1. v \in Nat /\ w \in Nat
    BY <1>3
  <2>2. ~(v < w)
    BY <1>2, <1>4, <2>1, Zenon
  <2> QED
    BY <2>1, <2>2
<1> QED
  BY <1>5 DEF Least

(* The way that a search finds is valid and holds the line.                 *)
LEMMA LeastHit ==
  ASSUME NEW c, NEW l, Hits(c, l) # {}
  PROVE  /\ Least(Hits(c, l)) \in Ways
         /\ c[l[2]][Least(Hits(c, l))].valid
         /\ c[l[2]][Least(Hits(c, l))].mark = l[1]
<1>1. Hits(c, l) \in SUBSET Ways
  BY DEF Hits
<1>2. Least(Hits(c, l)) \in Hits(c, l)
  BY <1>1, LeastIsIn
<1> QED
  BY <1>2, Zenon DEF Hits

(* The way that a miss fills is one of the group.                           *)
LEMMA VictimIsWay ==
  ASSUME NEW c, NEW g, NEW w \in Victims(c, g) PROVE w \in Ways
<1> DEFINE invalid == {v \in Ways : ~c[g][v].valid}
<1>1. CASE invalid = {}
  BY <1>1 DEF Victims
<1>2. CASE invalid # {}
  BY <1>2, LeastIsIn DEF Victims
<1> QED
  BY <1>1, <1>2
-----------------------------------------------------------------------------
(* A line that was missed is fetched: the cache stays good, and holds it.  *)
LEMMA FillIsGood ==
  ASSUME NEW c, hw_mem \in Contents, Good(c, hw_mem), NEW l \in Lines,
         Hits(c, l) = {}, NEW w \in Ways
  PROVE  Good(Fill(c, l, w), hw_mem) /\ Hits(Fill(c, l, w), l) # {}
<1> DEFINE line == [valid |-> TRUE, mark |-> l[1], data |-> [o \in Offs |-> hw_mem[<<l, o>>]]]
           f == Fill(c, l, w)
<1>0. l[1] \in Nat /\ l[2] \in Groups /\ l = <<l[1], l[2]>>
  BY Shape
<1>1. c \in Caches /\ Agrees(c, hw_mem) /\ HeldOnce(c)
  BY DEF Good
<1>2. line \in CacheLine
  BY <1>0 DEF CacheLine, Contents, Addrs
<1>3. f = [c EXCEPT ![l[2]][w] = line]
  BY DEF Fill
<1> HIDE DEF line
<1>4. f \in Caches
  BY <1>0, <1>1, <1>2, <1>3 DEF Caches
<1>5. f[l[2]][w] = line
  BY <1>0, <1>1, <1>3 DEF Caches
<1>6. \A g \in Groups, v \in Ways : <<g, v>> # <<l[2], w>> => f[g][v] = c[g][v]
  BY <1>0, <1>1, <1>3 DEF Caches
<1> HIDE DEF f
<1>7. line.valid /\ line.mark = l[1] /\ \A o \in Offs : line.data[o] = hw_mem[<<l, o>>]
  BY DEF line
<1>8. Agrees(f, hw_mem)
  <2> SUFFICES ASSUME NEW g \in Groups, NEW v \in Ways, f[g][v].valid
               PROVE  /\ <<f[g][v].mark, g>> \in Lines
                      /\ \A o \in Offs : f[g][v].data[o] = hw_mem[<<<<f[g][v].mark, g>>, o>>]
    BY DEF Agrees
  <2>1. CASE <<g, v>> = <<l[2], w>>
    <3>1. f[g][v] = line /\ g = l[2]
      BY <2>1, <1>5
    <3>2. <<f[g][v].mark, g>> = l
      BY <3>1, <1>7, <1>0
    <3> QED
      BY <3>1, <3>2, <1>7
  <2>2. CASE <<g, v>> # <<l[2], w>>
    <3>1. f[g][v] = c[g][v]
      BY <2>2, <1>6
    <3> QED
      BY <3>1, <1>1 DEF Agrees
  <2> QED
    BY <2>1, <2>2
<1>9. HeldOnce(f)
  <2> SUFFICES ASSUME NEW g \in Groups, NEW u \in Ways, NEW v \in Ways,
                      f[g][u].valid, f[g][v].valid, f[g][u].mark = f[g][v].mark
               PROVE  u = v
    BY DEF HeldOnce
  <2>0. \A x \in Ways : ~(c[l[2]][x].valid /\ c[l[2]][x].mark = l[1])
    BY DEF Hits
  <2>1. CASE g # l[2]
    <3>1. f[g][u] = c[g][u] /\ f[g][v] = c[g][v]
      BY <2>1, <1>6
    <3> QED
      BY <3>1, <1>1 DEF HeldOnce
  <2>2. CASE g = l[2] /\ u = w /\ v # w
    <3>1. f[g][u].mark = l[1] /\ f[g][v] = c[g][v]
      BY <2>2, <1>5, <1>6, <1>7
    <3> QED
      BY <3>1, <2>0, <2>2
  <2>3. CASE g = l[2] /\ u # w /\ v = w
    <3>1. f[g][v].mark = l[1] /\ f[g][u] = c[g][u]
      BY <2>3, <1>5, <1>6, <1>7
    <3> QED
      BY <3>1, <2>0, <2>3
  <2>4. CASE g = l[2] /\ u # w /\ v # w
    <3>1. f[g][u] = c[g][u] /\ f[g][v] = c[g][v]
      BY <2>4, <1>6
    <3> QED
      BY <3>1, <1>1 DEF HeldOnce
  <2> QED
    BY <2>1, <2>2, <2>3, <2>4
<1>10. Hits(f, l) # {}
  BY <1>5, <1>7 DEF Hits
<1> QED
  BY <1>4, <1>8, <1>9, <1>10 DEF Good, f

(* A lookup keeps every copy equal, and finds the line afterwards.          *)
LEMMA LookUpIsGood ==
  ASSUME NEW c, hw_mem \in Contents, Good(c, hw_mem), NEW l \in Lines, NEW d \in LookUp(c, l)
  PROVE  Good(d, hw_mem) /\ Hits(d, l) # {}
<1>1. CASE Hits(c, l) # {}
  BY <1>1 DEF LookUp
<1>2. CASE Hits(c, l) = {}
  <2>1. PICK w \in Victims(c, l[2]) : d = Fill(c, l, w)
    BY <1>2 DEF LookUp
  <2>2. w \in Ways
    BY VictimIsWay
  <2> QED
    BY <2>1, <2>2, <1>2, FillIsGood
<1> QED
  BY <1>1, <1>2

(* The data of a line that was found are the bytes of memory.              *)
LEMMA DataOfLine ==
  ASSUME NEW c, NEW m, Good(c, m), NEW l \in Lines, Hits(c, l) # {}, NEW o \in Offs
  PROVE  DataOf(c, l)[o] = m[<<l, o>>]
<1> DEFINE w == Least(Hits(c, l))
<1>1. w \in Ways /\ c[l[2]][w].valid /\ c[l[2]][w].mark = l[1]
  BY LeastHit
<1>2. l[2] \in Groups /\ <<c[l[2]][w].mark, l[2]>> = l
  BY <1>1, Shape
<1> QED
  BY <1>1, <1>2 DEF Good, Agrees, DataOf
-----------------------------------------------------------------------------
(* One piece of a write, inside one line.                                  *)
Piece(o, n, d, k) ==
  /\ o \in Offs /\ n \in Nat /\ k \in Nat /\ o + n <= LineSize
  /\ \A j \in Nat : j < n => d[j + k] \in Uint8

(* The bytes of an access are bytes.                                        *)
LEMMA PieceByte ==
  ASSUME NEW o, NEW n, NEW d, NEW k, Piece(o, n, d, k), NEW x \in Offs, o <= x, x < o + n
  PROVE  d[x - o + k] \in Uint8
<1>1. x - o \in Nat /\ x - o < n
  BY Shape DEF Piece, Offs
<1> QED
  BY <1>1 DEF Piece

(* A write leaves memory a memory.                                          *)
LEMMA WriteIsTyped ==
  ASSUME NEW m \in Contents, NEW l \in Lines, NEW o, NEW n, NEW d, NEW k, Piece(o, n, d, k)
  PROVE  hw_mem_write(m, l, o, n, d, k) \in Contents
<1> SUFFICES ASSUME NEW a \in Addrs
             PROVE  (IF a[1] = l /\ o <= a[2] /\ a[2] < o + n THEN d[a[2] - o + k] ELSE m[a]) \in Uint8
  BY DEF hw_mem_write, Contents
<1>1. a[2] \in Offs
  BY DEF Addrs
<1> QED
  BY <1>1, PieceByte DEF Contents

(* A write of the memory and of the copy found keeps all copies equal.      *)
LEMMA WriteIsGood ==
  ASSUME NEW c, NEW m \in Contents, Good(c, m), NEW l \in Lines,
         NEW o, NEW n, NEW d, NEW k, Piece(o, n, d, k)
  PROVE  Good(WriteCache(c, l, o, n, d, k), hw_mem_write(m, l, o, n, d, k))
<1> DEFINE e == WriteCache(c, l, o, n, d, k)
           m2 == hw_mem_write(m, l, o, n, d, k)
           w == Least(Hits(c, l))
           New(x) == IF o <= x /\ x < o + n THEN d[x - o + k] ELSE c[l[2]][w].data[x]
<1>0. l[1] \in Nat /\ l[2] \in Groups /\ l = <<l[1], l[2]>>
  BY Shape
<1>1. c \in Caches /\ Agrees(c, m) /\ HeldOnce(c)
  BY DEF Good
<1>2. \A x \in Offs : m2[<<l, x>>] = IF o <= x /\ x < o + n THEN d[x - o + k] ELSE m[<<l, x>>]
  BY DEF hw_mem_write, Addrs
<1>3. \A h \in Lines, x \in Offs : h # l => m2[<<h, x>>] = m[<<h, x>>]
  BY DEF hw_mem_write, Addrs
<1>4. CASE Hits(c, l) = {}
  <2>1. e = c
    BY <1>4 DEF WriteCache
  <2>2. \A g \in Groups, v \in Ways : c[g][v].valid => <<c[g][v].mark, g>> # l
    BY <1>4, <1>0 DEF Hits
  <2> HIDE DEF m2
  <2>3. Agrees(c, m2)
    BY <2>2, <1>1, <1>3 DEF Agrees
  <2> QED
    BY <2>1, <2>3, <1>1 DEF Good, m2
<1>5. CASE Hits(c, l) # {}
  <2>0. w \in Ways /\ c[l[2]][w].valid /\ c[l[2]][w].mark = l[1]
    BY <1>5, LeastHit
  <2>1. e = [c EXCEPT ![l[2]][w] = [@ EXCEPT !.data = [x \in Offs |-> New(x)]]]
    BY <1>5, <1>0, <1>1, <2>0 DEF WriteCache, Caches
  <2> HIDE DEF w
  <2>2. c[l[2]][w] \in CacheLine
    BY <2>0, <1>0, <1>1 DEF Caches
  <2>3. \A x \in Offs : New(x) \in Uint8
    BY <2>2, PieceByte DEF CacheLine
  <2> HIDE DEF New
  <2> DEFINE line == [c[l[2]][w] EXCEPT !.data = [x \in Offs |-> New(x)]]
  <2>4. /\ line \in CacheLine
        /\ line.valid = c[l[2]][w].valid /\ line.mark = l[1]
        /\ \A x \in Offs : line.data[x] = New(x)
    BY <2>0, <2>2, <2>3 DEF CacheLine
  <2>5. e = [c EXCEPT ![l[2]][w] = line]
    BY <2>1, <2>0, <1>0, <1>1 DEF Caches
  <2> HIDE DEF line, e, m2
  <2>6. e \in Caches
    BY <2>0, <2>4, <2>5, <1>0, <1>1 DEF Caches
  <2>7. e[l[2]][w] = line
    BY <2>0, <2>5, <1>0, <1>1 DEF Caches
  <2>8. \A g \in Groups, v \in Ways : <<g, v>> # <<l[2], w>> => e[g][v] = c[g][v]
    BY <2>0, <2>5, <1>0, <1>1 DEF Caches
  <2>9. \A g \in Groups, v \in Ways : e[g][v].valid = c[g][v].valid /\ e[g][v].mark = c[g][v].mark
    <3> SUFFICES ASSUME NEW g \in Groups, NEW v \in Ways
                 PROVE  e[g][v].valid = c[g][v].valid /\ e[g][v].mark = c[g][v].mark
      OBVIOUS
    <3>1. CASE <<g, v>> = <<l[2], w>>
      <4>1. g = l[2] /\ v = w
        BY <3>1
      <4> QED
        BY <4>1, <2>0, <2>4, <2>7
    <3>2. CASE <<g, v>> # <<l[2], w>>
      BY <3>2, <2>8
    <3> QED
      BY <3>1, <3>2
  <2>10. HeldOnce(e)
    BY <2>9, <1>1 DEF HeldOnce
  <2>11. Agrees(e, m2)
    <3> SUFFICES ASSUME NEW g \in Groups, NEW v \in Ways, e[g][v].valid
                 PROVE  /\ <<e[g][v].mark, g>> \in Lines
                        /\ \A x \in Offs : e[g][v].data[x] = m2[<<<<e[g][v].mark, g>>, x>>]
      BY DEF Agrees
    <3>1. /\ c[g][v].valid /\ e[g][v].mark = c[g][v].mark
          /\ <<c[g][v].mark, g>> \in Lines
          /\ \A x \in Offs : c[g][v].data[x] = m[<<<<c[g][v].mark, g>>, x>>]
      BY <2>9, <1>1 DEF Agrees
    <3>2. CASE <<g, v>> = <<l[2], w>>
      <4>1. g = l[2] /\ v = w
        BY <3>2
      <4>2. e[g][v] = line /\ <<c[g][v].mark, g>> = l
        BY <4>1, <2>0, <2>7, <1>0
      <4>3. \A x \in Offs : New(x) = m2[<<l, x>>]
        BY <4>1, <4>2, <3>1, <1>2 DEF New
      <4> QED
        BY <4>2, <4>3, <3>1, <2>4
    <3>3. CASE <<g, v>> # <<l[2], w>>
      <4>1. e[g][v] = c[g][v]
        BY <3>3, <2>8
      <4>2. <<c[g][v].mark, g>> # l
        <5> SUFFICES ASSUME <<c[g][v].mark, g>> = l PROVE FALSE
          OBVIOUS
        <5>1. g = l[2] /\ c[g][v].mark = l[1]
          BY <1>0
        <5> QED
          BY <5>1, <3>1, <3>3, <2>0, <1>1 DEF HeldOnce
      <4> QED
        BY <4>1, <4>2, <3>1, <1>3
    <3> QED
      BY <3>2, <3>3
  <2> QED
    BY <2>6, <2>10, <2>11 DEF Good, e, m2
<1> QED
  BY <1>4, <1>5
-----------------------------------------------------------------------------
(* The empty cache agrees with any memory.                                  *)
THEOREM InitInv == Init => IInv
<1> SUFFICES ASSUME Init PROVE IInv
  OBVIOUS
<1>1. hw_mem \in Contents /\ ret = <<>>
  BY DEF Init, Contents
<1>2. cache \in Caches /\ \A g \in Groups, w \in Ways : ~cache[g][w].valid
  BY Shape DEF Init, Caches, CacheLine
<1> QED
  BY <1>1, <1>2 DEF IInv, Good, Agrees, HeldOnce

(* What one step does, for the invariant and for the refinement: a read    *)
(* returns the bytes of memory, a write puts its bytes where they belong.  *)
(* The next-state relation is split by kind of access.                     *)
LEMMA ReadInLineStep ==
  ASSUME IInv, NEW l \in Lines, NEW o \in Offs, NEW len \in Lens, ReadInLine(l, o, len)
  PROVE  /\ Good(cache', hw_mem) /\ hw_mem' = hw_mem
         /\ \A i \in 0 .. len - 1 : Slot(<<l, o>>, i) \in Addrs
         /\ ret' = [i \in 0 .. len - 1 |-> hw_mem[Slot(<<l, o>>, i)]]
<1>0. len \in Nat /\ LineSize \in Nat /\ o \in Nat
  BY Shape DEF Offs
<1>1. PICK c \in LookUp(cache, l) :
        cache' = c /\ ret' = [i \in 0 .. len - 1 |-> DataOf(c, l)[o + i]]
  BY DEF ReadInLine
<1>2. Good(c, hw_mem) /\ Hits(c, l) # {}
  BY LookUpIsGood DEF IInv
<1>3. ASSUME NEW i \in 0 .. len - 1
      PROVE  /\ Slot(<<l, o>>, i) = <<l, o + i>>
             /\ Slot(<<l, o>>, i) \in Addrs
             /\ DataOf(c, l)[o + i] = hw_mem[Slot(<<l, o>>, i)]
  <2>1. o + i < LineSize /\ o + i \in Offs
    BY <1>0 DEF ReadInLine, Offs
  <2>2. Slot(<<l, o>>, i) = <<l, o + i>>
    BY <2>1 DEF Slot
  <2> QED
    BY <2>1, <2>2, <1>2, DataOfLine DEF Addrs
<1> QED
  BY <1>1, <1>2, <1>3 DEF ReadInLine

(* A read of two lines answers with the bytes of memory.                    *)
LEMMA ReadAcrossStep ==
  ASSUME IInv, NEW l \in Lines, NEW o \in Offs, NEW len \in Lens, ReadAcross(l, o, len)
  PROVE  /\ Good(cache', hw_mem) /\ hw_mem' = hw_mem
         /\ \A i \in 0 .. len - 1 : Slot(<<l, o>>, i) \in Addrs
         /\ ret' = [i \in 0 .. len - 1 |-> hw_mem[Slot(<<l, o>>, i)]]
<1>0. /\ len \in Nat /\ LineSize \in Nat /\ o \in Nat /\ o < LineSize /\ len <= LineSize
      /\ NextLine(l) \in Lines
  BY Shape DEF Offs, ReadAcross
<1>1. PICK c \in LookUp(cache, l) : \E cH \in LookUp(c, NextLine(l)) :
        /\ cache' = cH
        /\ ret' = [i \in 0 .. len - 1 |->
                     IF o + i < LineSize THEN DataOf(c, l)[o + i]
                     ELSE DataOf(cH, NextLine(l))[o + i - LineSize]]
  BY DEF ReadAcross
<1>2. PICK cH \in LookUp(c, NextLine(l)) :
        /\ cache' = cH
        /\ ret' = [i \in 0 .. len - 1 |->
                     IF o + i < LineSize THEN DataOf(c, l)[o + i]
                     ELSE DataOf(cH, NextLine(l))[o + i - LineSize]]
  BY <1>1
<1>3. Good(c, hw_mem) /\ Hits(c, l) # {}
  BY LookUpIsGood DEF IInv
<1>4. Good(cH, hw_mem) /\ Hits(cH, NextLine(l)) # {}
  BY <1>0, <1>3, LookUpIsGood DEF IInv
<1>5. ASSUME NEW i \in 0 .. len - 1
      PROVE  /\ Slot(<<l, o>>, i) \in Addrs
             /\ (IF o + i < LineSize THEN DataOf(c, l)[o + i]
                 ELSE DataOf(cH, NextLine(l))[o + i - LineSize]) = hw_mem[Slot(<<l, o>>, i)]
  <2>1. CASE o + i < LineSize
    <3>1. o + i \in Offs
      BY <1>0, <2>1 DEF Offs
    <3>2. Slot(<<l, o>>, i) = <<l, o + i>>
      BY <2>1 DEF Slot
    <3> QED
      BY <2>1, <3>1, <3>2, <1>3, DataOfLine DEF Addrs
  <2>2. CASE ~(o + i < LineSize)
    <3>1. o + i - LineSize \in Offs
      BY <1>0, <2>2 DEF Offs
    <3>2. Slot(<<l, o>>, i) = <<NextLine(l), o + i - LineSize>>
      BY <2>2 DEF Slot
    <3>3. DataOf(cH, NextLine(l))[o + i - LineSize] = hw_mem[<<NextLine(l), o + i - LineSize>>]
      BY <3>1, <1>0, <1>4, DataOfLine
    <3> QED
      BY <2>2, <3>1, <3>2, <3>3, <1>0 DEF Addrs
  <2> QED
    BY <2>1, <2>2
<1> QED
  BY <1>2, <1>4, <1>5 DEF ReadAcross

(* The memory after one piece, byte by byte.                               *)
LEMMA WriteBytes ==
  ASSUME NEW m, NEW l, NEW o, NEW n, NEW d, NEW k, NEW a \in Addrs
  PROVE  hw_mem_write(m, l, o, n, d, k)[a] =
           IF a[1] = l /\ o <= a[2] /\ a[2] < o + n THEN d[a[2] - o + k] ELSE m[a]
BY DEF hw_mem_write

(* A write within a line changes its bytes and no others.                   *)
LEMMA WriteInLineStep ==
  ASSUME IInv, NEW l \in Lines, NEW o \in Offs, NEW len \in Lens,
         NEW d \in [0 .. len - 1 -> Uint8], WriteInLine(l, o, len, d)
  PROVE  /\ Good(cache', hw_mem') /\ hw_mem' \in Contents /\ ret' = ret
         /\ \A i \in 0 .. len - 1 : Slot(<<l, o>>, i) \in Addrs
         /\ \A i \in 0 .. len - 1 : hw_mem'[Slot(<<l, o>>, i)] = d[i]
         /\ \A x \in Addrs :
              (\A i \in 0 .. len - 1 : Slot(<<l, o>>, i) # x) => hw_mem'[x] = hw_mem[x]
<1>0. /\ len \in Nat /\ LineSize \in Nat /\ o \in Nat
      /\ o + len <= LineSize /\ ret' = ret
      /\ cache' = WriteCache(cache, l, o, len, d, 0)
      /\ hw_mem' = hw_mem_write(hw_mem, l, o, len, d, 0)
  BY Shape DEF Offs, WriteInLine
<1>1. Piece(o, len, d, 0)
  <2>1. \A j \in Nat : j < len => j + 0 = j /\ j \in 0 .. len - 1
    BY <1>0
  <2> QED
    BY <2>1, <1>0 DEF Piece
<1>2. Good(cache', hw_mem') /\ hw_mem' \in Contents
  BY <1>0, <1>1, WriteIsGood, WriteIsTyped DEF IInv
<1>3. ASSUME NEW i \in 0 .. len - 1
      PROVE  /\ Slot(<<l, o>>, i) = <<l, o + i>>
             /\ Slot(<<l, o>>, i) \in Addrs
             /\ hw_mem'[Slot(<<l, o>>, i)] = d[i]
  <2>1. o + i < LineSize /\ o + i \in Offs /\ o <= o + i /\ o + i < o + len /\ o + i - o + 0 = i
    BY <1>0 DEF Offs
  <2>2. Slot(<<l, o>>, i) = <<l, o + i>>
    BY <2>1 DEF Slot
  <2>3. <<l, o + i>> \in Addrs
    BY <2>1 DEF Addrs
  <2>4. hw_mem'[<<l, o + i>>] = d[i]
    <3> DEFINE a == <<l, o + i>>
    <3>1. a \in Addrs /\ a[1] = l /\ o <= a[2] /\ a[2] < o + len /\ a[2] - o + 0 = i
      BY <2>1, <2>3, <1>0
    <3> HIDE DEF a
    <3>2. hw_mem'[a] = d[i]
      BY <3>1, <1>0, WriteBytes
    <3> QED
      BY <3>2 DEF a
  <2> QED
    BY <2>1, <2>2, <2>3, <2>4
<1>4. ASSUME NEW x \in Addrs, \A i \in 0 .. len - 1 : Slot(<<l, o>>, i) # x
      PROVE  hw_mem'[x] = hw_mem[x]
  <2>1. x[2] \in Nat /\ x = <<x[1], x[2]>>
    BY DEF Addrs, Offs
  <2>2. ~(x[1] = l /\ o <= x[2] /\ x[2] < o + len)
    <3> SUFFICES ASSUME x[1] = l, o <= x[2], x[2] < o + len PROVE FALSE
      OBVIOUS
    <3>1. x[2] - o \in 0 .. len - 1 /\ o + (x[2] - o) = x[2]
      BY <1>0, <2>1
    <3>2. Slot(<<l, o>>, x[2] - o) = x
      BY <3>1, <1>3, <2>1
    <3> QED
      BY <3>1, <3>2, <1>4
  <2> QED
    BY <2>2, <1>0, WriteBytes
<1> QED
  BY <1>0, <1>2, <1>3, <1>4

(* The same of a write that goes on into the next line.                     *)
LEMMA WriteAcrossStep ==
  ASSUME IInv, NEW l \in Lines, NEW o \in Offs, NEW len \in Lens,
         NEW d \in [0 .. len - 1 -> Uint8], WriteAcross(l, o, len, d)
  PROVE  /\ Good(cache', hw_mem') /\ hw_mem' \in Contents /\ ret' = ret
         /\ \A i \in 0 .. len - 1 : Slot(<<l, o>>, i) \in Addrs
         /\ \A i \in 0 .. len - 1 : hw_mem'[Slot(<<l, o>>, i)] = d[i]
         /\ \A x \in Addrs :
              (\A i \in 0 .. len - 1 : Slot(<<l, o>>, i) # x) => hw_mem'[x] = hw_mem[x]
<1> DEFINE lenL == LineSize - o
           lenH == o + len - LineSize
           next == NextLine(l)
           low == hw_mem_write(hw_mem, l, o, lenL, d, 0)
           lowCache == WriteCache(cache, l, o, lenL, d, 0)
<1>0. /\ len \in Nat /\ LineSize \in Nat /\ o \in Nat
      /\ o < LineSize /\ len <= LineSize /\ o + len > LineSize
      /\ next \in Lines /\ next # l /\ ret' = ret
      /\ cache' = WriteCache(lowCache, next, 0, lenH, d, lenL)
      /\ hw_mem' = hw_mem_write(low, next, 0, lenH, d, lenL)
  BY Shape, NextLineDiffers DEF Offs, WriteAcross
<1>1. Piece(o, lenL, d, 0)
  <2>1. lenL \in Nat /\ o + lenL <= LineSize /\ \A j \in Nat : j < lenL => j + 0 = j /\ j \in 0 .. len - 1
    BY <1>0
  <2> QED
    BY <2>1, <1>0 DEF Piece
<1>2. Piece(0, lenH, d, lenL)
  <2>1. /\ lenL \in Nat /\ lenH \in Nat /\ 0 + lenH <= LineSize /\ 0 \in Offs
        /\ \A j \in Nat : j < lenH => j + lenL \in 0 .. len - 1
    BY <1>0 DEF Offs
  <2> QED
    BY <2>1 DEF Piece
<1>3. Good(lowCache, low) /\ low \in Contents
  BY <1>1, WriteIsGood, WriteIsTyped DEF IInv
<1>4. Good(cache', hw_mem') /\ hw_mem' \in Contents
  BY <1>0, <1>2, <1>3, WriteIsGood, WriteIsTyped
<1>5. ASSUME NEW i \in 0 .. len - 1
      PROVE  /\ Slot(<<l, o>>, i) = IF o + i < LineSize THEN <<l, o + i>> ELSE <<next, o + i - LineSize>>
             /\ Slot(<<l, o>>, i) \in Addrs
             /\ hw_mem'[Slot(<<l, o>>, i)] = d[i]
  <2>0. Slot(<<l, o>>, i) = IF o + i < LineSize THEN <<l, o + i>> ELSE <<next, o + i - LineSize>>
    BY DEF Slot
  <2>1. CASE o + i < LineSize
    <3>1. o + i \in Offs /\ o <= o + i /\ o + i < o + lenL /\ o + i - o + 0 = i
      BY <1>0, <2>1 DEF Offs
    <3>2. <<l, o + i>> \in Addrs
      BY <3>1 DEF Addrs
    <3>3. low[<<l, o + i>>] = d[i]
      <4> DEFINE a == <<l, o + i>>
      <4>1. a \in Addrs /\ a[1] = l /\ o <= a[2] /\ a[2] < o + lenL /\ a[2] - o + 0 = i
        BY <3>1, <3>2, <1>0
      <4> HIDE DEF a
      <4>2. low[a] = d[i]
        BY <4>1, <1>0, WriteBytes
      <4> QED
        BY <4>2 DEF a
    <3>4. hw_mem'[<<l, o + i>>] = low[<<l, o + i>>]
      BY <3>2, <1>0, WriteBytes
    <3> QED
      BY <2>0, <2>1, <3>2, <3>3, <3>4
  <2>2. CASE ~(o + i < LineSize)
    <3> DEFINE j == o + i - LineSize
    <3>1. j \in Offs /\ 0 <= j /\ j < 0 + lenH /\ j - 0 + lenL = i
      BY <1>0, <2>2 DEF Offs
    <3>2. <<next, j>> \in Addrs
      BY <3>1, <1>0 DEF Addrs
    <3>3. hw_mem'[<<next, j>>] = d[i]
      BY <3>1, <3>2, <1>0, WriteBytes
    <3> QED
      BY <2>0, <2>2, <3>2, <3>3
  <2> QED
    BY <2>1, <2>2
<1>6. ASSUME NEW x \in Addrs, \A i \in 0 .. len - 1 : Slot(<<l, o>>, i) # x
      PROVE  hw_mem'[x] = hw_mem[x]
  <2>1. x[2] \in Nat /\ x[2] < LineSize /\ x = <<x[1], x[2]>>
    BY Shape DEF Addrs, Offs
  <2>2. ~(x[1] = l /\ o <= x[2] /\ x[2] < o + lenL)
    <3> SUFFICES ASSUME x[1] = l, o <= x[2] PROVE FALSE
      OBVIOUS
    <3>1. x[2] - o \in 0 .. len - 1 /\ o + (x[2] - o) = x[2]
      BY <1>0, <2>1
    <3>2. Slot(<<l, o>>, x[2] - o) = x
      BY <3>1, <1>5, <2>1
    <3> QED
      BY <3>1, <3>2, <1>6
  <2>3. ~(x[1] = next /\ 0 <= x[2] /\ x[2] < 0 + lenH)
    <3> SUFFICES ASSUME x[1] = next, x[2] < 0 + lenH PROVE FALSE
      OBVIOUS
    <3> DEFINE i == x[2] + LineSize - o
    <3>1. i \in 0 .. len - 1 /\ ~(o + i < LineSize) /\ o + i - LineSize = x[2]
      BY <1>0, <2>1
    <3>2. Slot(<<l, o>>, i) = x
      BY <3>1, <1>5, <2>1
    <3> QED
      BY <3>1, <3>2, <1>6
  <2>4. low[x] = hw_mem[x]
    BY <2>2, WriteBytes
  <2>5. hw_mem'[x] = low[x]
    BY <2>3, <1>0, WriteBytes
  <2> QED
    BY <2>4, <2>5
<1> QED
  BY <1>0, <1>4, <1>5, <1>6
-----------------------------------------------------------------------------
(* A read returns bytes.                                                   *)
LEMMA ReadIsTyped ==
  ASSUME hw_mem \in Contents, NEW a, NEW len \in Lens,
         \A i \in 0 .. len - 1 : Slot(a, i) \in Addrs,
         ret' = [i \in 0 .. len - 1 |-> hw_mem[Slot(a, i)]]
  PROVE  \E n \in Lens : ret' \in [0 .. n - 1 -> Uint8]
<1>1. ret' \in [0 .. len - 1 -> Uint8]
  BY DEF Contents
<1> QED
  BY <1>1

(* Every access keeps the invariant.                                        *)
LEMMA StepInv == IInv /\ [Next]_vars => IInv'
<1> SUFFICES ASSUME IInv, [Next]_vars PROVE IInv'
  OBVIOUS
<1>1. CASE UNCHANGED vars
  BY <1>1 DEF vars, IInv, Good, Agrees, HeldOnce
<1>2. CASE Next
  <2>1. PICK l \in Lines, o \in Offs, len \in Lens :
          \/ ReadInLine(l, o, len)
          \/ ReadAcross(l, o, len)
          \/ \E d \in [0 .. len - 1 -> Uint8] :
               WriteInLine(l, o, len, d) \/ WriteAcross(l, o, len, d)
    BY <1>2 DEF Next
  <2>2. CASE ReadInLine(l, o, len)
    BY <2>2, ReadInLineStep, ReadIsTyped DEF IInv
  <2>3. CASE ReadAcross(l, o, len)
    BY <2>3, ReadAcrossStep, ReadIsTyped DEF IInv
  <2>4. ASSUME NEW d \in [0 .. len - 1 -> Uint8], WriteInLine(l, o, len, d) PROVE IInv'
    BY <2>4, WriteInLineStep DEF IInv
  <2>5. ASSUME NEW d \in [0 .. len - 1 -> Uint8], WriteAcross(l, o, len, d) PROVE IInv'
    BY <2>5, WriteAcrossStep DEF IInv
  <2> QED
    BY <2>1, <2>2, <2>3, <2>4, <2>5
<1> QED
  BY <1>1, <1>2

(* The inductive invariant holds for ever.                                 *)
THEOREM Invariance == Spec => []IInv
BY InitInv, StepInv, PTL DEF Spec

(* Memory, cache and result keep their types (the arrays of cache.c).      *)
THEOREM TypeCorrect == Spec => []TypeOK
<1>1. IInv => TypeOK
  BY DEF IInv, Good, Contents, Caches, TypeOK
<1> QED
  BY <1>1, Invariance, PTL

(* No copy in the cache is ever stale or wrong (cache_read, cache_write).  *)
THEOREM CopiesAgree == Spec => []Coherent
<1>1. IInv => Coherent
  BY DEF IInv, Good, Agrees, Coherent
<1> QED
  BY <1>1, Invariance, PTL

(* cache_read never fetches a line that another way holds.                 *)
THEOREM NoTwin == Spec => []OneWayPerLine
<1>1. IInv => OneWayPerLine
  BY DEF IInv, Good, HeldOnce, OneWayPerLine
<1> QED
  BY <1>1, Invariance, PTL

(* Every access through the cache is an access to plain memory.            *)
THEOREM Refinement == Spec => ImplementsMemory
<1>1. Init => Memory!Init
  BY DEF Init, Memory!Init
<1>2. IInv /\ [Next]_vars => [Memory!Next]_<<hw_mem, ret>>
  <2> SUFFICES ASSUME IInv, [Next]_vars PROVE [Memory!Next]_<<hw_mem, ret>>
    OBVIOUS
  <2>1. CASE UNCHANGED vars
    BY <2>1 DEF vars
  <2>2. CASE Next
    <3>1. PICK l \in Lines, o \in Offs, len \in Lens :
            \/ ReadInLine(l, o, len)
            \/ ReadAcross(l, o, len)
            \/ \E d \in [0 .. len - 1 -> Uint8] :
                 WriteInLine(l, o, len, d) \/ WriteAcross(l, o, len, d)
      BY <2>2 DEF Next
    <3>2. <<l, o>> \in Addrs
      BY DEF Addrs
    <3>3. CASE ReadInLine(l, o, len)
      <4>1. Memory!Read(<<l, o>>, len)
        BY <3>3, ReadInLineStep DEF Memory!Read
      <4> QED
        BY <4>1, <3>2, <3>3, ReadInLineStep DEF Memory!Next
    <3>4. CASE ReadAcross(l, o, len)
      <4>1. Memory!Read(<<l, o>>, len)
        BY <3>4, ReadAcrossStep DEF Memory!Read
      <4> QED
        BY <4>1, <3>2, <3>4, ReadAcrossStep DEF Memory!Next
    <3>5. ASSUME NEW d \in [0 .. len - 1 -> Uint8], WriteInLine(l, o, len, d)
          PROVE  Memory!Next
      <4>1. Memory!Write(<<l, o>>, len, d)
        BY <3>5, WriteInLineStep DEF Memory!Write, Contents
      <4> QED
        BY <4>1, <3>2, <3>5, WriteInLineStep DEF Memory!Next
    <3>6. ASSUME NEW d \in [0 .. len - 1 -> Uint8], WriteAcross(l, o, len, d)
          PROVE  Memory!Next
      <4>1. Memory!Write(<<l, o>>, len, d)
        BY <3>6, WriteAcrossStep DEF Memory!Write, Contents
      <4> QED
        BY <4>1, <3>2, <3>6, WriteAcrossStep DEF Memory!Next
    <3> QED
      BY <3>1, <3>3, <3>4, <3>5, <3>6
  <2> QED
    BY <2>1, <2>2
<1> QED
  BY <1>1, <1>2, Invariance, PTL DEF Spec, ImplementsMemory, Memory!Spec, vars
=============================================================================
