---------------------------- MODULE PagingProofs ----------------------------
(***************************************************************************)
(* Proofs about page directories, for every page and table size, every     *)
(* heap, any tasks and any program files.                                  *)
(***************************************************************************)
EXTENDS Paging, WellFoundedInduction, TLAPS

-----------------------------------------------------------------------------
(* Numbers.                                                                *)

(* Quotient and remainder.                                                 *)
LEMMA DivMod ==
  ASSUME NEW a \in Nat, NEW b \in Nat \ {0}
  PROVE  a % b \in 0 .. (b - 1) /\ a \div b \in Nat /\ a = (a \div b) * b + (a % b)
OBVIOUS

(* They are unique.                                                        *)
LEMMA DivModOf ==
  ASSUME NEW a \in Nat, NEW b \in Nat \ {0}, NEW r \in 0 .. (b - 1)
  PROVE  (a * b + r) \div b = a /\ (a * b + r) % b = r
<1> DEFINE x == a * b + r
           q == x \div b
           s == x % b
<1>1. x \in Nat
  OBVIOUS
<1>2. s \in 0 .. (b - 1) /\ q \in Nat /\ x = q * b + s
  <2> HIDE DEF x
  <2> QED BY <1>1, DivMod
<1> HIDE DEF q, s
<1>3. q * b + s = a * b + r
  BY <1>2
<1>4. q = a /\ s = r
  BY <1>2, <1>3
<1> QED BY <1>4 DEF q, s

(* A product grows with its factor.                                        *)
LEMMA Scaled ==
  ASSUME NEW x \in Int, NEW y \in Int, NEW b \in Nat \ {0}
  PROVE  /\ x * b \in Int /\ y * b \in Int
         /\ x * b < y * b => x < y
         /\ x * b <= y * b => x <= y
         /\ x <= y => x * b <= y * b
         /\ x < y => x * b + b <= y * b
OBVIOUS

(* A non-empty set of naturals has a smallest element, and Min denotes it. *)
LEMMA LeastNatural ==
  ASSUME NEW S \in SUBSET Nat, S # {}
  PROVE  Min(S) \in S /\ \A y \in S : Min(S) <= y
<1> DEFINE Less == {p \in Nat \X Nat : p[1] < p[2]}
<1>1. OpToRel(<, Nat) = Less
  BY Zenon DEF OpToRel
<1>2. IsWellFoundedOn(Less, Nat)
  BY <1>1, NatLessThanWellFounded, Zenon
<1> HIDE DEF Less
<1>3. PICK x \in S : \A y \in S : ~ (<<y, x>> \in Less)
  BY <1>2, WFMin, Zenon
<1>4. \A y \in S : x <= y
  <2> TAKE y \in S
  <2>1. <<y, x>> \in Nat \X Nat
    OBVIOUS
  <2>2. <<y, x>>[1] = y /\ <<y, x>>[2] = x
    OBVIOUS
  <2>3. ~(y < x)
    BY <1>3, <2>1, <2>2, Zenon DEF Less
  <2> QED BY <2>3
<1> QED BY <1>4 DEF Min

(* A set of naturals with a bound has a largest element, and Max denotes   *)
(* it.                                                                     *)
LEMMA MaxOfBounded ==
  ASSUME NEW n \in Nat, NEW S \in SUBSET (1 .. n), S # {}
  PROVE  Max(S) \in S /\ \A y \in S : y <= Max(S)
<1> DEFINE D == {n - y : y \in S}
<1>3. D \in SUBSET Nat /\ D # {}
  <2>1. \A y \in S : n - y \in Nat
    OBVIOUS
  <2>2. D \subseteq Nat
    BY <2>1, Zenon
  <2>3. D # {}
    BY Zenon
  <2> QED BY <2>2, <2>3
<1>4. \A e \in D : \E y \in S : e = n - y
  BY Zenon
<1> HIDE DEF D
<1> DEFINE d == Min(D)
<1>5. d \in D /\ \A y \in D : d <= y
  BY <1>3, LeastNatural
<1> HIDE DEF d
<1>6. PICK m \in S : d = n - m
  BY <1>4, <1>5, Zenon
<1>7. \A x \in S : n - x \in D
  BY DEF D
<1>8. \A x \in S : m >= x
  BY <1>5, <1>6, <1>7
<1>9. Max(S) \in S /\ \A x \in S : Max(S) >= x
  BY <1>8, Zenon DEF Max
<1> QED BY <1>9

(* A set that has 0 and with each number the next has all up to N.         *)
LEMMA AllUpTo ==
  ASSUME NEW N \in Nat, NEW G, 0 \in G,
         \A n \in 0 .. N : n # N /\ n \in G => n + 1 \in G
  PROVE  \A n \in 0 .. N : n \in G
<1> DEFINE B == {n \in 0 .. N : n \notin G}
<1>1. SUFFICES ASSUME B # {} PROVE FALSE
  OBVIOUS
<1>2. B \in SUBSET Nat
  OBVIOUS
<1> DEFINE m == Min(B)
<1>3. m \in B /\ \A y \in B : m <= y
  <2> HIDE DEF B
  <2> QED BY <1>1, <1>2, LeastNatural
<1> HIDE DEF m
<1>4. m \in 0 .. N /\ m \notin G /\ m # 0
  BY <1>3
<1>5. m - 1 \in 0 .. N /\ m - 1 # N /\ m - 1 < m /\ (m - 1) + 1 = m
  BY <1>4
<1>6. m - 1 \in G
  BY <1>3, <1>5
<1>7. (m - 1) + 1 \in G
  BY <1>5, <1>6
<1> QED BY <1>4, <1>5, <1>7

-----------------------------------------------------------------------------
(* Pages and addresses.                                                    *)

(* The sizes are positive, and memory is whole pages.                      *)
LEMMA Sizes ==
  /\ PAGING_PAGE_SIZE \in Nat \ {0} /\ ENTRIES \in Nat \ {0} /\ TABLES \in Nat \ {0}
  /\ PAGES \in Nat \ {0} /\ WORD \in Nat \ {0} /\ WORD = PAGES * PAGING_PAGE_SIZE
  /\ HeapPages \subseteq 1 .. (PAGES - 1) /\ HeapPages \subseteq 1 .. (PAGES - 2)
<1>1. /\ PAGING_PAGE_SIZE \in Nat \ {0} /\ ENTRIES \in Nat \ {0} /\ TABLES \in Nat \ {0}
      /\ WORD = PAGES * PAGING_PAGE_SIZE /\ HeapPages \subseteq 1 .. (PAGES - 2)
  BY PagingAssumption
<1>2. \A a, b \in Nat \ {0} : a * b \in Nat \ {0}
  OBVIOUS
<1>3. PAGES \in Nat \ {0}
  BY <1>1, <1>2 DEF PAGES
<1>4. WORD \in Nat \ {0}
  BY <1>1, <1>2, <1>3
<1>5. HeapPages \subseteq 1 .. (PAGES - 1)
  BY <1>1, <1>3
<1> QED BY <1>1, <1>3, <1>4, <1>5

(* The address of a page, and the page of an address.                      *)
LEMMA PageAddress ==
  ASSUME NEW p \in PageNumbers
  PROVE  /\ p * PAGING_PAGE_SIZE \in 0 .. (WORD - 1)
         /\ (p * PAGING_PAGE_SIZE) % PAGING_PAGE_SIZE = 0
         /\ PageOf(p * PAGING_PAGE_SIZE) = p
         /\ paging_align_to_lower_page(p * PAGING_PAGE_SIZE) = p * PAGING_PAGE_SIZE
<1> DEFINE P == PAGING_PAGE_SIZE
           x == p * P
<1>1. P \in Nat \ {0} /\ PAGES \in Nat \ {0} /\ WORD \in Nat \ {0} /\ WORD = PAGES * P
  BY Sizes
<1>2. p \in Nat /\ p < PAGES
  BY <1>1 DEF PageNumbers
<1> HIDE DEF P
<1>3. p * P \in Int /\ p * P + P <= PAGES * P /\ 0 * P <= p * P
  BY <1>1, <1>2, Scaled
<1>4. x \in 0 .. (WORD - 1)
  BY <1>1, <1>3
<1>5. (p * P + 0) \div P = p /\ (p * P + 0) % P = 0
  BY <1>1, <1>2, DivModOf
<1>6. x \div P = p /\ x % P = 0
  BY <1>3, <1>5
<1> HIDE DEF x
<1>7. x % WORD = x
  BY <1>1, <1>4
<1>8. PageOf(x) = p /\ paging_align_to_lower_page(x) = x
  BY <1>4, <1>6, <1>7, <1>1 DEF PageOf, paging_align_to_lower_page, P
<1> QED BY <1>4, <1>6, <1>8 DEF x, P

(* Every page has its place in a directory.                                *)
LEMMA IndexesOfPage ==
  ASSUME NEW p \in PageNumbers
  PROVE  /\ paging_get_indexes(p * PAGING_PAGE_SIZE).directory \in 0 .. (TABLES - 1)
         /\ paging_get_indexes(p * PAGING_PAGE_SIZE).table \in 0 .. (ENTRIES - 1)
         /\ p = paging_get_indexes(p * PAGING_PAGE_SIZE).directory * ENTRIES
                + paging_get_indexes(p * PAGING_PAGE_SIZE).table
<1> DEFINE P == PAGING_PAGE_SIZE
           x == p * P
           B == ENTRIES * P
           d == x \div B
           m == x % B
           b == m \div P
<1>1. /\ P \in Nat \ {0} /\ ENTRIES \in Nat \ {0} /\ TABLES \in Nat \ {0} /\ PAGES \in Nat
      /\ WORD \in Nat /\ WORD = PAGES * P
  BY Sizes
<1>2. x \in 0 .. (WORD - 1)
  BY PageAddress
<1>3. B \in Nat \ {0} /\ WORD = TABLES * B
  <2>1. PAGES = ENTRIES * TABLES
    BY DEF PAGES
  <2> QED BY <1>1, <2>1
<1> HIDE DEF x, B
<1>4. m \in 0 .. (B - 1) /\ d \in Nat /\ x = d * B + m
  <2>1. x \in Nat
    BY <1>1, <1>2
  <2> QED BY <1>3, <2>1, DivMod, Zenon
<1>5. d < TABLES
  <2>1. d * B \in Int /\ TABLES * B \in Int /\ (d * B < TABLES * B => d < TABLES)
    BY <1>1, <1>3, <1>4, Scaled
  <2> QED BY <1>1, <1>2, <1>3, <1>4, <2>1
<1> HIDE DEF d, m
<1>6. m % P \in 0 .. (P - 1) /\ b \in Nat /\ m = b * P + (m % P)
  <2>1. m \in Nat
    BY <1>3, <1>4
  <2> QED BY <1>1, <2>1, DivMod, Zenon
<1> HIDE DEF b
<1>7. b < ENTRIES
  <2>1. b * P \in Int /\ ENTRIES * P \in Int /\ (b * P < ENTRIES * P => b < ENTRIES)
    BY <1>1, <1>6, Scaled
  <2>2. m < ENTRIES * P
    BY <1>3, <1>4 DEF B
  <2> QED BY <1>1, <1>4, <1>6, <2>1, <2>2
<1>8. paging_get_indexes(p * PAGING_PAGE_SIZE) = [directory |-> d, table |-> b]
  BY DEF paging_get_indexes, b, m, d, B, x
<1>9. p = d * ENTRIES + b
  <2> DEFINE q == d * ENTRIES + b
             s == m % P
  <2>1. q \in Nat
    BY <1>1, <1>4, <1>6
  <2>2. d * B + m = q * P + s
    <3>1. d * B = (d * ENTRIES) * P
      BY <1>1, <1>4 DEF B
    <3>2. m = b * P + s /\ s \in Int
      BY <1>1, <1>6
    <3> HIDE DEF s, B
    <3>3. d * ENTRIES \in Int
      BY <1>1, <1>4
    <3> DEFINE w == d * ENTRIES
    <3> HIDE DEF w
    <3>4. (w + b) * P = w * P + b * P /\ w * P \in Int /\ b * P \in Int
      BY <1>1, <1>6, <3>3 DEF w
    <3> QED BY <3>1, <3>2, <3>4 DEF w
  <2> HIDE DEF q, s
  <2>3. p * P + 0 = q * P + s /\ s \in 0 .. (P - 1) /\ 0 \in 0 .. (P - 1) /\ p \in Nat
    BY <1>1, <1>4, <1>6, <2>2 DEF x, s, PageNumbers
  <2>4. (p * P + 0) \div P = p /\ (q * P + s) \div P = q
    BY <1>1, <2>1, <2>3, DivModOf
  <2>5. p = q
    BY <2>3, <2>4
  <2> QED BY <2>5 DEF q
<1> QED BY <1>1, <1>4, <1>5, <1>6, <1>7, <1>8, <1>9

(* Rounding down.                                                          *)
LEMMA AlignDown ==
  ASSUME NEW n \in 0 .. (WORD - 1)
  PROVE  \E q \in PageNumbers :
            /\ paging_align_to_lower_page(n) = q * PAGING_PAGE_SIZE
            /\ q * PAGING_PAGE_SIZE <= n /\ n < q * PAGING_PAGE_SIZE + PAGING_PAGE_SIZE
<1> DEFINE P == PAGING_PAGE_SIZE
           q == n \div P
           r == n % P
<1>1. P \in Nat \ {0} /\ PAGES \in Nat \ {0} /\ WORD \in Nat \ {0} /\ WORD = PAGES * P
  BY Sizes
<1>2. n \in Nat
  BY <1>1
<1>3. r \in 0 .. (P - 1) /\ q \in Nat /\ n = q * P + r
  BY <1>1, <1>2, DivMod, Zenon
<1>4. paging_align_to_lower_page(n) = n - r
  BY DEF paging_align_to_lower_page
<1> HIDE DEF q, r, P
<1>5. q * P \in Int /\ PAGES * P \in Int /\ (q * P < PAGES * P => q < PAGES)
  BY <1>1, <1>3, Scaled
<1>6. q * P <= n /\ n < q * P + P /\ n - r = q * P /\ q * P < PAGES * P
  BY <1>1, <1>2, <1>3, <1>5
<1>7. q \in PageNumbers
  BY <1>1, <1>3, <1>5, <1>6 DEF PageNumbers
<1> QED BY <1>4, <1>6, <1>7 DEF P

(* Rounding up; the last page's end is address 0.                          *)
LEMMA AlignUp ==
  ASSUME NEW n \in 0 .. (WORD - 1)
  PROVE  \E c \in 0 .. PAGES :
            /\ n <= c * PAGING_PAGE_SIZE /\ c * PAGING_PAGE_SIZE < n + PAGING_PAGE_SIZE
            /\ paging_align_address(n) = IF c = PAGES THEN 0 ELSE c * PAGING_PAGE_SIZE
<1> DEFINE P == PAGING_PAGE_SIZE
           q == n \div P
           r == n % P
<1>1. P \in Nat \ {0} /\ PAGES \in Nat \ {0} /\ WORD \in Nat \ {0} /\ WORD = PAGES * P
  BY Sizes
<1>2. n \in Nat
  BY <1>1
<1>3. r \in 0 .. (P - 1) /\ q \in Nat /\ n = q * P + r
  BY <1>1, <1>2, DivMod, Zenon
<1>4. paging_align_address(n) = IF r = 0 THEN n ELSE (n + P - r) % WORD
  BY DEF paging_align_address, paging_is_aligned
<1> HIDE DEF q, r, P
<1>5. q * P \in Int /\ PAGES * P \in Int /\ (q * P < PAGES * P => q < PAGES)
  BY <1>1, <1>3, Scaled
<1>6. q < PAGES
  BY <1>1, <1>2, <1>3, <1>5
<1>7. CASE r = 0
  <2>1. n = q * P /\ q \in 0 .. PAGES /\ q # PAGES
    BY <1>1, <1>2, <1>3, <1>5, <1>6, <1>7
  <2>2. n <= q * P /\ q * P < n + P
    BY <1>1, <1>2, <2>1
  <2>3. paging_align_address(n) = IF q = PAGES THEN 0 ELSE q * P
    BY <1>4, <1>7, <2>1
  <2> QED BY <2>1, <2>2, <2>3 DEF P
<1>8. CASE r # 0
  <2> DEFINE c == q + 1
             x == c * P
  <2>1. c \in 0 .. PAGES
    BY <1>1, <1>3, <1>6
  <2>2. x = q * P + P
    BY <1>1, <1>3
  <2>3. n + P - r = x /\ n <= x /\ x < n + P
    BY <1>1, <1>2, <1>3, <1>5, <1>8, <2>2
  <2> HIDE DEF c
  <2>4. c * P \in Int /\ (c < PAGES => c * P + P <= PAGES * P) /\ x = c * P
    BY <1>1, <2>1, Scaled
  <2> HIDE DEF x
  <2>5. x % WORD = IF c = PAGES THEN 0 ELSE x
    <3>1. CASE c = PAGES
      <4>1. x = WORD
        BY <1>1, <2>4, <3>1
      <4>2. WORD % WORD = 0
        BY <1>1
      <4> QED BY <3>1, <4>1, <4>2
    <3>2. CASE c # PAGES
      <4>1. c < PAGES
        BY <1>1, <2>1, <3>2
      <4>2. x \in Nat /\ x < WORD
        BY <1>1, <1>2, <2>3, <2>4, <4>1
      <4>3. x % WORD = x
        BY <1>1, <4>2
      <4> QED BY <3>2, <4>3
    <3> QED BY <3>1, <3>2
  <2>6. paging_align_address(n) = IF c = PAGES THEN 0 ELSE c * P
    BY <1>4, <1>8, <2>3, <2>4, <2>5
  <2> QED BY <2>1, <2>3, <2>4, <2>6 DEF P
<1> QED BY <1>7, <1>8

(* The size of an allocation in pages.                                     *)
LEMMA SizeInPages ==
  ASSUME NEW n \in 0 .. (WORD - 1)
  PROVE  /\ PageOf(paging_align_address(n)) \in PageNumbers
         /\ paging_align_address(n) = PageOf(paging_align_address(n)) * PAGING_PAGE_SIZE
<1>1. PICK c \in 0 .. PAGES :
        paging_align_address(n) = IF c = PAGES THEN 0 ELSE c * PAGING_PAGE_SIZE
  BY AlignUp
<1>2. PAGES \in Nat \ {0} /\ PAGING_PAGE_SIZE \in Nat \ {0} /\ 0 \in PageNumbers
  BY Sizes DEF PageNumbers
<1> DEFINE d == IF c = PAGES THEN 0 ELSE c
<1>3. d \in PageNumbers /\ paging_align_address(n) = d * PAGING_PAGE_SIZE
  BY <1>1, <1>2 DEF PageNumbers
<1> HIDE DEF d
<1>4. PageOf(d * PAGING_PAGE_SIZE) = d
  BY <1>3, PageAddress
<1> QED BY <1>3, <1>4

(* A range that begins x bytes into an allocation of l pages at page a and *)
(* has y bytes, all in the allocation, is mapped to pages of it or not at  *)
(* all.                                                                    *)
LEMMA MapsInside ==
  ASSUME NEW a \in 1 .. (PAGES - 1), NEW l \in Nat, a + l <= PAGES,
         NEW x \in Nat, NEW y \in Nat, x + y <= l * PAGING_PAGE_SIZE,
         NEW phys, phys = (a * PAGING_PAGE_SIZE + x) % WORD,
         NEW low, low = paging_align_to_lower_page(phys),
         NEW end, end = paging_align_address((phys + y) % WORD), low <= end,
         NEW k \in Nat, k < (end - low) \div PAGING_PAGE_SIZE
  PROVE  (PageOf(low) + k) % PAGES \in a .. (a + l - 1)
<1> DEFINE P == PAGING_PAGE_SIZE
           A == a * P
           X == A + x
           Y == X + y
<1>1. P \in Nat \ {0} /\ PAGES \in Nat \ {0} /\ WORD \in Nat \ {0} /\ WORD = PAGES * P
  BY Sizes
<1>2. a \in Int /\ l \in Int /\ a + l \in Int /\ PAGES \in Int /\ 1 \in Int
  BY <1>1
<1>3. A \in Int /\ (1 <= a => 1 * P <= A)
  BY <1>1, <1>2, Scaled
<1>4. (a + l) * P \in Int /\ (a + l <= PAGES => (a + l) * P <= PAGES * P)
  BY <1>1, <1>2, Scaled
<1>5. (a + l) * P = A + l * P /\ l * P \in Int
  BY <1>1, <1>2
<1>6. P <= A /\ A <= X /\ X <= Y /\ Y <= (a + l) * P /\ Y <= WORD
  BY <1>1, <1>3, <1>4, <1>5
<1> DEFINE Z == (a + l) * P
<1>7. phys = X % WORD /\ X \in Nat /\ Y \in Nat /\ Y = X + y /\ A \in Nat /\ Y <= Z /\ Z \in Int
  BY <1>1, <1>3, <1>4, <1>6
<1> HIDE DEF A, X, Y, Z
<1>8. CASE X = WORD
  <2>1. phys = 0 /\ y = 0
    BY <1>1, <1>6, <1>7, <1>8
  <2>2. (phys + y) % WORD = 0
    BY <1>1, <2>1
  <2>3. 0 % PAGING_PAGE_SIZE = 0
    BY <1>1
  <2>4. low = 0 /\ end = 0
    BY <2>1, <2>2, <2>3 DEF paging_align_to_lower_page, paging_align_address, paging_is_aligned
  <2>5. (end - low) \div PAGING_PAGE_SIZE = 0
    BY <1>1, <2>4
  <2> QED BY <2>5
<1>9. CASE X # WORD
  <2>1. X \in 0 .. (WORD - 1)
    BY <1>1, <1>6, <1>7, <1>9
  <2>2. phys = X
    BY <1>1, <1>7, <2>1
  <2>3. PICK q \in PageNumbers : low = q * P /\ q * P <= X /\ X < q * P + P
    BY <2>1, <2>2, AlignDown
  <2>4. q \in Int /\ q \in Nat /\ q < PAGES /\ q + 1 \in Int
    BY <1>1, <2>3 DEF PageNumbers
  <2>5. a <= q
    <3>1. (q + 1) * P = q * P + P /\ q * P \in Int
      BY <1>1, <2>4
    <3>2. a * P < (q + 1) * P => a < q + 1
      BY <1>1, <1>2, <2>4, Scaled
    <3>3. a * P < (q + 1) * P
      BY <1>1, <1>6, <1>7, <2>3, <3>1 DEF A
    <3> QED BY <1>2, <2>4, <3>2, <3>3
  <2>6. 0 < low
    <3>1. A <= q * P
      BY <1>1, <1>2, <2>4, <2>5, Scaled DEF A
    <3> QED BY <1>1, <1>6, <1>7, <2>3, <3>1, <2>4
  <2>7. end # 0
    BY <1>1, <2>3, <2>4, <2>6
  <2>8. Y # WORD
    <3>1. SUFFICES ASSUME Y = WORD PROVE FALSE
      OBVIOUS
    <3>2. (phys + y) % WORD = 0
      BY <1>1, <1>7, <2>2, <3>1
    <3>3. 0 % PAGING_PAGE_SIZE = 0
      BY <1>1
    <3>4. end = 0
      BY <3>2, <3>3 DEF paging_align_address, paging_is_aligned
    <3> QED BY <2>7, <3>4
  <2>9. Y \in 0 .. (WORD - 1)
    BY <1>1, <1>6, <1>7, <2>8
  <2>10. (phys + y) % WORD = Y
    BY <1>1, <1>7, <2>2, <2>9
  <2>11. PICK c \in 0 .. PAGES : c * P < Y + P /\ end = IF c = PAGES THEN 0 ELSE c * P
    BY <2>9, <2>10, AlignUp
  <2>12. end = c * P /\ c \in Int
    BY <1>1, <2>7, <2>11
  <2>13. c <= a + l
    <3>1. (a + l + 1) * P = Z + P /\ c * P \in Int
      BY <1>1, <1>2, <2>12 DEF Z
    <3>2. c * P < (a + l + 1) * P => c < a + l + 1
      BY <1>1, <1>2, <2>12, Scaled
    <3>3. c * P < (a + l + 1) * P
      BY <1>1, <1>7, <2>11, <3>1
    <3> QED BY <1>2, <2>12, <3>2, <3>3
  <2>14. (end - low) \div P = c - q
    <3>1. q <= c
      BY <1>1, <2>3, <2>4, <2>12, Scaled
    <3> DEFINE w == c - q
    <3>2. w \in Nat /\ end - low = w * P + 0 /\ 0 \in 0 .. (P - 1)
      BY <1>1, <2>3, <2>4, <2>12, <3>1
    <3> HIDE DEF w
    <3>3. (w * P + 0) \div P = w
      BY <1>1, <3>2, DivModOf
    <3> QED BY <3>2, <3>3 DEF w
  <2>15. PageOf(low) = q
    BY <2>3, PageAddress DEF P
  <2>16. q + k < a + l /\ q + k \in Nat /\ q + k < PAGES
    BY <1>1, <1>2, <2>4, <2>12, <2>13, <2>14 DEF P
  <2>17. (q + k) % PAGES = q + k
    BY <1>1, <2>16
  <2> QED BY <1>2, <2>4, <2>5, <2>15, <2>16, <2>17
<1> QED BY <1>8, <1>9

-----------------------------------------------------------------------------
(* Directories.                                                            *)

(* An address of the heap is that of one of its pages.                     *)
LEMMA HeapAddress ==
  ASSUME NEW x \in Addresses
  PROVE  \E p \in HeapPages : /\ p \in PageNumbers /\ p \in 1 .. (PAGES - 1)
                             /\ x = p * PAGING_PAGE_SIZE /\ PageOf(x) = p
<1>1. PICK p \in HeapPages : x = p * PAGING_PAGE_SIZE
  BY DEF Addresses
<1>2. PAGES \in Nat \ {0} /\ p \in 1 .. (PAGES - 1)
  BY Sizes
<1>3. p \in PageNumbers
  BY <1>2 DEF PageNumbers
<1> QED BY <1>1, <1>2, <1>3, PageAddress

(* An allocated run of pages ends before the end of memory.                *)
LEMMA RunOfPages ==
  ASSUME NEW x \in Addresses, NEW n \in 0 .. (WORD - 1), PagesFor(x, n) \subseteq HeapPages
  PROVE  \E a \in 1 .. (PAGES - 1), l \in Nat :
            /\ x = a * PAGING_PAGE_SIZE /\ paging_align_address(n) = l * PAGING_PAGE_SIZE
            /\ a + l <= PAGES /\ PagesFor(x, n) = a .. (a + l - 1)
<1>1. PICK a \in HeapPages : /\ a \in 1 .. (PAGES - 1)
                              /\ x = a * PAGING_PAGE_SIZE /\ PageOf(x) = a
  BY HeapAddress
<1> DEFINE l == PageOf(paging_align_address(n))
<1>2. l \in PageNumbers /\ paging_align_address(n) = l * PAGING_PAGE_SIZE
  BY SizeInPages
<1>3. PAGES \in Nat \ {0} /\ HeapPages \subseteq 1 .. (PAGES - 1)
  BY Sizes
<1>4. l \in Nat
  BY <1>2, <1>3 DEF PageNumbers
<1>5. PagesFor(x, n) = a .. (a + l - 1)
  BY <1>1 DEF PagesFor
<1> HIDE DEF l
<1>6. a + l <= PAGES
  <2>1. CASE l = 0
    BY <1>1, <1>3, <2>1
  <2>2. CASE l # 0
    <3>1. a + l - 1 \in a .. (a + l - 1)
      BY <1>1, <1>3, <1>4, <2>2
    <3>2. a + l - 1 \in 1 .. (PAGES - 1)
      BY <1>3, <1>5, <3>1
    <3> QED BY <1>1, <1>3, <1>4, <3>2
  <2> QED BY <2>1, <2>2
<1> QED BY <1>1, <1>2, <1>4, <1>5, <1>6

(* Entry b of table i is that of a page.                                   *)
LEMMA PageInTable ==
  ASSUME NEW i \in 0 .. (TABLES - 1), NEW b \in 0 .. (ENTRIES - 1)
  PROVE  i * ENTRIES + b \in PageNumbers
<1>1. ENTRIES \in Nat \ {0} /\ TABLES \in Nat \ {0} /\ PAGES \in Nat
  BY Sizes
<1>2. PAGES = TABLES * ENTRIES
  BY <1>1 DEF PAGES
<1>3. i \in Int /\ TABLES \in Int /\ i < TABLES
  BY <1>1
<1>4. i * ENTRIES \in Int /\ i * ENTRIES + ENTRIES <= TABLES * ENTRIES
  BY <1>1, <1>3, Scaled
<1>5. 0 <= i * ENTRIES
  BY <1>1
<1> QED BY <1>1, <1>2, <1>4, <1>5 DEF PageNumbers

(* The directory that task_init makes.                                     *)
LEMMA FreshDirectory == paging_new_4gb(UserPage) \in Directory
<1>1. \A i \in 0 .. (TABLES - 1), b \in 0 .. (ENTRIES - 1) :
         [page |-> i * ENTRIES + b, flags |-> UserPage] \in Entry
  <2> TAKE i \in 0 .. (TABLES - 1), b \in 0 .. (ENTRIES - 1)
  <2> DEFINE v == i * ENTRIES + b
  <2>1. v \in PageNumbers
    BY PageInTable
  <2> HIDE DEF v
  <2>2. [page |-> v, flags |-> UserPage] \in Entry
    BY <2>1 DEF Entry, UserPage, PageFlags
  <2> QED BY <2>2 DEF v
<1> QED BY <1>1, Zenon DEF paging_new_4gb, Directory

(* Entries point to pages.                                                 *)
LEMMA EntryType ==
  ASSUME NEW r, r.flags \in SUBSET PageFlags, NEW v \in Int, PageOf(r.phys) \in Nat,
         PageOf(r.virt) \in Int
  PROVE  EntryFor(r, v) \in Entry
<1>1. PAGES \in Nat \ {0}
  BY Sizes
<1>2. StepOf(r, v) \in Nat
  <2> DEFINE w == v - PageOf(r.virt)
  <2>1. w \in Int
    OBVIOUS
  <2> HIDE DEF w
  <2>2. w % PAGES \in Nat
    BY <1>1, <2>1
  <2> QED BY <2>2 DEF StepOf, w
<1>3. (PageOf(r.phys) + StepOf(r, v)) % PAGES \in PageNumbers
  <2> DEFINE w == PageOf(r.phys) + StepOf(r, v)
  <2>1. w \in Nat
    BY <1>2
  <2> HIDE DEF w
  <2>2. w % PAGES \in 0 .. (PAGES - 1)
    BY <1>1, <2>1
  <2> QED BY <2>2 DEF w, PageNumbers
<1> QED BY <1>3 DEF EntryFor, Entry

(* A page gets its entry from a request that maps it, or keeps it.         *)
MappedOrKept(dir, ranges) ==
  \A i \in 0 .. (TABLES - 1), b \in 0 .. (ENTRIES - 1) :
     \/ paging_map_to(dir, ranges)[i][b] = dir[i][b]
     \/ \E c \in DOMAIN ranges :
          /\ Maps(ranges[c], i * ENTRIES + b)
          /\ paging_map_to(dir, ranges)[i][b] = EntryFor(ranges[c], i * ENTRIES + b)

(* paging_map_to does nothing else: each entry is kept, or made by one of  *)
(* the requests that map its page.                                         *)
LEMMA MapTo ==
  ASSUME NEW n \in Nat, NEW dir, NEW ranges, DOMAIN ranges = 1 .. n
  PROVE  MappedOrKept(dir, ranges)
<1> USE DEF MappedOrKept
<1> TAKE i \in 0 .. (TABLES - 1), b \in 0 .. (ENTRIES - 1)
<1> DEFINE v == i * ENTRIES + b
           mapping == {c \in DOMAIN ranges : Maps(ranges[c], v)}
<1>1. paging_map_to(dir, ranges)[i][b] =
        IF mapping = {} THEN dir[i][b] ELSE EntryFor(ranges[Max(mapping)], v)
  BY Zenon DEF paging_map_to
<1>2. mapping \in SUBSET (1 .. n)
  OBVIOUS
<1>3. mapping # {} => Max(mapping) \in mapping
  <2> HIDE DEF mapping
  <2> QED BY <1>2, MaxOfBounded
<1>4. \A c \in mapping : c \in DOMAIN ranges /\ Maps(ranges[c], v)
  OBVIOUS
<1> HIDE DEF mapping
<1>5. CASE mapping = {}
  BY <1>1, <1>5
<1>6. CASE mapping # {}
  BY <1>1, <1>3, <1>4, <1>6, Zenon
<1> QED BY <1>5, <1>6

(* Mapping keeps a directory one.                                          *)
LEMMA MapToType ==
  ASSUME NEW dir \in Directory, NEW ranges, NEW n \in Nat, DOMAIN ranges = 1 .. n,
         \A c \in 1 .. n : /\ ranges[c].flags \in SUBSET PageFlags
                           /\ PageOf(ranges[c].phys) \in Nat
                           /\ PageOf(ranges[c].virt) \in Int
  PROVE  paging_map_to(dir, ranges) \in Directory
<1> DEFINE new == paging_map_to(dir, ranges)
<1>1. ASSUME NEW i \in 0 .. (TABLES - 1), NEW b \in 0 .. (ENTRIES - 1)
      PROVE  new[i][b] \in Entry
  <2>1. dir[i][b] \in Entry
    BY DEF Directory
  <2>2. i * ENTRIES + b \in Int
    <3>1. PAGES \in Nat
      BY Sizes
    <3> QED BY <3>1, PageInTable DEF PageNumbers
  <2>3. CASE new[i][b] = dir[i][b]
    BY <2>1, <2>3
  <2>4. CASE \E c \in 1 .. n : new[i][b] = EntryFor(ranges[c], i * ENTRIES + b)
    <3>1. PICK c \in 1 .. n : new[i][b] = EntryFor(ranges[c], i * ENTRIES + b)
      BY <2>4
    <3>2. EntryFor(ranges[c], i * ENTRIES + b) \in Entry
      BY <2>2, EntryType, Zenon
    <3> QED BY <3>1, <3>2
  <2>5. \/ paging_map_to(dir, ranges)[i][b] = dir[i][b]
        \/ \E c \in 1 .. n :
             /\ Maps(ranges[c], i * ENTRIES + b)
             /\ paging_map_to(dir, ranges)[i][b] = EntryFor(ranges[c], i * ENTRIES + b)
    <3>1. MappedOrKept(dir, ranges)
      BY MapTo, Zenon
    <3> QED BY <3>1, Zenon DEF MappedOrKept
  <2> QED BY <2>3, <2>4, <2>5
<1>2. new = [i \in 0 .. (TABLES - 1) |-> [b \in 0 .. (ENTRIES - 1) |-> new[i][b]]]
  BY Zenon DEF paging_map_to
<1> HIDE DEF new
<1>3. \A i \in 0 .. (TABLES - 1) :
         [b \in 0 .. (ENTRIES - 1) |-> new[i][b]] \in [0 .. (ENTRIES - 1) -> Entry]
  BY <1>1
<1>4. [i \in 0 .. (TABLES - 1) |-> [b \in 0 .. (ENTRIES - 1) |-> new[i][b]]] \in Directory
  BY <1>3, Zenon DEF Directory
<1> QED BY <1>2, <1>4, Zenon DEF new

(* paging_set changes one entry, which is then what paging_get gives;      *)
(* putting the old entry back restores the directory.                      *)
LEMMA SetAndRestore ==
  ASSUME NEW dir \in Directory, NEW p \in PageNumbers, NEW entry \in Entry
  PROVE  LET x == p * PAGING_PAGE_SIZE
         IN  /\ paging_set(dir, x, entry) \in Directory
             /\ paging_get(dir, x) \in Entry
             /\ paging_set(paging_set(dir, x, entry), x, paging_get(dir, x)) = dir
             /\ \A i \in 0 .. (TABLES - 1), b \in 0 .. (ENTRIES - 1) :
                  \/ paging_set(dir, x, entry)[i][b] = dir[i][b]
                  \/ paging_set(dir, x, entry)[i][b] = entry
<1> DEFINE x == p * PAGING_PAGE_SIZE
           d == paging_get_indexes(x).directory
           t == paging_get_indexes(x).table
<1>1. d \in 0 .. (TABLES - 1) /\ t \in 0 .. (ENTRIES - 1)
  BY IndexesOfPage
<1> DEFINE one == paging_set(dir, x, entry)
<1>2. one = [dir EXCEPT ![d][t] = entry] /\ paging_get(dir, x) = dir[d][t]
  BY DEF paging_set, paging_get
<1>3. paging_set(one, x, paging_get(dir, x)) = [one EXCEPT ![d][t] = dir[d][t]]
  BY <1>2 DEF paging_set
<1> HIDE DEF d, t, one, x
<1>4. dir \in [0 .. (TABLES - 1) -> [0 .. (ENTRIES - 1) -> Entry]]
  BY DEF Directory
<1>5. one \in [0 .. (TABLES - 1) -> [0 .. (ENTRIES - 1) -> Entry]]
  BY <1>1, <1>2, <1>4
<1>6. [one EXCEPT ![d][t] = dir[d][t]] = dir
  BY <1>1, <1>2, <1>4, <1>5
<1>7. \A i \in 0 .. (TABLES - 1), b \in 0 .. (ENTRIES - 1) :
         one[i][b] = dir[i][b] \/ one[i][b] = entry
  BY <1>1, <1>2, <1>4
<1>8. dir[d][t] \in Entry
  BY <1>1, <1>4
<1> QED BY <1>2, <1>3, <1>5, <1>6, <1>7, <1>8 DEF one, x, Directory

-----------------------------------------------------------------------------
(* The mapping of a program.                                               *)

(* The program's part of the requests.                                     *)
MapProgram(prog, ptr) ==
  IF elf_validate_loaded(prog) THEN process_map_elf(prog, ptr)
  ELSE process_map_binary(prog, ptr)

(* The numbers in a program file.                                          *)
LEMMA ProgramFields ==
  ASSUME NEW prog \in Programs
  PROVE  /\ prog.size \in 0 .. (WORD - 1)
         /\ \E n \in Nat : DOMAIN prog.headers = 1 .. n
         /\ \A k \in DOMAIN prog.headers :
              /\ prog.headers[k].p_vaddr \in 0 .. (WORD - 1)
              /\ prog.headers[k].p_offset \in 0 .. (WORD - 1)
              /\ prog.headers[k].p_memsz \in 0 .. (WORD - 1)
<1>1. prog \in Program
  BY PagingAssumption
<1> DEFINE H == [p_type : Word, p_vaddr : Word, p_offset : Word,
                 p_filesz : Word, p_memsz : Word, writable : BOOLEAN]
<1>2. prog.size \in Word /\ prog.headers \in Seq(H)
  BY <1>1 DEF Program
<1>3. \A h \in H : h.p_vaddr \in Word /\ h.p_offset \in Word /\ h.p_memsz \in Word
  OBVIOUS
<1> HIDE DEF H
<1>4. \A k \in DOMAIN prog.headers : prog.headers[k] \in H
  BY <1>2
<1>5. DOMAIN prog.headers = 1 .. Len(prog.headers) /\ Len(prog.headers) \in Nat
  BY <1>2
<1> QED BY <1>2, <1>3, <1>4, <1>5 DEF Word

(* All requests of process_map_memory, in order.                           *)
AllRequests(prog, ptr, stk) == MapProgram(prog, ptr) \o map_stack(stk)

(* The n requests of the program come first, then that of the stack.       *)
InOrder(n, ranges, program_ranges, stack_range) ==
  /\ DOMAIN ranges = 1 .. (n + 1) /\ DOMAIN program_ranges = 1 .. n
  /\ \A c \in 1 .. n : ranges[c] = program_ranges[c]
  /\ ranges[n + 1] = stack_range

(* The program is mapped before the stack.                                 *)
LEMMA RequestList ==
  ASSUME NEW prog \in Programs, NEW ptr \in Addresses, NEW stk \in Addresses
  PROVE  \E n \in Nat : InOrder(n, AllRequests(prog, ptr, stk), MapProgram(prog, ptr),
                               map_stack(stk)[1])
<1> DEFINE ranges == AllRequests(prog, ptr, stk)
           s == map_stack(stk)
           m == MapProgram(prog, ptr)
<1>1. s = <<s[1]>>
  BY DEF map_stack
<1>2. \E n \in Nat : m = [k \in 1 .. n |-> m[k]]
  <2>1. CASE elf_validate_loaded(prog)
    <3>1. PICK n \in Nat : DOMAIN prog.headers = 1 .. n
      BY ProgramFields
    <3>2. m = process_map_elf(prog, ptr)
      BY <2>1 DEF MapProgram
    <3>3. m = [k \in 1 .. n |-> m[k]]
      BY <3>1, <3>2, Zenon DEF process_map_elf
    <3> QED BY <3>3
  <2>2. CASE ~elf_validate_loaded(prog)
    <3>1. m = process_map_binary(prog, ptr)
      BY <2>2 DEF MapProgram
    <3>2. m = [k \in 1 .. 1 |-> m[k]]
      BY <3>1 DEF process_map_binary
    <3> QED BY <3>2
  <2> QED BY <2>1, <2>2
<1>3. PICK n \in Nat : m = [k \in 1 .. n |-> m[k]]
  BY <1>2
<1> HIDE DEF m, s
<1> DEFINE e == s[1]
           S == {m[k] : k \in 1 .. n} \cup {e}
<1>4. (\A k \in 1 .. n : m[k] \in S) /\ e \in S
  OBVIOUS
<1>5. s = <<e>> /\ ranges = m \o s
  BY <1>1 DEF m, s, AllRequests
<1> HIDE DEF S, e, ranges
<1>6. m \in [1 .. n -> S]
  BY <1>3, <1>4
<1>7. m \in Seq(S) /\ Len(m) = n /\ DOMAIN m = 1 .. n
  BY <1>6
<1>8. ranges = m \o <<e>>
  BY <1>5
<1>9. /\ DOMAIN ranges = 1 .. (n + 1)
      /\ \A k \in 1 .. n : ranges[k] = m[k]
      /\ ranges[n + 1] = e
  BY <1>4, <1>7, <1>8
<1>10. InOrder(n, ranges, m, e)
  BY <1>7, <1>9 DEF InOrder
<1> QED BY <1>10 DEF ranges, m, e, s

(* A word has a page.                                                      *)
LEMMA PageOfWord ==
  ASSUME NEW x \in 0 .. (WORD - 1)
  PROVE  PageOf(x) \in Nat
<1>1. PAGING_PAGE_SIZE \in Nat \ {0} /\ WORD \in Nat \ {0}
  BY Sizes
<1>2. x % WORD = x /\ x \in Nat
  BY <1>1
<1>3. x \div PAGING_PAGE_SIZE \in Nat
  BY <1>1, <1>2, DivMod
<1> QED BY <1>2, <1>3 DEF PageOf

(* A request for y bytes, x bytes into the allocation at ptr.              *)
RequestAt(r, ptr, x, y) ==
  /\ r.phys = paging_align_to_lower_page((ptr + x) % WORD)
  /\ r.phys_end = paging_align_address((((ptr + x) % WORD) + y) % WORD)

Typed(r) ==
  /\ r.flags \in SUBSET PageFlags
  /\ PageOf(r.phys) \in Nat /\ PageOf(r.virt) \in Nat

(* An address of the heap is a word.                                       *)
LEMMA AddressIsWord ==
  ASSUME NEW ptr \in Addresses
  PROVE  ptr \in 0 .. (WORD - 1) /\ ptr \in Nat /\ paging_align_to_lower_page(ptr) = ptr
<1>1. PICK p \in PageNumbers : ptr = p * PAGING_PAGE_SIZE
  BY HeapAddress
<1>2. ptr \in 0 .. (WORD - 1) /\ paging_align_to_lower_page(ptr) = ptr
  BY <1>1, PageAddress
<1>3. WORD \in Nat
  BY Sizes
<1> QED BY <1>2, <1>3

(* A sum is reduced to a word.                                             *)
LEMMA SumIsWord ==
  ASSUME NEW x \in Nat, NEW y \in Nat
  PROVE  (x + y) % WORD \in 0 .. (WORD - 1) /\ (x + y) % WORD \in Nat
<1>1. WORD \in Nat \ {0} /\ x + y \in Nat
  BY Sizes
<1> DEFINE w == x + y
<1> HIDE DEF w
<1>2. w % WORD \in 0 .. (WORD - 1)
  BY <1>1, DivMod DEF w
<1> QED BY <1>1, <1>2 DEF w

(* The requests of the headers, one by one.                                *)
LEMMA HeaderRange ==
  ASSUME NEW prog \in Programs, NEW ptr \in Addresses, NEW k \in DOMAIN prog.headers
  PROVE  /\ Typed(process_map_elf(prog, ptr)[k])
         /\ RequestAt(process_map_elf(prog, ptr)[k], ptr,
                      prog.headers[k].p_offset, prog.headers[k].p_memsz)
<1> DEFINE r == process_map_elf(prog, ptr)[k]
           h == prog.headers[k]
           phys == (ptr + h.p_offset) % WORD
           f == IF h.writable THEN UserPage \cup {"WRITABLE"} ELSE UserPage
<1>1. r = [virt |-> paging_align_to_lower_page(h.p_vaddr),
           phys |-> paging_align_to_lower_page(phys),
           phys_end |-> paging_align_address((phys + h.p_memsz) % WORD),
           flags |-> f]
  BY DEF process_map_elf
<1>2. f \in SUBSET PageFlags
  BY DEF UserPage, PageFlags
<1>3. h.p_vaddr \in 0 .. (WORD - 1) /\ h.p_offset \in 0 .. (WORD - 1)
  BY ProgramFields
<1>4. phys \in 0 .. (WORD - 1)
  <2>1. WORD \in Nat
    BY Sizes
  <2>2. h.p_offset \in Nat
    BY <1>3, <2>1
  <2> QED BY <2>2, AddressIsWord, SumIsWord
<1> HIDE DEF r, h, phys, f
<1>5. \A n \in 0 .. (WORD - 1) : PageOf(paging_align_to_lower_page(n)) \in Nat
  <2> TAKE n \in 0 .. (WORD - 1)
  <2>1. PICK q \in PageNumbers : paging_align_to_lower_page(n) = q * PAGING_PAGE_SIZE
    BY AlignDown
  <2>2. paging_align_to_lower_page(n) \in 0 .. (WORD - 1)
    BY <2>1, PageAddress
  <2> QED BY <2>2, PageOfWord
<1>6. PageOf(r.phys) \in Nat /\ PageOf(r.virt) \in Nat
  BY <1>1, <1>3, <1>4, <1>5
<1>7. /\ r.phys = paging_align_to_lower_page(phys) /\ r.flags = f
      /\ r.phys_end = paging_align_address((phys + h.p_memsz) % WORD)
  BY <1>1
<1>8. Typed(r) /\ RequestAt(r, ptr, h.p_offset, h.p_memsz)
  BY <1>2, <1>6, <1>7 DEF Typed, RequestAt, phys
<1> QED BY <1>8 DEF r, h

(* The requests of a raw image and of the stack.                           *)
LEMMA WholeRange ==
  ASSUME NEW ptr \in Addresses, NEW size \in 0 .. (WORD - 1), NEW virt \in 0 .. (WORD - 1),
         NEW r, r = [virt |-> virt, phys |-> ptr,
                     phys_end |-> paging_align_address((ptr + size) % WORD),
                     flags |-> UserPage \cup {"WRITABLE"}]
  PROVE  Typed(r) /\ RequestAt(r, ptr, 0, size)
<1>2. ptr \in 0 .. (WORD - 1) /\ paging_align_to_lower_page(ptr) = ptr
  BY AddressIsWord
<1>3. WORD \in Nat \ {0}
  BY Sizes
<1>4. (ptr + 0) % WORD = ptr
  BY <1>2, <1>3
<1>5. UserPage \cup {"WRITABLE"} \in SUBSET PageFlags
  BY DEF UserPage, PageFlags
<1>6. PageOf(ptr) \in Nat /\ PageOf(virt) \in Nat
  BY <1>2, PageOfWord
<1> QED BY <1>2, <1>4, <1>5, <1>6 DEF Typed, RequestAt

(* A request for a segment or for the stack.                               *)
RequestOf(r, prog, ptr, stk) ==
  /\ Typed(r)
  /\ \/ RequestAt(r, stk, 0, STACK_SIZE)
     \/ \E seg \in Segments(prog) :
          /\ seg.p_offset \in Nat /\ seg.p_memsz \in Nat
          /\ RequestAt(r, ptr, seg.p_offset, seg.p_memsz)

(* The stack ends inside its pages.                                        *)
LEMMA StackInside ==
  /\ STACK_SIZE \in 0 .. (WORD - 1) /\ STACK_SIZE \in Nat
  /\ 0 + STACK_SIZE <= paging_align_address(STACK_SIZE)
<1> DEFINE P == PAGING_PAGE_SIZE
<1>1. P \in Nat \ {0} /\ PAGES \in Nat \ {0} /\ WORD \in Nat \ {0} /\ WORD = PAGES * P
  BY Sizes
<1>2. STACK_SIZE \in 1 .. (WORD - P)
  BY PagingAssumption
<1>3. STACK_SIZE \in 0 .. (WORD - 1) /\ STACK_SIZE \in Nat
  BY <1>1, <1>2
<1>4. PICK c \in 0 .. PAGES : /\ STACK_SIZE <= c * P /\ c * P < STACK_SIZE + P
                              /\ paging_align_address(STACK_SIZE) = IF c = PAGES THEN 0 ELSE c * P
  BY <1>3, AlignUp
<1>5. c # PAGES
  BY <1>1, <1>2, <1>4
<1> QED BY <1>3, <1>4, <1>5

(* All requests of process_map_memory are of these two kinds.              *)
LEMMA Requests ==
  ASSUME NEW prog \in Programs, NEW ptr \in Addresses, NEW stk \in Addresses
  PROVE  LET ranges == AllRequests(prog, ptr, stk)
         IN  /\ \E n \in Nat : DOMAIN ranges = 1 .. n
             /\ \A c \in DOMAIN ranges : RequestOf(ranges[c], prog, ptr, stk)
<1> DEFINE s == map_stack(stk)
           m == MapProgram(prog, ptr)
           ranges == AllRequests(prog, ptr, stk)
           G(r) == RequestOf(r, prog, ptr, stk)
<1>1. WORD \in Nat \ {0} /\ PAGING_PAGE_SIZE \in Nat \ {0}
  BY Sizes
<1>2. G(s[1])
  <2>1. STACK_SIZE \in 0 .. (WORD - 1) /\ STACK_VIRTUAL_END \in 0 .. (WORD - 1)
    BY StackInside, PagingAssumption DEF Word
  <2>2. s[1] = [virt |-> STACK_VIRTUAL_END, phys |-> stk,
                phys_end |-> paging_align_address((stk + STACK_SIZE) % WORD),
                flags |-> UserPage \cup {"WRITABLE"}]
    BY DEF map_stack
  <2>3. Typed(s[1]) /\ RequestAt(s[1], stk, 0, STACK_SIZE)
    BY <2>1, <2>2, WholeRange, Zenon
  <2> QED BY <2>3 DEF RequestOf
<1>3. \A k \in DOMAIN m : G(m[k])
  <2>1. CASE elf_validate_loaded(prog)
    <3>1. m = process_map_elf(prog, ptr)
      BY <2>1 DEF MapProgram
    <3>2. DOMAIN m = DOMAIN prog.headers
      BY <3>1, Zenon DEF process_map_elf
    <3>3. ASSUME NEW k \in DOMAIN prog.headers PROVE G(m[k])
      <4>1. Typed(m[k]) /\ RequestAt(m[k], ptr, prog.headers[k].p_offset, prog.headers[k].p_memsz)
        BY <3>1, HeaderRange, Zenon
      <4>2. prog.headers[k] \in Segments(prog)
        BY <2>1, Zenon DEF Range, Segments
      <4>3. prog.headers[k].p_offset \in Nat /\ prog.headers[k].p_memsz \in Nat
        <5>1. /\ prog.headers[k].p_offset \in 0 .. (WORD - 1)
              /\ prog.headers[k].p_memsz \in 0 .. (WORD - 1)
          BY ProgramFields
        <5> QED BY <1>1, <5>1
      <4> QED BY <4>1, <4>2, <4>3, Zenon DEF RequestOf
    <3> QED BY <3>2, <3>3, Zenon
  <2>2. CASE ~elf_validate_loaded(prog)
    <3>1. m = process_map_binary(prog, ptr)
      BY <2>2 DEF MapProgram
    <3>2. PROGRAM_VIRTUAL_ADDRESS \in 0 .. (WORD - 1) /\ prog.size \in 0 .. (WORD - 1)
      BY PagingAssumption, ProgramFields DEF Word
    <3>3. m[1] = [virt |-> PROGRAM_VIRTUAL_ADDRESS, phys |-> ptr,
                  phys_end |-> paging_align_address((ptr + prog.size) % WORD),
                  flags |-> UserPage \cup {"WRITABLE"}]
      BY <3>1 DEF process_map_binary
    <3>4. DOMAIN m = {1}
      BY <3>1 DEF process_map_binary
    <3>5. Typed(m[1]) /\ RequestAt(m[1], ptr, 0, prog.size)
      BY <3>2, <3>3, WholeRange, Zenon
    <3> DEFINE seg == [p_vaddr |-> PROGRAM_VIRTUAL_ADDRESS, p_offset |-> 0,
                       p_memsz |-> prog.size, writable |-> TRUE]
    <3>6. seg \in Segments(prog)
      BY <2>2 DEF Segments
    <3>7. seg.p_offset = 0 /\ seg.p_memsz = prog.size /\ prog.size \in Nat
      BY <1>1, <3>2
    <3> HIDE DEF seg, m
    <3>8. G(m[1])
      BY <3>5, <3>6, <3>7 DEF RequestOf
    <3> QED BY <3>4, <3>8
  <2> QED BY <2>1, <2>2
<1>4. PICK n \in Nat : InOrder(n, ranges, m, s[1])
  BY RequestList
<1> HIDE DEF m, s, ranges, G
<1>5. \A c \in DOMAIN ranges : G(ranges[c])
  <2> TAKE c \in DOMAIN ranges
  <2>1. c \in 1 .. n \/ c = n + 1
    BY <1>4 DEF InOrder
  <2> QED BY <1>2, <1>3, <1>4, <2>1 DEF InOrder
<1>6. n + 1 \in Nat /\ DOMAIN ranges = 1 .. (n + 1)
  BY <1>4 DEF InOrder
<1> QED BY <1>5, <1>6 DEF G, ranges

(* A request for bytes inside an allocation maps pages of it only.         *)
LEMMA RequestStays ==
  ASSUME NEW ptr \in Addresses, NEW n \in 0 .. (WORD - 1), PagesFor(ptr, n) \subseteq HeapPages,
         NEW x \in Nat, NEW y \in Nat, x + y <= paging_align_address(n),
         NEW r, Typed(r), RequestAt(r, ptr, x, y), NEW v \in Int, Maps(r, v)
  PROVE  EntryFor(r, v).page \in PagesFor(ptr, n)
<1> DEFINE P == PAGING_PAGE_SIZE
           phys == (ptr + x) % WORD
           k == StepOf(r, v)
<1>1. PICK a \in 1 .. (PAGES - 1), l \in Nat :
        /\ ptr = a * P /\ paging_align_address(n) = l * P
        /\ a + l <= PAGES /\ PagesFor(ptr, n) = a .. (a + l - 1)
  BY RunOfPages
<1>2. P \in Nat \ {0} /\ PAGES \in Nat \ {0} /\ WORD \in Nat \ {0}
  BY Sizes
<1>3. r.phys = paging_align_to_lower_page(phys) /\ r.phys_end = paging_align_address((phys + y) % WORD)
  BY DEF RequestAt
<1>4. phys \in 0 .. (WORD - 1) /\ phys \in Nat
  BY AddressIsWord, SumIsWord
<1> HIDE DEF phys
<1>5. r.phys \in Int /\ r.phys_end \in Int
  <2>1. PICK q \in PageNumbers : r.phys = q * P
    BY <1>3, <1>4, AlignDown
  <2>2. (phys + y) % WORD \in 0 .. (WORD - 1)
    BY <1>4, SumIsWord
  <2> DEFINE w == (phys + y) % WORD
  <2> HIDE DEF w
  <2>3. w \in 0 .. (WORD - 1) /\ r.phys_end = paging_align_address(w)
    BY <1>3, <2>2 DEF w
  <2>4. PageOf(r.phys_end) \in PageNumbers /\ r.phys_end = PageOf(r.phys_end) * P
    BY <2>3, SizeInPages
  <2> DEFINE e == PageOf(r.phys_end)
  <2> HIDE DEF e
  <2>5. e \in PageNumbers /\ r.phys_end = e * P
    BY <2>4 DEF e
  <2> QED BY <1>2, <2>1, <2>5 DEF PageNumbers
<1>6. r.phys <= r.phys_end /\ k < (r.phys_end - r.phys) \div P
  BY <1>5 DEF Maps, Refused, total_pages
<1>7. k \in Nat
  <2> DEFINE w == v - PageOf(r.virt)
  <2>1. w \in Int
    BY DEF Typed
  <2> HIDE DEF w
  <2>2. w % PAGES \in Nat
    BY <1>2, <2>1
  <2> QED BY <2>2 DEF StepOf, w
<1> HIDE DEF k, P
<1>8. phys = (a * P + x) % WORD /\ x + y <= l * P
  BY <1>1 DEF phys
<1>9. (PageOf(r.phys) + k) % PAGES \in a .. (a + l - 1)
  <2> DEFINE low == r.phys
             end == r.phys_end
  <2>1. /\ low = paging_align_to_lower_page(phys) /\ end = paging_align_address((phys + y) % WORD)
        /\ low <= end /\ k < (end - low) \div P
    BY <1>3, <1>6
  <2> HIDE DEF low, end
  <2>2. (PageOf(low) + k) % PAGES \in a .. (a + l - 1)
    BY <1>1, <1>7, <1>8, <2>1, MapsInside, Zenon DEF P
  <2> QED BY <2>2 DEF low
<1> QED BY <1>1, <1>9 DEF EntryFor, k

(* What a load maps is a directory.                                        *)
LEMMA LoadedDirectory ==
  ASSUME NEW prog \in Programs, NEW ptr \in Addresses, NEW stk \in Addresses
  PROVE  process_map_memory(prog, ptr, stk) \in Directory
<1> DEFINE ranges == AllRequests(prog, ptr, stk)
<1>1. process_map_memory(prog, ptr, stk) = paging_map_to(paging_new_4gb(UserPage), ranges)
  BY DEF process_map_memory, MapProgram, AllRequests
<1>2. /\ \E n \in Nat : DOMAIN ranges = 1 .. n
      /\ \A c \in DOMAIN ranges : RequestOf(ranges[c], prog, ptr, stk)
  BY Requests, Zenon
<1> HIDE DEF ranges
<1>3. PICK n \in Nat : DOMAIN ranges = 1 .. n
  BY <1>2
<1>4. \A c \in 1 .. n : /\ ranges[c].flags \in SUBSET PageFlags
                        /\ PageOf(ranges[c].phys) \in Nat
                        /\ PageOf(ranges[c].virt) \in Int
  BY <1>2, <1>3 DEF RequestOf, Typed
<1>5. paging_map_to(paging_new_4gb(UserPage), ranges) \in Directory
  BY <1>3, <1>4, FreshDirectory, MapToType, Zenon
<1> QED BY <1>1, <1>5

(* The writable entries of a directory lie in a set of pages.              *)
WritableIn(dir, pages) ==
  \A i \in 0 .. (TABLES - 1), b \in 0 .. (ENTRIES - 1) :
     "WRITABLE" \in dir[i][b].flags => dir[i][b].page \in pages

(* A program whose segments lie inside its file can write to the pages of  *)
(* the file and of the stack only.                                         *)
LEMMA LoadedWritesOwn ==
  ASSUME NEW prog \in Programs, NEW ptr \in Addresses, NEW stk \in Addresses,
         InsideImage(prog),
         PagesFor(ptr, prog.size) \subseteq HeapPages,
         PagesFor(stk, STACK_SIZE) \subseteq HeapPages
  PROVE  WritableIn(process_map_memory(prog, ptr, stk),
                    PagesFor(ptr, prog.size) \cup PagesFor(stk, STACK_SIZE))
<1> DEFINE ranges == AllRequests(prog, ptr, stk)
           new == paging_new_4gb(UserPage)
<1>1. process_map_memory(prog, ptr, stk) = paging_map_to(new, ranges)
  BY DEF process_map_memory, MapProgram, AllRequests
<1>2. /\ \E n \in Nat : DOMAIN ranges = 1 .. n
      /\ \A c \in DOMAIN ranges : RequestOf(ranges[c], prog, ptr, stk)
  BY Requests, Zenon
<1> HIDE DEF ranges, new
<1>3. MappedOrKept(new, ranges)
  BY <1>2, MapTo, Zenon
<1>4. SUFFICES ASSUME NEW i \in 0 .. (TABLES - 1), NEW b \in 0 .. (ENTRIES - 1),
                      "WRITABLE" \in paging_map_to(new, ranges)[i][b].flags
               PROVE  paging_map_to(new, ranges)[i][b].page
                        \in PagesFor(ptr, prog.size) \cup PagesFor(stk, STACK_SIZE)
  BY <1>1 DEF WritableIn
<1>5. paging_map_to(new, ranges)[i][b] # new[i][b]
  <2>1. new[i][b].flags = UserPage
    BY DEF new, paging_new_4gb
  <2>2. "WRITABLE" \notin UserPage
    BY DEF UserPage
  <2> QED BY <1>4, <2>1, <2>2
<1> DEFINE v == i * ENTRIES + b
<1>6. PICK c \in DOMAIN ranges :
        Maps(ranges[c], v) /\ paging_map_to(new, ranges)[i][b] = EntryFor(ranges[c], v)
  BY <1>3, <1>5, Zenon DEF MappedOrKept
<1>7. v \in Int
  <2>1. PAGES \in Nat
    BY Sizes
  <2> QED BY <2>1, PageInTable DEF PageNumbers
<1> DEFINE r == ranges[c]
<1>8. Typed(r) /\ RequestOf(r, prog, ptr, stk) /\ Maps(r, v)
  BY <1>2, <1>6 DEF RequestOf
<1> HIDE DEF r, v
<1>9. EntryFor(r, v).page \in PagesFor(ptr, prog.size) \cup PagesFor(stk, STACK_SIZE)
  <2>1. CASE RequestAt(r, stk, 0, STACK_SIZE)
    <3>1. EntryFor(r, v).page \in PagesFor(stk, STACK_SIZE)
      BY <1>7, <1>8, <2>1, StackInside, RequestStays
    <3> QED BY <3>1
  <2>2. CASE \E seg \in Segments(prog) :
               /\ seg.p_offset \in Nat /\ seg.p_memsz \in Nat
               /\ RequestAt(r, ptr, seg.p_offset, seg.p_memsz)
    <3>1. PICK seg \in Segments(prog) :
               /\ seg.p_offset \in Nat /\ seg.p_memsz \in Nat
               /\ RequestAt(r, ptr, seg.p_offset, seg.p_memsz)
      BY <2>2
    <3>2. seg.p_offset + seg.p_memsz <= paging_align_address(prog.size)
      BY <3>1 DEF InsideImage
    <3>3. prog.size \in 0 .. (WORD - 1)
      BY ProgramFields
    <3>4. EntryFor(r, v).page \in PagesFor(ptr, prog.size)
      BY <1>7, <1>8, <3>1, <3>2, <3>3, RequestStays
    <3> QED BY <3>4
  <2> QED BY <1>8, <2>1, <2>2 DEF RequestOf
<1> QED BY <1>6, <1>9 DEF r

-----------------------------------------------------------------------------
(* Segments in their place.                                                *)

(* The pages that a request for y bytes at address X maps are those the    *)
(* bytes at virt cover, each as far from its page as X is from virt.       *)
LEMMA SegmentPages ==
  ASSUME NEW virt \in 0 .. (WORD - 1), NEW X \in Nat, NEW y \in Nat,
         PAGING_PAGE_SIZE <= X, X + y < WORD, virt + y <= WORD,
         virt % PAGING_PAGE_SIZE = X % PAGING_PAGE_SIZE,
         NEW r, r.virt = paging_align_to_lower_page(virt),
         r.phys = paging_align_to_lower_page(X), r.phys_end = paging_align_address(X + y),
         ~Refused(r),
         NEW v \in PageNumbers
  PROVE  /\ Maps(r, v) <=> Covers(virt, y, v)
         /\ Maps(r, v) => /\ EntryFor(r, v).page \in Int
                          /\ EntryFor(r, v).page * PAGING_PAGE_SIZE
                               = v * PAGING_PAGE_SIZE + (X - virt)
<1> DEFINE P == PAGING_PAGE_SIZE
<1>1. P \in Nat \ {0} /\ PAGES \in Nat \ {0} /\ WORD \in Nat \ {0} /\ WORD = PAGES * P
  BY Sizes
<1>2. v \in Nat /\ v < PAGES /\ virt \in Nat /\ X \in 0 .. (WORD - 1) /\ X + y \in 0 .. (WORD - 1)
  BY <1>1 DEF PageNumbers
<1>3. PICK a \in PageNumbers : r.virt = a * P /\ a * P <= virt /\ virt < a * P + P
  BY AlignDown
<1>4. PICK q \in PageNumbers : r.phys = q * P /\ q * P <= X /\ X < q * P + P
  BY <1>2, AlignDown
<1>5. PICK c \in 0 .. PAGES :
        /\ X + y <= c * P /\ c * P < X + y + P
        /\ r.phys_end = IF c = PAGES THEN 0 ELSE c * P
  <2> DEFINE n == X + y
  <2> HIDE DEF n
  <2>1. n \in 0 .. (WORD - 1) /\ r.phys_end = paging_align_address(n)
    BY <1>2 DEF n
  <2>2. \E c \in 0 .. PAGES : /\ n <= c * P /\ c * P < n + P
                              /\ paging_align_address(n) = IF c = PAGES THEN 0 ELSE c * P
    BY <2>1, AlignUp
  <2> QED BY <2>1, <2>2 DEF n
<1>6. a \in Nat /\ a < PAGES /\ q \in Nat /\ q < PAGES /\ c \in Nat /\ c <= PAGES
  BY <1>1 DEF PageNumbers
<1> DEFINE A == a * P
           Q == q * P
           C == c * P
           V == v * P
<1>7. A \in Int /\ Q \in Int /\ C \in Int /\ V \in Int
  BY <1>1, <1>2, <1>6
<1>8. virt - A = X - Q
  BY <1>1, <1>2, <1>3, <1>4 DEF paging_align_to_lower_page
<1>9. 0 < Q
  <2>1. 0 < q
    BY <1>1, <1>2, <1>4, <1>6
  <2>2. 1 * P <= Q
    BY <1>1, <1>6, <2>1, Scaled
  <2> QED BY <1>1, <1>7, <2>2
<1>10. r.phys_end = C /\ Q <= C
  BY <1>4, <1>5, <1>7, <1>9 DEF Refused
<1> DEFINE l == c - q
<1>11. q <= c /\ l \in Nat /\ l * P = C - Q
  <2>1. q <= c
    <3>1. q * P < c * P => q < c
      BY <1>1, <1>6, Scaled
    <3>2. c < q => c * P + P <= q * P
      BY <1>1, <1>6, Scaled
    <3> QED BY <1>1, <1>6, <1>7, <1>10, <3>2
  <2> QED BY <1>1, <1>6, <2>1
<1>12. total_pages(r) = l
  <2>1. (l * P + 0) \div P = l /\ l * P + 0 = C - Q
    <3> HIDE DEF l, C, Q
    <3>1. l * P + 0 = C - Q
      BY <1>7, <1>11
    <3>2. (l * P + 0) \div P = l
      BY <1>1, <1>11, DivModOf
    <3> QED BY <3>1, <3>2
  <2> QED BY <1>4, <1>10, <2>1 DEF total_pages
<1>13. PageOf(r.virt) = a /\ PageOf(r.phys) = q
  BY <1>3, <1>4, PageAddress
<1>14. q + l = c /\ a + l <= PAGES
  <2>1. q + l = c
    BY <1>6
  <2>2. (a + l) * P = A + l * P
    BY <1>1, <1>6, <1>11
  <2>3. (PAGES + 1) * P = WORD + P
    BY <1>1
  <2>4. (a + l) * P < (PAGES + 1) * P => a + l < PAGES + 1
    BY <1>1, <1>6, <1>11, Scaled
  <2> HIDE DEF l
  <2>5. (a + l) * P < (PAGES + 1) * P
    <3> HIDE DEF A, Q, C
    <3>1. A + (C - Q) < WORD + P
      BY <1>1, <1>2, <1>5, <1>7, <1>8 DEF C
    <3> QED BY <1>11, <2>2, <2>3, <3>1
  <2> QED BY <1>1, <1>6, <1>11, <2>1, <2>4, <2>5
<1> HIDE DEF l
<1>15. virt < (v + 1) * P <=> a <= v
  <2>1. (v + 1) * P = V + P
    BY <1>1, <1>2
  <2>2. a <= v => A <= V
    BY <1>1, <1>2, <1>6, Scaled
  <2>3. v < a => V + P <= A
    BY <1>1, <1>2, <1>6, Scaled
  <2> HIDE DEF A, V
  <2> QED BY <1>1, <1>2, <1>3, <1>6, <1>7, <2>1, <2>2, <2>3 DEF A
<1>16. V < virt + y <=> v < a + l
  <2>1. (a + l) * P = A + (C - Q)
    BY <1>1, <1>6, <1>11
  <2>2. (a + l <= v => (a + l) * P <= V) /\ (v < a + l => V + P <= (a + l) * P)
    BY <1>1, <1>2, <1>6, <1>11, Scaled
  <2> HIDE DEF A, Q, C, V
  <2>3. a + l <= v => virt + y <= V
    BY <1>2, <1>5, <1>7, <1>8, <2>1, <2>2 DEF C
  <2>4. v < a + l => V < virt + y
    BY <1>1, <1>2, <1>5, <1>7, <1>8, <2>1, <2>2 DEF C
  <2> QED BY <1>2, <1>6, <1>7, <1>11, <2>3, <2>4
<1>17. Maps(r, v) <=> (v - a) % PAGES < l
  BY <1>12, <1>13 DEF Maps, StepOf
<1>18. CASE a <= v
  <2>1. (v - a) % PAGES = v - a
    BY <1>1, <1>2, <1>6, <1>18
  <2>2. Maps(r, v) <=> Covers(virt, y, v)
    BY <1>2, <1>6, <1>11, <1>15, <1>16, <1>17, <1>18, <2>1 DEF Covers
  <2>3. ASSUME Maps(r, v)
        PROVE  EntryFor(r, v).page = q + (v - a)
    <3>1. q + (v - a) < PAGES /\ q + (v - a) \in Nat
      BY <1>1, <1>2, <1>6, <1>11, <1>14, <1>17, <1>18, <2>1, <2>3
    <3>2. (q + (v - a)) % PAGES = q + (v - a)
      BY <1>1, <3>1
    <3> QED BY <1>13, <2>1, <3>2 DEF EntryFor, StepOf
  <2>4. (q + (v - a)) * P = Q + (V - A) /\ q + (v - a) \in Int
    BY <1>1, <1>2, <1>6
  <2>5. Q + (V - A) = V + (X - virt)
    <3> HIDE DEF A, Q, V
    <3> QED BY <1>2, <1>7, <1>8
  <2> QED BY <2>2, <2>3, <2>4, <2>5
<1>19. CASE v < a
  <2> DEFINE w == (v - a) + PAGES
  <2>1. w \in 0 .. (PAGES - 1) /\ v - a = w - PAGES
    BY <1>1, <1>2, <1>6, <1>19
  <2>2. (v - a) % PAGES = w
    <3> HIDE DEF w
    <3>1. (w - PAGES) % PAGES = w
      BY <1>1, <2>1
    <3> QED BY <2>1, <3>1
  <2>3. l <= w
    BY <1>1, <1>2, <1>6, <1>11, <1>14
  <2>4. ~Maps(r, v)
    BY <1>1, <1>11, <1>17, <2>1, <2>2, <2>3
  <2> QED BY <1>2, <1>6, <1>15, <1>19, <2>4 DEF Covers
<1> QED BY <1>2, <1>6, <1>18, <1>19

(* Of several requests that map a page, a later one gives its entry.       *)
LEMMA MapToLast ==
  ASSUME NEW n \in Nat, NEW dir, NEW ranges, DOMAIN ranges = 1 .. n,
         NEW i \in 0 .. (TABLES - 1), NEW b \in 0 .. (ENTRIES - 1),
         NEW c \in 1 .. n, Maps(ranges[c], i * ENTRIES + b)
  PROVE  \E m \in c .. n : /\ Maps(ranges[m], i * ENTRIES + b)
                           /\ paging_map_to(dir, ranges)[i][b]
                                = EntryFor(ranges[m], i * ENTRIES + b)
<1> DEFINE v == i * ENTRIES + b
           mapping == {k \in DOMAIN ranges : Maps(ranges[k], v)}
           m == Max(mapping)
<1>1. paging_map_to(dir, ranges)[i][b] =
        IF mapping = {} THEN dir[i][b] ELSE EntryFor(ranges[m], v)
  BY Zenon DEF paging_map_to
<1>2. mapping \in SUBSET (1 .. n) /\ c \in mapping
  OBVIOUS
<1>3. m \in mapping /\ c <= m
  <2> HIDE DEF mapping
  <2> QED BY <1>2, MaxOfBounded
<1>4. m \in c .. n /\ Maps(ranges[m], v)
  BY <1>3
<1>5. paging_map_to(dir, ranges)[i][b] = EntryFor(ranges[m], v)
  BY <1>1, <1>2, Zenon
<1> QED BY <1>4, <1>5, Zenon

(* The entry of an address is that of its page.                            *)
LEMMA EntryOfAddress ==
  ASSUME NEW x \in 0 .. (WORD - 1)
  PROVE  \E i \in 0 .. (TABLES - 1), b \in 0 .. (ENTRIES - 1) :
           /\ i * ENTRIES + b \in PageNumbers
           /\ (i * ENTRIES + b) * PAGING_PAGE_SIZE <= x
           /\ x < (i * ENTRIES + b) * PAGING_PAGE_SIZE + PAGING_PAGE_SIZE
           /\ x % PAGING_PAGE_SIZE = x - (i * ENTRIES + b) * PAGING_PAGE_SIZE
           /\ \A dir : paging_get(dir, paging_align_to_lower_page(x)) = dir[i][b]
<1> DEFINE P == PAGING_PAGE_SIZE
<1>1. PICK v \in PageNumbers : /\ paging_align_to_lower_page(x) = v * P
                               /\ v * P <= x /\ x < v * P + P
  BY AlignDown
<1> DEFINE i == paging_get_indexes(v * P).directory
           b == paging_get_indexes(v * P).table
<1>2. i \in 0 .. (TABLES - 1) /\ b \in 0 .. (ENTRIES - 1) /\ v = i * ENTRIES + b
  BY IndexesOfPage
<1>3. \A dir : paging_get(dir, paging_align_to_lower_page(x)) = dir[i][b]
  BY <1>1 DEF paging_get
<1>4. x % P = x - v * P
  <2>1. P \in Nat \ {0} /\ WORD \in Nat /\ PAGES \in Nat
    BY Sizes
  <2>2. v \in Nat /\ v * P \in Int /\ x \in Nat /\ x % P \in Int
    BY <2>1 DEF PageNumbers
  <2>3. v * P = x - (x % P)
    BY <1>1 DEF paging_align_to_lower_page
  <2> QED BY <2>2, <2>3
<1> HIDE DEF i, b
<1>5. /\ i * ENTRIES + b \in PageNumbers
      /\ (i * ENTRIES + b) * P <= x
      /\ x < (i * ENTRIES + b) * P + P
      /\ x % P = x - (i * ENTRIES + b) * P
  BY <1>1, <1>2, <1>4
<1> QED BY <1>2, <1>3, <1>5, Zenon DEF P

(* What a segment is mapped with.                                          *)
ForSegment(r, virt, x, y, ptr, writable) ==
  /\ r.virt = paging_align_to_lower_page(virt)
  /\ r.phys = paging_align_to_lower_page((ptr + x) % WORD)
  /\ r.phys_end = paging_align_address((((ptr + x) % WORD) + y) % WORD)
  /\ r.flags = IF writable THEN UserPage \cup {"WRITABLE"} ELSE UserPage

(* The fields of a segment.                                                *)
LEMMA SegmentFields ==
  ASSUME NEW prog \in Programs, NEW seg \in Segments(prog)
  PROVE  /\ seg.p_vaddr \in 0 .. (WORD - 1) /\ seg.p_offset \in 0 .. (WORD - 1)
         /\ seg.p_memsz \in 0 .. (WORD - 1) /\ seg.writable \in BOOLEAN
<1>0. WORD \in Nat \ {0}
  BY Sizes
<1>1. CASE elf_validate_loaded(prog)
  <2>1. seg \in Range(prog.headers)
    BY <1>1 DEF Segments
  <2>2. PICK k \in DOMAIN prog.headers : seg = prog.headers[k]
    BY <2>1, Zenon DEF Range
  <2>3. prog \in Program
    BY PagingAssumption
  <2> DEFINE H == [p_type : Word, p_vaddr : Word, p_offset : Word,
                   p_filesz : Word, p_memsz : Word, writable : BOOLEAN]
  <2>4. prog.headers \in Seq(H)
    BY <2>3 DEF Program
  <2>5. \A h \in H : h.writable \in BOOLEAN
    OBVIOUS
  <2> HIDE DEF H
  <2>6. seg \in H
    BY <2>2, <2>4
  <2> QED BY <2>2, <2>5, <2>6, ProgramFields
<1>2. CASE ~elf_validate_loaded(prog)
  <2>1. seg = [p_vaddr |-> PROGRAM_VIRTUAL_ADDRESS, p_offset |-> 0,
               p_memsz |-> prog.size, writable |-> TRUE]
    BY <1>2 DEF Segments
  <2>2. PROGRAM_VIRTUAL_ADDRESS \in 0 .. (WORD - 1) /\ 0 \in 0 .. (WORD - 1)
    BY <1>0, PagingAssumption DEF Word
  <2> QED BY <2>1, <2>2, ProgramFields
<1> QED BY <1>1, <1>2

(* An aligned address is its page's.                                       *)
LEMMA AlignedIsLower ==
  ASSUME NEW x \in 0 .. (WORD - 1), x % PAGING_PAGE_SIZE = 0
  PROVE  paging_align_to_lower_page(x) = x
<1>1. x \in Nat
  BY Sizes
<1> QED BY <1>1 DEF paging_align_to_lower_page

(* Each segment has its request and each request its segment.              *)
LEMMA SegmentRequests ==
  ASSUME NEW prog \in Programs, NEW ptr \in Addresses
  PROVE  /\ \A c \in DOMAIN MapProgram(prog, ptr) : \E seg \in Segments(prog) :
              ForSegment(MapProgram(prog, ptr)[c], seg.p_vaddr, seg.p_offset, seg.p_memsz,
                         ptr, seg.writable)
         /\ \A seg \in Segments(prog) : \E c \in DOMAIN MapProgram(prog, ptr) :
              ForSegment(MapProgram(prog, ptr)[c], seg.p_vaddr, seg.p_offset, seg.p_memsz,
                         ptr, seg.writable)
<1> DEFINE m == MapProgram(prog, ptr)
           For(r, seg) == ForSegment(r, seg.p_vaddr, seg.p_offset, seg.p_memsz, ptr, seg.writable)
<1>1. CASE elf_validate_loaded(prog)
  <2>1. m = process_map_elf(prog, ptr) /\ Segments(prog) = Range(prog.headers)
    BY <1>1 DEF MapProgram, Segments
  <2>2. DOMAIN m = DOMAIN prog.headers
    BY <2>1, Zenon DEF process_map_elf
  <2>3. \A c \in DOMAIN prog.headers : For(m[c], prog.headers[c])
    <3> TAKE c \in DOMAIN prog.headers
    <3>1. m[c] = [virt |-> paging_align_to_lower_page(prog.headers[c].p_vaddr),
                  phys |-> paging_align_to_lower_page((ptr + prog.headers[c].p_offset) % WORD),
                  phys_end |-> paging_align_address((((ptr + prog.headers[c].p_offset) % WORD)
                                                     + prog.headers[c].p_memsz) % WORD),
                  flags |-> IF prog.headers[c].writable THEN UserPage \cup {"WRITABLE"}
                            ELSE UserPage]
      BY <2>1, Zenon DEF process_map_elf
    <3> QED BY <3>1 DEF ForSegment
  <2>4. \A c \in DOMAIN prog.headers : prog.headers[c] \in Segments(prog)
    BY <2>1, Zenon DEF Range
  <2>5. \A seg \in Segments(prog) : \E c \in DOMAIN prog.headers : seg = prog.headers[c]
    BY <2>1, Zenon DEF Range
  <2> HIDE DEF m, For
  <2>6. /\ \A c \in DOMAIN m : \E seg \in Segments(prog) : For(m[c], seg)
        /\ \A seg \in Segments(prog) : \E c \in DOMAIN m : For(m[c], seg)
    BY <2>2, <2>3, <2>4, <2>5, Zenon
  <2> QED BY <2>6 DEF m, For
<1>2. CASE ~elf_validate_loaded(prog)
  <2> DEFINE seg == [p_vaddr |-> PROGRAM_VIRTUAL_ADDRESS, p_offset |-> 0,
                     p_memsz |-> prog.size, writable |-> TRUE]
  <2>1. m = process_map_binary(prog, ptr) /\ Segments(prog) = {seg}
    BY <1>2 DEF MapProgram, Segments
  <2>2. DOMAIN m = {1}
    BY <2>1 DEF process_map_binary
  <2>3. m[1] = [virt |-> PROGRAM_VIRTUAL_ADDRESS, phys |-> ptr,
                phys_end |-> paging_align_address((ptr + prog.size) % WORD),
                flags |-> UserPage \cup {"WRITABLE"}]
    BY <2>1 DEF process_map_binary
  <2>4. paging_align_to_lower_page(PROGRAM_VIRTUAL_ADDRESS) = PROGRAM_VIRTUAL_ADDRESS
    <3>1. /\ PROGRAM_VIRTUAL_ADDRESS \in 0 .. (WORD - 1)
          /\ PROGRAM_VIRTUAL_ADDRESS % PAGING_PAGE_SIZE = 0
      BY PagingAssumption DEF Word
    <3> QED BY <3>1, AlignedIsLower
  <2>5. (ptr + 0) % WORD = ptr /\ paging_align_to_lower_page(ptr) = ptr
    <3>1. WORD \in Nat \ {0}
      BY Sizes
    <3>2. ptr \in 0 .. (WORD - 1) /\ paging_align_to_lower_page(ptr) = ptr
      BY AddressIsWord
    <3> QED BY <3>1, <3>2
  <2>6. For(m[1], seg)
    <3>1. /\ seg.p_vaddr = PROGRAM_VIRTUAL_ADDRESS /\ seg.p_offset = 0
          /\ seg.p_memsz = prog.size /\ seg.writable = TRUE
      OBVIOUS
    <3> HIDE DEF seg, m
    <3>2. /\ m[1].virt = PROGRAM_VIRTUAL_ADDRESS /\ m[1].phys = ptr
          /\ m[1].phys_end = paging_align_address((ptr + prog.size) % WORD)
          /\ m[1].flags = UserPage \cup {"WRITABLE"}
      BY <2>3
    <3> QED BY <2>4, <2>5, <3>1, <3>2, Zenon DEF ForSegment
  <2> HIDE DEF m, For, seg
  <2>7. /\ \A c \in DOMAIN m : \E s \in Segments(prog) : For(m[c], s)
        /\ \A s \in Segments(prog) : \E c \in DOMAIN m : For(m[c], s)
    BY <2>1, <2>2, <2>6
  <2> QED BY <2>7 DEF m, For
<1> QED BY <1>1, <1>2

(* A size that fits in memory is in whole pages no less.                   *)
LEMMA SizeRoundsUp ==
  ASSUME NEW n \in 0 .. (WORD - 1), n <= WORD - PAGING_PAGE_SIZE
  PROVE  n <= paging_align_address(n)
<1> DEFINE P == PAGING_PAGE_SIZE
<1>1. P \in Nat \ {0} /\ PAGES \in Nat \ {0} /\ WORD \in Nat \ {0} /\ WORD = PAGES * P
  BY Sizes
<1>2. PICK c \in 0 .. PAGES : /\ n <= c * P /\ c * P < n + P
                              /\ paging_align_address(n) = IF c = PAGES THEN 0 ELSE c * P
  BY AlignUp
<1>3. c # PAGES
  BY <1>1, <1>2
<1> QED BY <1>2, <1>3

(* An allocation ends before the last page, so the mapping of all of it is *)
(* not refused.                                                            *)
LEMMA WholeNotRefused ==
  ASSUME NEW ptr \in Addresses, NEW n \in 0 .. (WORD - 1), PagesFor(ptr, n) \subseteq HeapPages,
         n <= WORD - PAGING_PAGE_SIZE,
         NEW r, r.virt \in 0 .. (WORD - 1), r.virt % PAGING_PAGE_SIZE = 0, r.phys = ptr,
         r.phys_end = paging_align_address((ptr + n) % WORD)
  PROVE  ptr + n < WORD /\ PAGING_PAGE_SIZE <= ptr /\ ~Refused(r)
<1> DEFINE P == PAGING_PAGE_SIZE
<1>1. P \in Nat \ {0} /\ PAGES \in Nat \ {0} /\ WORD \in Nat \ {0} /\ WORD = PAGES * P
      /\ HeapPages \subseteq 1 .. (PAGES - 2)
  BY Sizes
<1>2. PICK a \in 1 .. (PAGES - 1), l \in Nat :
         /\ ptr = a * P /\ paging_align_address(n) = l * P
         /\ a + l <= PAGES /\ PagesFor(ptr, n) = a .. (a + l - 1)
  BY RunOfPages
<1>3. n <= l * P
  BY <1>2, SizeRoundsUp
<1>4. a + l < PAGES
  <2>1. CASE l = 0
    BY <1>1, <1>2, <2>1
  <2>2. CASE l # 0
    <3>1. a + l - 1 \in a .. (a + l - 1)
      BY <1>1, <1>2, <2>2
    <3>2. a + l - 1 \in 1 .. (PAGES - 2)
      BY <1>1, <1>2, <3>1
    <3> QED BY <1>1, <1>2, <3>2
  <2> QED BY <2>1, <2>2
<1>5. /\ (a + l) * P = a * P + l * P
      /\ (a + l) * P + P <= WORD
      /\ a * P \in Int /\ l * P \in Int /\ P <= a * P
  <2>1. (a + l) * P = a * P + l * P /\ a * P \in Int /\ l * P \in Int
    BY <1>1, <1>2
  <2>2. a + l \in Int /\ PAGES \in Int /\ 1 \in Int /\ a \in Int
    BY <1>1, <1>2
  <2>3. (a + l) * P + P <= PAGES * P
    BY <1>1, <1>4, <2>2, Scaled
  <2>4. 1 * P <= a * P
    BY <1>1, <1>2, <2>2, Scaled
  <2> QED BY <1>1, <2>1, <2>3, <2>4
<1> DEFINE A == a * P
           L == l * P
           x == ptr + n
<1> HIDE DEF A, L, x
<1>6. x = A + n /\ n \in Nat /\ n <= L /\ A + L + P <= WORD /\ A \in Int /\ L \in Int /\ P <= A
  BY <1>1, <1>2, <1>3, <1>5 DEF x, A, L
<1>7. x \in 0 .. (WORD - 1) /\ x + P <= WORD /\ x % WORD = x
  BY <1>1, <1>6
<1>8. PICK c \in 0 .. PAGES : /\ x <= c * P /\ c * P < x + P
                              /\ paging_align_address(x) = IF c = PAGES THEN 0 ELSE c * P
  BY <1>7, AlignUp
<1>9. c # PAGES
  BY <1>1, <1>7, <1>8
<1>10. c \in PageNumbers /\ r.phys_end = c * P
  BY <1>1, <1>7, <1>8, <1>9 DEF PageNumbers, x
<1>11. r.phys_end % P = 0 /\ ptr % P = 0
  <2>1. a \in PageNumbers
    BY <1>1, <1>2 DEF PageNumbers
  <2> QED BY <1>2, <1>10, <2>1, PageAddress
<1>12. ptr <= r.phys_end /\ ptr < WORD /\ c * P \in Int /\ ptr \in Int
  <2>1. c * P \in Int
    BY <1>1, <1>10 DEF PageNumbers
  <2> QED BY <1>1, <1>2, <1>6, <1>7, <1>8, <1>10, <2>1 DEF A
<1>13. ~Refused(r)
  <2>1. ~(r.phys_end < r.phys)
    BY <1>10, <1>12
  <2> QED BY <1>11, <2>1 DEF Refused, paging_is_aligned
<1> QED BY <1>1, <1>2, <1>6, <1>7, <1>13 DEF A, x

(* No address of the heap is in the first page.                            *)
LEMMA AddressNotFirst ==
  ASSUME NEW ptr \in Addresses
  PROVE  PAGING_PAGE_SIZE <= ptr
<1>1. PICK a \in 1 .. (PAGES - 1) : ptr = a * PAGING_PAGE_SIZE
  BY HeapAddress
<1>2. PAGING_PAGE_SIZE \in Nat \ {0} /\ a \in Int /\ 1 <= a /\ 1 \in Int
  BY Sizes
<1>3. 1 * PAGING_PAGE_SIZE <= a * PAGING_PAGE_SIZE
  BY <1>2, Scaled
<1> QED BY <1>1, <1>2, <1>3

(* The request of a segment maps the pages the segment covers.             *)
LEMMA SegmentMapped ==
  ASSUME NEW ptr \in Addresses,
         NEW virt \in 0 .. (WORD - 1), NEW x \in 0 .. (WORD - 1), NEW y \in 0 .. (WORD - 1),
         NEW writable, NEW r, ForSegment(r, virt, x, y, ptr, writable), ~Refused(r),
         virt % PAGING_PAGE_SIZE = x % PAGING_PAGE_SIZE, virt + y <= WORD,
         ptr + x + y < WORD,
         NEW v \in PageNumbers
  PROVE  /\ Maps(r, v) <=> Covers(virt, y, v)
         /\ Maps(r, v) => /\ EntryFor(r, v).page \in Int
                          /\ EntryFor(r, v).page * PAGING_PAGE_SIZE
                               = v * PAGING_PAGE_SIZE + ((ptr + x) - virt)
                          /\ EntryFor(r, v).flags = r.flags
<1> DEFINE P == PAGING_PAGE_SIZE
           X == ptr + x
<1>1. P \in Nat \ {0} /\ WORD \in Nat \ {0}
  BY Sizes
<1>2. ptr \in Nat /\ P <= ptr /\ x \in Nat /\ y \in Nat
  BY <1>1, AddressIsWord, AddressNotFirst
<1>3. X \in Nat /\ P <= X /\ X + y < WORD /\ X < WORD /\ X + y \in Nat
  BY <1>1, <1>2
<1>4. X % P = x % P
  <2>1. PICK p \in PageNumbers : ptr = p * P
    BY HeapAddress
  <2>2. p \in Nat
    BY <2>1, Sizes DEF PageNumbers
  <2> DEFINE q == x \div P
             s == x % P
  <2>3. s \in 0 .. (P - 1) /\ q \in Nat /\ x = q * P + s
    BY <1>1, <1>2, DivMod, Zenon
  <2> HIDE DEF q, s
  <2>4. X = (p + q) * P + s /\ p + q \in Nat
    <3>1. (p + q) * P = p * P + q * P /\ p * P \in Int /\ q * P \in Int
      BY <1>1, <2>2, <2>3
    <3>2. s \in Int
      BY <1>1, <2>3
    <3> QED BY <2>1, <2>2, <2>3, <3>1, <3>2
  <2> DEFINE z == p + q
  <2>5. z \in Nat /\ X = z * P + s
    BY <2>4
  <2> HIDE DEF z, X
  <2>6. (z * P + s) % P = s
    BY <1>1, <2>3, <2>5, DivModOf
  <2> QED BY <2>5, <2>6 DEF s
<1> HIDE DEF X
<1>5. X % WORD = X /\ (X + y) % WORD = X + y
  BY <1>1, <1>3
<1>6. /\ r.virt = paging_align_to_lower_page(virt)
      /\ r.phys = paging_align_to_lower_page(X)
      /\ r.phys_end = paging_align_address(X + y)
  BY <1>5, Zenon DEF ForSegment, X
<1>7. virt % P = X % P
  BY <1>4
<1>8. /\ Maps(r, v) <=> Covers(virt, y, v)
      /\ Maps(r, v) => /\ EntryFor(r, v).page \in Int
                       /\ EntryFor(r, v).page * P = v * P + (X - virt)
  BY <1>2, <1>3, <1>6, <1>7, SegmentPages
<1>9. EntryFor(r, v).flags = r.flags
  BY DEF EntryFor
<1> QED BY <1>8, <1>9 DEF X

(* The stack's request is that of a segment.                               *)
LEMMA StackRequest ==
  ASSUME NEW stk \in Addresses, PagesFor(stk, STACK_SIZE) \subseteq HeapPages
  PROVE  LET r == map_stack(stk)[1]
         IN  /\ ForSegment(r, STACK_VIRTUAL_END, 0, STACK_SIZE, stk, TRUE)
             /\ ~Refused(r)
             /\ stk + STACK_SIZE < WORD
<1> DEFINE r == map_stack(stk)[1]
<1>1. /\ STACK_SIZE \in 1 .. (WORD - PAGING_PAGE_SIZE) /\ STACK_VIRTUAL_END \in 0 .. (WORD - 1)
      /\ STACK_VIRTUAL_END % PAGING_PAGE_SIZE = 0
  BY PagingAssumption DEF Word
<1>2. WORD \in Nat \ {0} /\ PAGING_PAGE_SIZE \in Nat \ {0}
  BY Sizes
<1>3. STACK_SIZE \in 0 .. (WORD - 1) /\ STACK_SIZE <= WORD - PAGING_PAGE_SIZE
  BY <1>1, <1>2
<1>4. r = [virt |-> STACK_VIRTUAL_END, phys |-> stk,
           phys_end |-> paging_align_address((stk + STACK_SIZE) % WORD),
           flags |-> UserPage \cup {"WRITABLE"}]
  BY DEF map_stack
<1>5. (stk + 0) % WORD = stk /\ paging_align_to_lower_page(stk) = stk
  <2>1. stk \in 0 .. (WORD - 1) /\ paging_align_to_lower_page(stk) = stk
    BY AddressIsWord
  <2> QED BY <1>2, <2>1
<1>6. paging_align_to_lower_page(STACK_VIRTUAL_END) = STACK_VIRTUAL_END
  BY <1>1, AlignedIsLower
<1> HIDE DEF r
<1>7. ForSegment(r, STACK_VIRTUAL_END, 0, STACK_SIZE, stk, TRUE)
  BY <1>4, <1>5, <1>6 DEF ForSegment
<1>8. stk + STACK_SIZE < WORD /\ ~Refused(r)
  <2>1. r.virt = STACK_VIRTUAL_END /\ r.phys = stk
        /\ r.phys_end = paging_align_address((stk + STACK_SIZE) % WORD)
    BY <1>4
  <2> QED BY <1>1, <1>3, <2>1, WholeNotRefused
<1> QED BY <1>7, <1>8 DEF r

(* A load that goes through maps all it asks for.                          *)
LEMMA SegmentNotRefused ==
  ASSUME NEW prog \in Programs, NEW ptr \in Addresses,
         PagesFor(ptr, prog.size) \subseteq HeapPages, ~map_fails(prog, ptr),
         LaidOut(prog, ptr), NEW c \in DOMAIN MapProgram(prog, ptr)
  PROVE  ~Refused(MapProgram(prog, ptr)[c])
<1>1. CASE elf_validate_loaded(prog)
  <2>1. MapProgram(prog, ptr) = process_map_elf(prog, ptr)
    BY <1>1 DEF MapProgram
  <2>2. c \in DOMAIN prog.headers
    BY <2>1, Zenon DEF process_map_elf
  <2> QED BY <1>1, <2>1, <2>2, Zenon DEF map_fails
<1>2. CASE ~elf_validate_loaded(prog)
  <2> DEFINE r == MapProgram(prog, ptr)[c]
             seg == [p_vaddr |-> PROGRAM_VIRTUAL_ADDRESS, p_offset |-> 0,
                     p_memsz |-> prog.size, writable |-> TRUE]
  <2>1. r = [virt |-> PROGRAM_VIRTUAL_ADDRESS, phys |-> ptr,
             phys_end |-> paging_align_address((ptr + prog.size) % WORD),
             flags |-> UserPage \cup {"WRITABLE"}]
    <3>1. MapProgram(prog, ptr) = process_map_binary(prog, ptr)
      BY <1>2 DEF MapProgram
    <3>2. c = 1
      BY <3>1 DEF process_map_binary
    <3> QED BY <3>1, <3>2 DEF process_map_binary
  <2>2. seg \in Segments(prog) /\ seg.p_offset = 0 /\ seg.p_memsz = prog.size
    BY <1>2 DEF Segments
  <2>3. ptr + 0 + prog.size < WORD
    BY <2>2 DEF LaidOut
  <2>4. /\ prog.size \in 0 .. (WORD - 1)
        /\ PROGRAM_VIRTUAL_ADDRESS \in 0 .. (WORD - 1)
        /\ PROGRAM_VIRTUAL_ADDRESS % PAGING_PAGE_SIZE = 0
    BY ProgramFields, PagingAssumption DEF Word
  <2>5. prog.size <= WORD - PAGING_PAGE_SIZE
    <3>1. WORD \in Nat /\ PAGING_PAGE_SIZE \in Nat
      BY Sizes
    <3>2. ptr \in Nat /\ PAGING_PAGE_SIZE <= ptr /\ prog.size \in Nat
      BY <2>4, <3>1, AddressIsWord, AddressNotFirst
    <3> QED BY <2>3, <3>1, <3>2
  <2> HIDE DEF r
  <2>6. /\ r.virt = PROGRAM_VIRTUAL_ADDRESS /\ r.phys = ptr
        /\ r.phys_end = paging_align_address((ptr + prog.size) % WORD)
    BY <2>1
  <2>7. ~Refused(r)
    BY <2>4, <2>5, <2>6, WholeNotRefused
  <2> QED BY <2>7 DEF r
<1> QED BY <1>1, <1>2

(* Byte k of a segment is found where the load put it, in a directory      *)
(* whose request for the segment is followed by agreeing ones only.        *)
LEMMA LoadedInPlace ==
  ASSUME NEW prog \in Programs, NEW ptr \in Addresses, NEW stk \in Addresses,
         PagesFor(ptr, prog.size) \subseteq HeapPages,
         PagesFor(stk, STACK_SIZE) \subseteq HeapPages, ~map_fails(prog, ptr),
         LaidOut(prog, ptr), NEW seg \in Segments(prog), NEW k \in Word, k < seg.p_memsz
  PROVE  LET x == seg.p_vaddr + k
             entry == paging_get(process_map_memory(prog, ptr, stk), paging_align_to_lower_page(x))
         IN  /\ (entry.page * PAGING_PAGE_SIZE) + (x % PAGING_PAGE_SIZE) = ptr + seg.p_offset + k
             /\ seg.writable = ("WRITABLE" \in entry.flags)
<1> DEFINE P == PAGING_PAGE_SIZE
           x == seg.p_vaddr + k
           m == MapProgram(prog, ptr)
           ranges == AllRequests(prog, ptr, stk)
           new == paging_new_4gb(UserPage)
           dir == process_map_memory(prog, ptr, stk)
<1>1. P \in Nat \ {0} /\ WORD \in Nat \ {0} /\ PAGES \in Nat \ {0}
  BY Sizes
<1>2. /\ seg.p_vaddr \in 0 .. (WORD - 1) /\ seg.p_offset \in 0 .. (WORD - 1)
      /\ seg.p_memsz \in 0 .. (WORD - 1)
  BY SegmentFields
<1>3. ptr \in Nat /\ k \in Nat
  BY <1>1, AddressIsWord DEF Word
<1>4. /\ seg.p_vaddr % P = seg.p_offset % P
      /\ seg.p_vaddr + seg.p_memsz <= WORD
      /\ ptr + seg.p_offset + seg.p_memsz < WORD
  BY DEF LaidOut
<1>5. x \in 0 .. (WORD - 1)
  BY <1>1, <1>2, <1>3, <1>4
<1> HIDE DEF x
<1>6. PICK i \in 0 .. (TABLES - 1), b \in 0 .. (ENTRIES - 1) :
         /\ i * ENTRIES + b \in PageNumbers
         /\ (i * ENTRIES + b) * P <= x
         /\ x < (i * ENTRIES + b) * P + P
         /\ x % P = x - (i * ENTRIES + b) * P
         /\ \A d : paging_get(d, paging_align_to_lower_page(x)) = d[i][b]
  BY <1>5, EntryOfAddress
<1> DEFINE v == i * ENTRIES + b
<1>7. v \in PageNumbers /\ v \in Nat /\ v * P \in Int
  BY <1>1, <1>6 DEF PageNumbers
<1>8. Covers(seg.p_vaddr, seg.p_memsz, v)
  <2>1. (v + 1) * P = v * P + P
    BY <1>1, <1>7
  <2>2. x = seg.p_vaddr + k
    BY DEF x
  <2> HIDE DEF v
  <2>3. seg.p_vaddr < v * P + P /\ v * P < seg.p_vaddr + seg.p_memsz
    BY <1>1, <1>2, <1>3, <1>6, <1>7, <2>2 DEF v
  <2> QED BY <2>1, <2>3 DEF Covers
<1>9. PICK n \in Nat : /\ DOMAIN ranges = 1 .. (n + 1) /\ DOMAIN m = 1 .. n
                       /\ \A c \in 1 .. n : ranges[c] = m[c]
                       /\ ranges[n + 1] = map_stack(stk)[1]
  BY RequestList, Zenon DEF InOrder
<1>10. dir = paging_map_to(new, ranges)
  BY DEF process_map_memory, MapProgram, AllRequests
<1> HIDE DEF dir, ranges, new, m
<1>11. \A c \in 1 .. n : ~Refused(m[c])
  BY <1>9, SegmentNotRefused, Zenon DEF m
<1>12. PICK c \in 1 .. n :
          ForSegment(m[c], seg.p_vaddr, seg.p_offset, seg.p_memsz, ptr, seg.writable)
  BY <1>9, SegmentRequests, Zenon DEF m
<1>13. Maps(m[c], v)
  BY <1>2, <1>4, <1>7, <1>8, <1>11, <1>12, SegmentMapped
<1>14. PICK l \in c .. (n + 1) : /\ Maps(ranges[l], v) /\ dir[i][b] = EntryFor(ranges[l], v)
  <2>1. c \in 1 .. (n + 1) /\ n + 1 \in Nat /\ ranges[c] = m[c]
    BY <1>9
  <2> HIDE DEF v
  <2>2. Maps(ranges[c], i * ENTRIES + b)
    BY <1>13, <2>1 DEF v
  <2> DEFINE N == n + 1
  <2> HIDE DEF N
  <2>3. N \in Nat /\ DOMAIN ranges = 1 .. N /\ c \in 1 .. N
    BY <1>9, <2>1 DEF N
  <2>4. \E h \in c .. N : /\ Maps(ranges[h], i * ENTRIES + b)
                          /\ paging_map_to(new, ranges)[i][b]
                               = EntryFor(ranges[h], i * ENTRIES + b)
    BY <2>2, <2>3, MapToLast
  <2> QED BY <1>10, <2>4 DEF v, N
<1>15. l # n + 1
  <2> DEFINE r == map_stack(stk)[1]
  <2>1. /\ ForSegment(r, STACK_VIRTUAL_END, 0, STACK_SIZE, stk, TRUE)
        /\ ~Refused(r) /\ stk + STACK_SIZE < WORD
    BY StackRequest
  <2>2. /\ STACK_VIRTUAL_END \in 0 .. (WORD - 1) /\ STACK_VIRTUAL_END % P = 0 % P
        /\ 0 \in 0 .. (WORD - 1) /\ STACK_SIZE \in 0 .. (WORD - 1)
        /\ STACK_VIRTUAL_END + STACK_SIZE <= WORD
    <3>1. 0 % P = 0
      BY <1>1
    <3>2. STACK_VIRTUAL_END \in 0 .. (WORD - 1) /\ STACK_VIRTUAL_END % P = 0
          /\ STACK_VIRTUAL_END + STACK_SIZE <= WORD
      BY PagingAssumption DEF Word
    <3> QED BY <1>1, <3>1, <3>2, StackInside
  <2>3. stk + 0 + STACK_SIZE < WORD
    <3>1. stk + 0 = stk
      BY AddressIsWord
    <3> QED BY <2>1, <3>1
  <2> HIDE DEF r, v
  <2>4. Maps(r, v) <=> Covers(STACK_VIRTUAL_END, STACK_SIZE, v)
    BY <1>7, <2>1, <2>2, <2>3, SegmentMapped
  <2>5. ~Covers(STACK_VIRTUAL_END, STACK_SIZE, v)
    BY <1>7, <1>8 DEF LaidOut
  <2> QED BY <1>9, <1>14, <2>4, <2>5 DEF r
<1>16. l \in 1 .. n /\ ranges[l] = m[l]
  BY <1>9, <1>14, <1>15
<1>17. PICK other \in Segments(prog) :
          ForSegment(m[l], other.p_vaddr, other.p_offset, other.p_memsz, ptr, other.writable)
  BY <1>9, <1>16, SegmentRequests, Zenon DEF m
<1>18. /\ other.p_vaddr \in 0 .. (WORD - 1) /\ other.p_offset \in 0 .. (WORD - 1)
       /\ other.p_memsz \in 0 .. (WORD - 1) /\ seg.writable \in BOOLEAN
  BY SegmentFields
<1>19. /\ other.p_vaddr % P = other.p_offset % P
       /\ other.p_vaddr + other.p_memsz <= WORD
       /\ ptr + other.p_offset + other.p_memsz < WORD
  BY DEF LaidOut
<1> HIDE DEF v
<1>20. /\ Maps(m[l], v) <=> Covers(other.p_vaddr, other.p_memsz, v)
       /\ Maps(m[l], v) =>
            /\ EntryFor(m[l], v).page \in Int
            /\ EntryFor(m[l], v).page * P = v * P + ((ptr + other.p_offset) - other.p_vaddr)
            /\ EntryFor(m[l], v).flags = m[l].flags
  BY <1>7, <1>11, <1>16, <1>17, <1>18, <1>19, SegmentMapped
<1>21. /\ other.p_vaddr - other.p_offset = seg.p_vaddr - seg.p_offset
       /\ other.writable = seg.writable
  <2>1. Covers(other.p_vaddr, other.p_memsz, v)
    BY <1>14, <1>16, <1>20
  <2> QED BY <1>7, <1>8, <2>1 DEF LaidOut
<1>22. /\ dir[i][b].page * P = v * P + ((ptr + other.p_offset) - other.p_vaddr)
       /\ dir[i][b].flags = m[l].flags
  BY <1>14, <1>16, <1>20
<1>23. dir[i][b].page * P + (x % P) = ptr + seg.p_offset + k
  <2>1. x % P = x - v * P /\ x = seg.p_vaddr + k
    BY <1>6 DEF v, x
  <2>2. /\ seg.p_vaddr \in Int /\ seg.p_offset \in Int
        /\ other.p_vaddr \in Int /\ other.p_offset \in Int
    BY <1>1, <1>2, <1>18
  <2> QED BY <1>3, <1>7, <1>21, <1>22, <2>1, <2>2
<1>24. seg.writable = ("WRITABLE" \in dir[i][b].flags)
  <2>1. m[l].flags = IF seg.writable THEN UserPage \cup {"WRITABLE"} ELSE UserPage
    BY <1>17, <1>21 DEF ForSegment
  <2>2. "WRITABLE" \notin UserPage
    BY DEF UserPage
  <2> QED BY <1>18, <1>22, <2>1, <2>2
<1> QED BY <1>6, <1>23, <1>24 DEF x, dir, v

(* Byte k of the stack is found in the stack.                              *)
LEMMA LoadedStackInPlace ==
  ASSUME NEW prog \in Programs, NEW ptr \in Addresses, NEW stk \in Addresses,
         PagesFor(stk, STACK_SIZE) \subseteq HeapPages, NEW k \in Word, k < STACK_SIZE
  PROVE  LET x == STACK_VIRTUAL_END + k
             entry == paging_get(process_map_memory(prog, ptr, stk), paging_align_to_lower_page(x))
         IN  /\ (entry.page * PAGING_PAGE_SIZE) + (x % PAGING_PAGE_SIZE) = stk + k
             /\ "WRITABLE" \in entry.flags
<1> DEFINE P == PAGING_PAGE_SIZE
           V == STACK_VIRTUAL_END
           x == V + k
           m == MapProgram(prog, ptr)
           ranges == AllRequests(prog, ptr, stk)
           r == map_stack(stk)[1]
           new == paging_new_4gb(UserPage)
           dir == process_map_memory(prog, ptr, stk)
<1>1. P \in Nat \ {0} /\ WORD \in Nat \ {0} /\ PAGES \in Nat \ {0}
  BY Sizes
<1>2. /\ V \in 0 .. (WORD - 1) /\ V % P = 0 % P /\ V + STACK_SIZE <= WORD
      /\ 0 \in 0 .. (WORD - 1) /\ STACK_SIZE \in 0 .. (WORD - 1)
  <2>1. V \in 0 .. (WORD - 1) /\ V % P = 0 /\ V + STACK_SIZE <= WORD
    BY PagingAssumption DEF Word
  <2>2. 0 % P = 0
    BY <1>1
  <2> QED BY <1>1, <2>1, <2>2, StackInside
<1>3. stk \in Nat /\ k \in Nat /\ STACK_SIZE \in Nat
  BY <1>1, StackInside, AddressIsWord DEF Word
<1>4. /\ ForSegment(r, V, 0, STACK_SIZE, stk, TRUE)
      /\ ~Refused(r) /\ stk + STACK_SIZE < WORD
  BY StackRequest
<1>5. stk + 0 + STACK_SIZE < WORD
  <2>1. stk + 0 = stk
    BY <1>3
  <2> QED BY <1>4, <2>1
<1>6. x \in 0 .. (WORD - 1)
  BY <1>1, <1>2, <1>3
<1> HIDE DEF x, V
<1>7. PICK i \in 0 .. (TABLES - 1), b \in 0 .. (ENTRIES - 1) :
         /\ i * ENTRIES + b \in PageNumbers
         /\ (i * ENTRIES + b) * P <= x
         /\ x < (i * ENTRIES + b) * P + P
         /\ x % P = x - (i * ENTRIES + b) * P
         /\ \A d : paging_get(d, paging_align_to_lower_page(x)) = d[i][b]
  BY <1>6, EntryOfAddress
<1> DEFINE v == i * ENTRIES + b
<1>8. v \in PageNumbers /\ v \in Nat /\ v * P \in Int
  BY <1>1, <1>7 DEF PageNumbers
<1>9. Covers(V, STACK_SIZE, v)
  <2>1. (v + 1) * P = v * P + P
    BY <1>1, <1>8
  <2>2. x = V + k /\ V \in Int
    BY <1>1, <1>2 DEF x
  <2> HIDE DEF v
  <2>3. V < v * P + P /\ v * P < V + STACK_SIZE
    BY <1>1, <1>3, <1>7, <1>8, <2>2 DEF v
  <2> QED BY <2>1, <2>3 DEF Covers
<1>10. PICK n \in Nat : DOMAIN ranges = 1 .. (n + 1) /\ ranges[n + 1] = r
  BY RequestList, Zenon DEF InOrder
<1>11. dir = paging_map_to(new, ranges)
  BY DEF process_map_memory, MapProgram, AllRequests
<1> HIDE DEF dir, ranges, new, m, r
<1>12. /\ Maps(r, v)
       /\ EntryFor(r, v).page \in Int
       /\ EntryFor(r, v).page * P = v * P + ((stk + 0) - V)
       /\ EntryFor(r, v).flags = r.flags
  <2> HIDE DEF v
  <2>1. V % P = 0 % P /\ 0 \in 0 .. (WORD - 1) /\ v \in PageNumbers
    BY <1>2, <1>8
  <2>2. Maps(r, v) <=> Covers(V, STACK_SIZE, v)
    BY <1>2, <1>4, <1>5, <2>1, SegmentMapped
  <2> DEFINE z == 0
             T == TRUE
  <2> HIDE DEF z, T
  <2>4. /\ V % P = z % P /\ z \in 0 .. (WORD - 1) /\ stk + z + STACK_SIZE < WORD
        /\ ForSegment(r, V, z, STACK_SIZE, stk, T)
    BY <1>4, <1>5, <2>1 DEF z, T
  <2>3. Maps(r, v) => /\ EntryFor(r, v).page \in Int
                      /\ EntryFor(r, v).page * P = v * P + ((stk + z) - V)
                      /\ EntryFor(r, v).flags = r.flags
    BY <1>2, <1>4, <2>1, <2>4, SegmentMapped
  <2> QED BY <1>9, <2>2, <2>3 DEF z
<1>13. dir[i][b] = EntryFor(r, v)
  <2>1. n + 1 \in 1 .. (n + 1) /\ n + 1 \in Nat
    BY <1>10
  <2>2. Maps(ranges[n + 1], i * ENTRIES + b)
    BY <1>10, <1>12
  <2>3. PICK l \in (n + 1) .. (n + 1) :
          paging_map_to(new, ranges)[i][b] = EntryFor(ranges[l], i * ENTRIES + b)
    <3> DEFINE N == n + 1
    <3> HIDE DEF N
    <3>1. N \in Nat /\ DOMAIN ranges = 1 .. N /\ N \in 1 .. N /\ Maps(ranges[N], i * ENTRIES + b)
      BY <1>10, <2>1, <2>2 DEF N
    <3>2. \E h \in N .. N : paging_map_to(new, ranges)[i][b]
                             = EntryFor(ranges[h], i * ENTRIES + b)
      BY <3>1, MapToLast
    <3> QED BY <3>2 DEF N
  <2>4. l = n + 1
    BY <2>1
  <2> QED BY <1>10, <1>11, <2>3, <2>4
<1> HIDE DEF v
<1>14. dir[i][b].page * P + (x % P) = stk + k
  <2>1. x % P = x - v * P /\ x = V + k /\ V \in Int
    BY <1>1, <1>2, <1>7 DEF v, x
  <2> QED BY <1>3, <1>8, <1>12, <1>13, <2>1
<1>15. "WRITABLE" \in dir[i][b].flags
  BY <1>4, <1>12, <1>13 DEF ForSegment
<1> QED BY <1>7, <1>14, <1>15 DEF x, dir, V, v

-----------------------------------------------------------------------------
(* The range of an ELF file.                                               *)

(* One program header of a file.                                           *)
Step(file, memory, range, k) == elf_process_pheader(range, file.headers[k], memory)

(* What the headers of a program are.                                      *)
LEMMA HeaderFields ==
  ASSUME NEW file \in Programs, NEW k \in DOMAIN file.headers
  PROVE  /\ file.headers[k].p_vaddr \in 0 .. (WORD - 1)
         /\ file.headers[k].p_offset \in 0 .. (WORD - 1)
         /\ file.headers[k].p_filesz \in 0 .. (WORD - 1)
<1>1. file \in Program
  BY PagingAssumption
<1> DEFINE H == [p_type : Word, p_vaddr : Word, p_offset : Word,
                 p_filesz : Word, p_memsz : Word, writable : BOOLEAN]
<1>2. file.headers \in Seq(H)
  BY <1>1 DEF Program
<1>3. \A h \in H : h.p_vaddr \in Word /\ h.p_offset \in Word /\ h.p_filesz \in Word
  OBVIOUS
<1> HIDE DEF H
<1>4. file.headers[k] \in H
  BY <1>2
<1> QED BY <1>3, <1>4 DEF Word

(* The range of no segment.                                                *)
LEMMA NoRangeTyped == NoRange \in AddressRange
<1>1. 0 \in Word
  BY Sizes DEF Word
<1> QED BY <1>1 DEF NoRange, AddressRange

(* A header's step keeps the addresses words.                              *)
LEMMA StepTyped ==
  ASSUME NEW file \in Programs, NEW memory \in Nat, NEW k \in DOMAIN file.headers,
         NEW range \in AddressRange
  PROVE  Step(file, memory, range, k) \in AddressRange
<1> DEFINE h == file.headers[k]
           base == elf_phdr_phys_address(h, memory)
           pend == end_phys_address(h, memory)
           vend == end_virtual_address(h)
<1>1. h.p_vaddr \in Word /\ h.p_offset \in Nat /\ h.p_filesz \in Nat /\ h.p_vaddr \in Nat
  <2>1. WORD \in Nat
    BY Sizes
  <2> QED BY <2>1, HeaderFields DEF Word
<1>2. base \in Word
  BY <1>1, SumIsWord DEF elf_phdr_phys_address, Word
<1>3. pend \in Word
  <2> DEFINE x == memory + h.p_offset
  <2>1. x \in Nat
    BY <1>1
  <2> HIDE DEF x
  <2>2. (x + h.p_filesz) % WORD \in Word
    BY <1>1, <2>1, SumIsWord DEF Word
  <2> QED BY <2>2 DEF x, end_phys_address
<1>4. vend \in Word
  BY <1>1, SumIsWord DEF end_virtual_address, Word
<1> HIDE DEF base, pend, vend, h
<1> DEFINE lower == range.virtual_base >= h.p_vaddr \/ range.virtual_base = 0
           higher == range.virtual_end <= vend \/ range.virtual_end = 0
           new == [virtual_base |-> IF lower THEN h.p_vaddr ELSE range.virtual_base,
                   physical_base |-> IF lower THEN base ELSE range.physical_base,
                   virtual_end |-> IF higher THEN vend ELSE range.virtual_end,
                   physical_end |-> IF higher THEN pend ELSE range.physical_end]
<1>5. Step(file, memory, range, k) = IF h.p_type = PT_LOAD THEN new ELSE range
  BY DEF Step, elf_process_pheader, elf_process_phdr_pt_load, h, base, pend, vend
<1> HIDE DEF lower, higher
<1>6. new \in AddressRange
  BY <1>1, <1>2, <1>3, <1>4 DEF AddressRange
<1> QED BY <1>5, <1>6

(* The headers are numbered from 1.                                        *)
LEMMA HeaderCount ==
  ASSUME NEW file \in Programs
  PROVE  Len(file.headers) \in Nat /\ DOMAIN file.headers = 1 .. Len(file.headers)
<1> DEFINE H == [p_type : Word, p_vaddr : Word, p_offset : Word,
                 p_filesz : Word, p_memsz : Word, writable : BOOLEAN]
<1>1. file.headers \in Seq(H)
  BY PagingAssumption DEF Program
<1> HIDE DEF H
<1> QED BY <1>1

(* The ranges after each header of the file, as the loop computes them.    *)
IsLoop(f, file, memory) ==
  f = [k \in 0 .. Len(file.headers) |->
         IF k = 0 THEN NoRange ELSE Step(file, memory, f[k - 1], k)]

(* The first n ranges.                                                     *)
FirstRanges(f, n, file, memory) ==
  /\ f[0] = NoRange
  /\ \A k \in 1 .. n : f[k] = Step(file, memory, f[k - 1], k)

(* The loop runs: there are such ranges, and they are typed.               *)
LEMMA LoopRuns ==
  ASSUME NEW file \in Programs, NEW memory \in Nat
  PROVE  \E f : IsLoop(f, file, memory)
<1> DEFINE N == Len(file.headers)
           Good(n) == \E f \in [0 .. n -> AddressRange] : FirstRanges(f, n, file, memory)
           All == {n \in 0 .. N : Good(n)}
<1>1. N \in Nat /\ DOMAIN file.headers = 1 .. N
  BY HeaderCount
<1>2. NoRange \in AddressRange
  BY NoRangeTyped
<1>3. Good(0)
  <2> DEFINE f == [k \in 0 .. 0 |-> NoRange]
  <2>1. f \in [0 .. 0 -> AddressRange] /\ f[0] = NoRange
    BY <1>2
  <2>2. 1 .. 0 = {}
    OBVIOUS
  <2>3. FirstRanges(f, 0, file, memory)
    BY <2>1, <2>2 DEF FirstRanges
  <2> QED BY <2>1, <2>3
<1>4. ASSUME NEW n \in 0 .. N, n # N, Good(n)
      PROVE  Good(n + 1)
  <2>1. PICK f \in [0 .. n -> AddressRange] : FirstRanges(f, n, file, memory)
    BY <1>4
  <2> DEFINE s == Step(file, memory, f[n], n + 1)
             g == [k \in 0 .. (n + 1) |-> IF k = n + 1 THEN s ELSE f[k]]
  <2>2. s \in AddressRange
    <3>1. n + 1 \in DOMAIN file.headers /\ f[n] \in AddressRange
      BY <1>1, <1>4, <2>1
    <3> QED BY <3>1, StepTyped
  <2>3. \A k \in 0 .. (n + 1) : k # n + 1 => k \in 0 .. n
    BY <1>1
  <2>4. g \in [0 .. (n + 1) -> AddressRange]
    <3> HIDE DEF s
    <3> QED BY <2>1, <2>2, <2>3
  <2>5. \A k \in 0 .. n : g[k] = f[k]
    <3> HIDE DEF s
    <3> QED BY <1>1
  <2>6. g[n + 1] = s
    BY <1>1
  <2>7. n \in 0 .. n /\ 0 \in 0 .. n /\ \A k \in 1 .. n : k - 1 \in 0 .. n /\ k \in 0 .. n
    BY <1>1
  <2> HIDE DEF g
  <2>8. g[0] = NoRange
    BY <2>1, <2>5, <2>7 DEF FirstRanges
  <2>9. \A k \in 1 .. (n + 1) : g[k] = Step(file, memory, g[k - 1], k)
    <3> TAKE k \in 1 .. (n + 1)
    <3>1. CASE k = n + 1
      <4>1. k - 1 = n
        BY <1>1, <3>1
      <4> QED BY <2>5, <2>6, <2>7, <3>1, <4>1
    <3>2. CASE k # n + 1
      <4>1. k \in 1 .. n
        BY <1>1, <3>2
      <4> QED BY <2>1, <2>5, <2>7, <4>1 DEF FirstRanges
    <3> QED BY <3>1, <3>2
  <2>10. FirstRanges(g, n + 1, file, memory)
    BY <2>8, <2>9 DEF FirstRanges
  <2> QED BY <2>4, <2>10
<1>5. \A n \in 0 .. N : n \in All
  <2>1. 0 \in All
    BY <1>1, <1>3
  <2>2. \A n \in 0 .. N : n # N /\ n \in All => n + 1 \in All
    <3> HIDE DEF Good
    <3>1. SUFFICES ASSUME NEW n \in 0 .. N, n # N, n \in All PROVE n + 1 \in All
      OBVIOUS
    <3>2. n + 1 \in 0 .. N
      BY <1>1, <3>1
    <3> QED BY <1>4, <3>1, <3>2
  <2> HIDE DEF All
  <2> QED BY <1>1, <2>1, <2>2, AllUpTo
<1>6. Good(N)
  BY <1>1, <1>5
<1>7. PICK f \in [0 .. N -> AddressRange] : FirstRanges(f, N, file, memory)
  BY <1>6
<1> HIDE DEF N, Good, All
<1>8. f = [k \in 0 .. N |-> IF k = 0 THEN NoRange ELSE Step(file, memory, f[k - 1], k)]
  <2>1. \A k \in 0 .. N : k = 0 \/ k \in 1 .. N
    BY <1>1
  <2>2. \A k \in 0 .. N : f[k] = IF k = 0 THEN NoRange ELSE Step(file, memory, f[k - 1], k)
    BY <1>7, <2>1 DEF FirstRanges
  <2>3. f = [k \in 0 .. N |-> f[k]]
    OBVIOUS
  <2> QED BY <2>2, <2>3
<1>9. IsLoop(f, file, memory)
  BY <1>8, Zenon DEF IsLoop, N
<1> QED BY <1>9

(* Each range is the one before with one more header.                      *)
LEMMA LoopStep ==
  ASSUME NEW file \in Programs, NEW memory, NEW f, IsLoop(f, file, memory)
  PROVE  /\ f[0] = NoRange
         /\ \A k \in 0 .. Len(file.headers) :
              k # Len(file.headers) => f[k + 1] = Step(file, memory, f[k], k + 1)
<1> DEFINE N == Len(file.headers)
<1>1. N \in Nat
  BY HeaderCount
<1> HIDE DEF N
<1>2. \A k \in 0 .. N : f[k] = IF k = 0 THEN NoRange ELSE Step(file, memory, f[k - 1], k)
  BY Zenon DEF IsLoop, N
<1>3. f[0] = NoRange
  BY <1>1, <1>2
<1>4. ASSUME NEW k \in 0 .. N, k # N
      PROVE  f[k + 1] = Step(file, memory, f[k], k + 1)
  <2>1. k + 1 \in 0 .. N /\ k + 1 # 0 /\ (k + 1) - 1 = k
    BY <1>1, <1>4
  <2> QED BY <1>2, <2>1
<1> QED BY <1>3, <1>4 DEF N

(* elf_process_pheaders is the last range of such a loop.                  *)
LEMMA LoopResult ==
  ASSUME NEW file \in Programs, NEW memory \in Nat
  PROVE  \E f : /\ IsLoop(f, file, memory)
                /\ elf_process_pheaders(file, memory) = f[Len(file.headers)]
<1> DEFINE F == CHOOSE f : IsLoop(f, file, memory)
<1>1. IsLoop(F, file, memory)
  BY LoopRuns, Zenon
<1>2. elf_process_pheaders(file, memory) = F[Len(file.headers)]
  BY Zenon DEF elf_process_pheaders, IsLoop, Step
<1> QED BY <1>1, <1>2, Zenon

(* The result is a range of words.                                         *)
LEMMA RangeTyped ==
  ASSUME NEW file \in Programs, NEW memory \in Nat
  PROVE  elf_process_pheaders(file, memory) \in AddressRange
<1> DEFINE N == Len(file.headers)
<1>1. N \in Nat /\ DOMAIN file.headers = 1 .. N
  BY HeaderCount
<1>2. PICK f : IsLoop(f, file, memory) /\ elf_process_pheaders(file, memory) = f[N]
  BY LoopResult
<1>3. /\ f[0] = NoRange
      /\ \A k \in 0 .. N : k # N => f[k + 1] = Step(file, memory, f[k], k + 1)
  BY <1>1, <1>2, LoopStep
<1>4. NoRange \in AddressRange
  BY NoRangeTyped
<1> DEFINE G == {n \in 0 .. N : f[n] \in AddressRange}
<1> HIDE DEF N
<1>5. \A n \in 0 .. N : n # N /\ n \in G => n + 1 \in G
  <2>1. SUFFICES ASSUME NEW n \in 0 .. N, n # N, n \in G PROVE n + 1 \in G
    OBVIOUS
  <2>2. n + 1 \in 0 .. N /\ n + 1 \in DOMAIN file.headers
    BY <1>1, <2>1
  <2>3. f[n] \in AddressRange
    BY <2>1
  <2>4. f[n + 1] \in AddressRange
    BY <1>3, <2>1, <2>2, <2>3, StepTyped
  <2> QED BY <2>2, <2>4
<1>6. 0 \in G
  BY <1>1, <1>3, <1>4
<1> HIDE DEF G
<1>7. N \in G
  <2>1. \A n \in 0 .. N : n \in G
    BY <1>1, <1>5, <1>6, AllUpTo
  <2> QED BY <1>1, <2>1
<1> QED BY <1>2, <1>7 DEF G

(* What ElfRange asks of the segments, and of their range.                 *)
Placed(seg) ==
  /\ seg.p_vaddr \in Nat /\ seg.p_filesz \in Nat
  /\ seg.p_vaddr > 0 /\ seg.p_vaddr + seg.p_filesz < WORD

Spans(range, segments, memory) ==
  /\ \A seg \in segments : /\ range.virtual_base <= seg.p_vaddr
                           /\ seg.p_vaddr + seg.p_filesz <= range.virtual_end
  /\ \E seg \in segments : /\ range.virtual_base = seg.p_vaddr
                           /\ range.physical_base = elf_phdr_phys_address(seg, memory)
  /\ \E seg \in segments : /\ range.virtual_end = seg.p_vaddr + seg.p_filesz
                           /\ range.physical_end = end_phys_address(seg, memory)

(* Before the first segment nothing is set.                                *)
SpansSoFar(range, segments, memory) ==
  IF segments = {} THEN range = NoRange ELSE Spans(range, segments, memory)

(* One more segment, wherever it lies.                                     *)
LEMMA OneMoreSegment ==
  ASSUME NEW range, NEW segments, NEW memory, NEW h, Placed(h),
         \A seg \in segments : Placed(seg), SpansSoFar(range, segments, memory)
  PROVE  SpansSoFar(elf_process_phdr_pt_load(range, h, memory), segments \cup {h}, memory)
<1> DEFINE base == elf_phdr_phys_address(h, memory)
           pend == end_phys_address(h, memory)
           vend == h.p_vaddr + h.p_filesz
           lower == range.virtual_base >= h.p_vaddr \/ range.virtual_base = 0
           higher == range.virtual_end <= vend \/ range.virtual_end = 0
           new == [virtual_base |-> IF lower THEN h.p_vaddr ELSE range.virtual_base,
                   physical_base |-> IF lower THEN base ELSE range.physical_base,
                   virtual_end |-> IF higher THEN vend ELSE range.virtual_end,
                   physical_end |-> IF higher THEN pend ELSE range.physical_end]
<1>1. end_virtual_address(h) = vend
  <2>1. WORD \in Nat \ {0} /\ vend \in Nat /\ vend < WORD
    BY Sizes DEF Placed
  <2> QED BY <2>1 DEF end_virtual_address
<1>2. elf_process_phdr_pt_load(range, h, memory) = new
  BY <1>1 DEF elf_process_phdr_pt_load
<1>3. h.p_vaddr \in Nat /\ h.p_filesz \in Nat /\ h.p_vaddr > 0 /\ vend \in Nat /\ vend > 0
  BY DEF Placed
<1>4. Spans(new, segments \cup {h}, memory)
  <2>1. CASE segments = {}
    <3>1. range = NoRange
      BY <2>1 DEF SpansSoFar
    <3>2. lower /\ higher
      BY <3>1 DEF NoRange
    <3> HIDE DEF lower, higher, base, pend
    <3>3. /\ new.virtual_base = h.p_vaddr /\ new.physical_base = base
          /\ new.virtual_end = vend /\ new.physical_end = pend
      BY <3>2
    <3> HIDE DEF new
    <3> QED BY <1>3, <2>1, <3>3 DEF Spans, base, pend
  <2>2. CASE segments # {}
    <3>1. Spans(range, segments, memory)
      BY <2>2 DEF SpansSoFar
    <3>2. PICK first \in segments : /\ range.virtual_base = first.p_vaddr
                                    /\ range.physical_base = elf_phdr_phys_address(first, memory)
      BY <3>1 DEF Spans
    <3>3. PICK last \in segments : /\ range.virtual_end = last.p_vaddr + last.p_filesz
                                   /\ range.physical_end = end_phys_address(last, memory)
      BY <3>1 DEF Spans
    <3>4. /\ range.virtual_base \in Nat /\ range.virtual_base > 0
          /\ range.virtual_end \in Nat /\ range.virtual_end > 0
      BY <3>2, <3>3 DEF Placed
    <3>5. lower <=> h.p_vaddr <= range.virtual_base
      BY <1>3, <3>4
    <3>6. higher <=> range.virtual_end <= vend
      BY <1>3, <3>4
    <3> HIDE DEF lower, higher, base, pend
    <3>7. /\ new.virtual_base = IF lower THEN h.p_vaddr ELSE range.virtual_base
          /\ new.physical_base = IF lower THEN base ELSE range.physical_base
          /\ new.virtual_end = IF higher THEN vend ELSE range.virtual_end
          /\ new.physical_end = IF higher THEN pend ELSE range.physical_end
      OBVIOUS
    <3> HIDE DEF new
    <3>8. \A seg \in segments : /\ seg.p_vaddr \in Nat /\ seg.p_filesz \in Nat
                                /\ range.virtual_base <= seg.p_vaddr
                                /\ seg.p_vaddr + seg.p_filesz <= range.virtual_end
      BY <3>1 DEF Spans, Placed
    <3>9. \A seg \in segments \cup {h} : new.virtual_base <= seg.p_vaddr
      BY <1>3, <3>4, <3>5, <3>7, <3>8
    <3>10. \A seg \in segments \cup {h} : seg.p_vaddr + seg.p_filesz <= new.virtual_end
      BY <1>3, <3>4, <3>6, <3>7, <3>8
    <3>11. \E seg \in segments \cup {h} :
              /\ new.virtual_base = seg.p_vaddr
              /\ new.physical_base = elf_phdr_phys_address(seg, memory)
      BY <3>2, <3>7 DEF base
    <3>12. \E seg \in segments \cup {h} :
              /\ new.virtual_end = seg.p_vaddr + seg.p_filesz
              /\ new.physical_end = end_phys_address(seg, memory)
      BY <3>3, <3>7 DEF pend
    <3> QED BY <3>9, <3>10, <3>11, <3>12 DEF Spans
  <2> QED BY <2>1, <2>2
<1> QED BY <1>2, <1>4 DEF SpansSoFar

(* elf_process_pheaders finds the range of all loadable segments, whatever *)
(* their order.                                                            *)
LEMMA RangeOfSegments ==
  ASSUME NEW file \in Programs, NEW memory \in Nat, LoadHeaders(file) # {},
         \A seg \in LoadHeaders(file) : Placed(seg)
  PROVE  Spans(elf_process_pheaders(file, memory), LoadHeaders(file), memory)
<1> DEFINE N == Len(file.headers)
           First(n) == {h \in {file.headers[k] : k \in 1 .. n} : h.p_type = PT_LOAD}
<1>1. N \in Nat /\ DOMAIN file.headers = 1 .. N
  BY HeaderCount
<1>2. PICK f : IsLoop(f, file, memory) /\ elf_process_pheaders(file, memory) = f[N]
  BY LoopResult
<1>3. /\ f[0] = NoRange
      /\ \A k \in 0 .. N : k # N => f[k + 1] = Step(file, memory, f[k], k + 1)
  BY <1>1, <1>2, LoopStep
<1>4. First(0) = {}
  <2>1. 1 .. 0 = {}
    OBVIOUS
  <2> QED BY <2>1
<1>5. First(N) = LoadHeaders(file)
  BY <1>1 DEF LoadHeaders, Range
<1>6. ASSUME NEW n \in 0 .. N, n # N
      PROVE  First(n + 1) = First(n) \cup {h \in {file.headers[n + 1]} : h.p_type = PT_LOAD}
  <2>1. 1 .. (n + 1) = (1 .. n) \cup {n + 1}
    BY <1>1
  <2> QED BY <2>1, Zenon
<1>7. ASSUME NEW n \in 0 .. N
      PROVE  First(n) \subseteq First(N)
  <2>1. 1 .. n \subseteq 1 .. N
    BY <1>1
  <2> QED BY <2>1, Zenon
<1> DEFINE G == {n \in 0 .. N : SpansSoFar(f[n], First(n), memory)}
<1> HIDE DEF N, First
<1>8. \A n \in 0 .. N : n # N /\ n \in G => n + 1 \in G
  <2>1. SUFFICES ASSUME NEW n \in 0 .. N, n # N, n \in G PROVE n + 1 \in G
    OBVIOUS
  <2> DEFINE h == file.headers[n + 1]
  <2>2. n + 1 \in 0 .. N
    BY <1>1, <2>1
  <2>3. SpansSoFar(f[n], First(n), memory)
    BY <2>1
  <2>4. f[n + 1] = elf_process_pheader(f[n], h, memory)
    BY <1>3, <2>1 DEF Step
  <2>5. First(n + 1) = First(n) \cup {x \in {h} : x.p_type = PT_LOAD}
    BY <1>6, <2>1
  <2> HIDE DEF h
  <2>6. SpansSoFar(f[n + 1], First(n + 1), memory)
    <3>1. CASE h.p_type = PT_LOAD
      <4>1. First(n + 1) = First(n) \cup {h}
        BY <2>5, <3>1
      <4>2. \A seg \in First(n + 1) : Placed(seg)
        BY <1>5, <1>7, <2>2
      <4>3. f[n + 1] = elf_process_phdr_pt_load(f[n], h, memory)
        BY <2>4, <3>1 DEF elf_process_pheader
      <4> QED BY <2>3, <4>1, <4>2, <4>3, OneMoreSegment
    <3>2. CASE h.p_type # PT_LOAD
      <4>1. First(n + 1) = First(n)
        BY <2>5, <3>2
      <4>2. f[n + 1] = f[n]
        BY <2>4, <3>2 DEF elf_process_pheader
      <4> QED BY <2>3, <4>1, <4>2
    <3> QED BY <3>1, <3>2
  <2> QED BY <2>2, <2>6
<1>9. 0 \in G
  BY <1>1, <1>3, <1>4 DEF SpansSoFar
<1> HIDE DEF G
<1>10. N \in G
  <2>1. \A n \in 0 .. N : n \in G
    BY <1>1, <1>8, <1>9, AllUpTo
  <2> QED BY <1>1, <2>1
<1>11. SpansSoFar(f[N], First(N), memory)
  BY <1>10 DEF G
<1> QED BY <1>2, <1>5, <1>11 DEF SpansSoFar

-----------------------------------------------------------------------------
(* The inductive invariant.                                                *)

(* During a copy the directory of its task differs from the one the load   *)
(* left in the entry of the buffer alone, and the old entry is kept.       *)
CopyKeepsEntry ==
  copying # None =>
    /\ mapped[copying.task] # None
    /\ copying.old_entry = paging_get(mapped[copying.task], copying.tmp)
    /\ directory = [mapped EXCEPT ![copying.task] =
                      paging_map(@, copying.tmp, copying.tmp, UserPage \cup {"WRITABLE"})]
    /\ owner[PageOf(copying.tmp)] = Kernel

(* The pages that were given to t.                                         *)
OwnPages(t) == {p \in HeapPages : owner[p] = t}

(* The pages a program may write to are its own, whoever has got and given *)
(* back other pages since it was loaded.                                   *)
ImagesOwned ==
  \A t \in Tasks : mapped[t] # None /\ InsideImage(program[t]) =>
     WritableIn(mapped[t], OwnPages(t))

(* What is kept of a loaded task is what its load made of its program.     *)
AsLoaded ==
  \A t \in Tasks : mapped[t] # None =>
    /\ program[t] \in Programs /\ image[t] \in Addresses /\ stack[t] \in Addresses
    /\ PagesFor(image[t], program[t].size) \subseteq HeapPages
    /\ PagesFor(stack[t], STACK_SIZE) \subseteq HeapPages
    /\ ~map_fails(program[t], image[t])
    /\ mapped[t] = process_map_memory(program[t], image[t], stack[t])
    /\ elf_validate_loaded(program[t]) =>
         elf_file[t] = elf_process_pheaders(program[t], image[t])

(* WritesOwnOnly alone is not inductive: that a page given to a copy or to *)
(* another load is no program's needs owner to be right of the directories *)
(* the loads left, and that the copy's entry goes away needs CopyRestores. *)
(* SegmentsInPlace and ElfRange are about what a load leaves, AsLoaded.    *)
Inv ==
  /\ TypeOK
  /\ CopyRestores
  /\ CopyKeepsEntry
  /\ ImagesOwned
  /\ AsLoaded

(* No task is one of the other owners of pages.                            *)
LEMMA Owners ==
  Kernel # Free /\ \A t \in Tasks : t # Kernel /\ t # Free
<1>1. {Kernel, Free} \cap Tasks = {}
  BY PagingAssumption
<1> QED BY <1>1 DEF Kernel, Free

(* The entry of a copy buffer, and what it does to a directory.            *)
LEMMA BufferEntry ==
  ASSUME NEW dir \in Directory, NEW tmp \in Addresses
  PROVE  LET new == paging_map(dir, tmp, tmp, UserPage \cup {"WRITABLE"})
         IN  /\ new \in Directory
             /\ paging_get(dir, tmp) \in Entry
             /\ paging_set(new, tmp, paging_get(dir, tmp)) = dir
             /\ PageOf(tmp) \in HeapPages
             /\ \A i \in 0 .. (TABLES - 1), b \in 0 .. (ENTRIES - 1) :
                  new[i][b] = dir[i][b] \/ new[i][b].page = PageOf(tmp)
<1>1. PICK p \in HeapPages : p \in PageNumbers /\ tmp = p * PAGING_PAGE_SIZE /\ PageOf(tmp) = p
  BY HeapAddress
<1> DEFINE entry == [page |-> PageOf(tmp), flags |-> UserPage \cup {"WRITABLE"}]
           new == paging_map(dir, tmp, tmp, UserPage \cup {"WRITABLE"})
<1>2. UserPage \cup {"WRITABLE"} \in SUBSET PageFlags
  BY DEF UserPage, PageFlags
<1>3. entry \in Entry /\ entry.page = PageOf(tmp)
  BY <1>1, <1>2 DEF Entry
<1>4. new = paging_set(dir, tmp, entry)
  BY DEF paging_map
<1> HIDE DEF entry, new
<1>5. LET x == p * PAGING_PAGE_SIZE
      IN  /\ paging_set(dir, x, entry) \in Directory
          /\ paging_get(dir, x) \in Entry
          /\ paging_set(paging_set(dir, x, entry), x, paging_get(dir, x)) = dir
          /\ \A i \in 0 .. (TABLES - 1), b \in 0 .. (ENTRIES - 1) :
               \/ paging_set(dir, x, entry)[i][b] = dir[i][b]
               \/ paging_set(dir, x, entry)[i][b] = entry
  BY <1>1, <1>3, SetAndRestore
<1>6. /\ new \in Directory /\ paging_get(dir, tmp) \in Entry
      /\ paging_set(new, tmp, paging_get(dir, tmp)) = dir
      /\ \A i \in 0 .. (TABLES - 1), b \in 0 .. (ENTRIES - 1) :
           new[i][b] = dir[i][b] \/ new[i][b] = entry
  BY <1>1, <1>4, <1>5
<1> QED BY <1>1, <1>3, <1>6 DEF new

(* A buffer takes a free page.                                             *)
LEMMA BufferFree ==
  ASSUME NEW tmp \in Addresses, Unused(tmp, PAGING_PAGE_SIZE)
  PROVE  PageOf(tmp) \in HeapPages /\ owner[PageOf(tmp)] = Free
<1> DEFINE P == PAGING_PAGE_SIZE
<1>1. PICK p \in HeapPages : p \in 1 .. (PAGES - 1) /\ PageOf(tmp) = p
  BY HeapAddress
<1>2. P \in Nat \ {0} /\ PAGES \in Nat \ {0} /\ WORD \in Nat \ {0} /\ WORD = PAGES * P
  BY Sizes
<1>3. 1 \in PageNumbers /\ 1 * P = P
  BY <1>1, <1>2 DEF PageNumbers
<1>4. PageOf(P) = 1 /\ P % P = 0
  BY <1>3, PageAddress
<1>5. paging_align_address(P) = P
  BY <1>4 DEF paging_align_address, paging_is_aligned
<1>6. PagesFor(tmp, P) = p .. (p + 1 - 1)
  BY <1>1, <1>4, <1>5 DEF PagesFor
<1>7. p \in PagesFor(tmp, P)
  BY <1>1, <1>2, <1>6
<1> QED BY <1>1, <1>7 DEF Unused

(* Pages change hands only when they are nobody's: ImagesOwned stays true  *)
(* where the loaded directories and programs do.                           *)
LEMMA ImagesStayOwned ==
  ASSUME ImagesOwned, NEW t \in Tasks, mapped'[t] = mapped[t], program'[t] = program[t],
         \A p \in HeapPages : owner[p] = t => owner'[p] = t,
         mapped'[t] # None, InsideImage(program'[t])
  PROVE  WritableIn(mapped'[t], OwnPages(t)')
<1>1. WritableIn(mapped[t], OwnPages(t))
  BY DEF ImagesOwned
<1>2. OwnPages(t) \subseteq OwnPages(t)'
  BY DEF OwnPages
<1> QED BY <1>1, <1>2 DEF WritableIn

(* copy_string_from_task maps the buffer into the task and keeps the entry *)
(* that was there; the buffer's page was nobody's.                         *)
LEMMA CopyInv ==
  ASSUME Inv, NEW t \in Tasks, NEW tmp \in Addresses, copy_string_from_task(t, tmp)
  PROVE  Inv'
<1> DEFINE W == UserPage \cup {"WRITABLE"}
<1>1. TypeOK /\ copying = None /\ directory = mapped /\ ImagesOwned /\ AsLoaded
  BY DEF Inv, CopyRestores, copy_string_from_task
<1>2. /\ owner' = [owner EXCEPT ![PageOf(tmp)] = Kernel]
      /\ copying' = [task |-> t, tmp |-> tmp, old_entry |-> paging_get(directory[t], tmp)]
      /\ directory' = [directory EXCEPT ![t] = paging_map(@, tmp, tmp, W)]
      /\ program' = program /\ mapped' = mapped /\ directory[t] # None
      /\ image' = image /\ elf_file' = elf_file /\ stack' = stack
      /\ Unused(tmp, PAGING_PAGE_SIZE)
  BY DEF copy_string_from_task
<1>3. directory[t] \in Directory
  BY <1>1, <1>2 DEF TypeOK
<1>4. /\ paging_map(directory[t], tmp, tmp, W) \in Directory
      /\ paging_get(directory[t], tmp) \in Entry
  BY <1>3, BufferEntry
<1>5. PageOf(tmp) \in HeapPages /\ owner[PageOf(tmp)] = Free
  BY <1>2, BufferFree
<1> HIDE DEF W
<1>6. copying' \in Copy
  BY <1>2, <1>4 DEF Copy
<1>7. TypeOK'
  BY <1>1, <1>2, <1>4, <1>6, Owners DEF TypeOK
<1>8. copying' # None
  BY <1>6, PagingAssumption
<1>9. CopyRestores'
  BY <1>8 DEF CopyRestores
<1>10. copying'.task = t /\ copying'.tmp = tmp /\ copying'.old_entry = paging_get(directory[t], tmp)
  BY <1>2
<1>11. CopyKeepsEntry'
  <2>1. owner'[PageOf(tmp)] = Kernel
    BY <1>1, <1>2, <1>5 DEF TypeOK
  <2>2. directory' = [mapped' EXCEPT ![t] = paging_map(@, tmp, tmp, W)]
    BY <1>1, <1>2
  <2>3. mapped'[t] # None /\ copying'.old_entry = paging_get(mapped'[t], tmp)
    BY <1>1, <1>2, <1>10
  <2> QED BY <1>10, <2>1, <2>2, <2>3 DEF CopyKeepsEntry, W
<1>12. ImagesOwned'
  <2>1. SUFFICES ASSUME NEW u \in Tasks, mapped'[u] # None, InsideImage(program'[u])
                 PROVE  WritableIn(mapped'[u], OwnPages(u)')
    BY DEF ImagesOwned
  <2>2. \A p \in HeapPages : owner[p] = u => owner'[p] = u
    BY <1>1, <1>2, <1>5, Owners DEF TypeOK
  <2> QED BY <1>1, <1>2, <2>1, <2>2, ImagesStayOwned
<1>13. AsLoaded'
  BY <1>1, <1>2 DEF AsLoaded
<1> QED BY <1>7, <1>9, <1>11, <1>12, <1>13 DEF Inv

(* The end of the copy writes the old entry back, so the directory is      *)
(* again the one the load made.                                            *)
LEMMA CopyDoneInv ==
  ASSUME Inv, copy_string_done
  PROVE  Inv'
<1> DEFINE W == UserPage \cup {"WRITABLE"}
           t == copying.task
           tmp == copying.tmp
<1>1. TypeOK /\ CopyKeepsEntry /\ ImagesOwned /\ AsLoaded /\ copying # None
  BY DEF Inv, copy_string_done
<1>2. /\ directory' = [directory EXCEPT ![t] = paging_set(@, tmp, copying.old_entry)]
      /\ owner' = [owner EXCEPT ![PageOf(tmp)] = Free]
      /\ copying' = None /\ program' = program /\ mapped' = mapped
      /\ image' = image /\ elf_file' = elf_file /\ stack' = stack
  BY DEF copy_string_done
<1>3. t \in Tasks /\ tmp \in Addresses
  BY <1>1 DEF TypeOK, Copy
<1>4. /\ mapped[t] # None /\ copying.old_entry = paging_get(mapped[t], tmp)
      /\ directory = [mapped EXCEPT ![t] = paging_map(@, tmp, tmp, W)]
      /\ owner[PageOf(tmp)] = Kernel
  BY <1>1 DEF CopyKeepsEntry
<1>5. mapped[t] \in Directory
  BY <1>1, <1>3, <1>4 DEF TypeOK
<1>6. /\ paging_set(paging_map(mapped[t], tmp, tmp, W), tmp, paging_get(mapped[t], tmp)) = mapped[t]
      /\ PageOf(tmp) \in HeapPages
  BY <1>3, <1>5, BufferEntry
<1> HIDE DEF W, t, tmp
<1>7. directory[t] = paging_map(mapped[t], tmp, tmp, W)
  BY <1>1, <1>3, <1>4 DEF TypeOK
<1>8. directory' = mapped
  <2>1. directory' = [directory EXCEPT ![t] = mapped[t]]
    BY <1>1, <1>2, <1>3, <1>4, <1>6, <1>7 DEF TypeOK
  <2> QED BY <1>1, <1>3, <1>4, <2>1 DEF TypeOK
<1>9. TypeOK'
  BY <1>1, <1>2, <1>8 DEF TypeOK
<1>10. CopyRestores' /\ CopyKeepsEntry'
  BY <1>2, <1>8 DEF CopyRestores, CopyKeepsEntry
<1>11. ImagesOwned'
  <2>1. SUFFICES ASSUME NEW u \in Tasks, mapped'[u] # None, InsideImage(program'[u])
                 PROVE  WritableIn(mapped'[u], OwnPages(u)')
    BY DEF ImagesOwned
  <2>2. \A p \in HeapPages : owner[p] = u => owner'[p] = u
    BY <1>1, <1>2, <1>4, <1>6, Owners DEF TypeOK
  <2> QED BY <1>1, <1>2, <2>1, <2>2, ImagesStayOwned
<1>12. AsLoaded'
  BY <1>1, <1>2 DEF AsLoaded
<1> QED BY <1>9, <1>10, <1>11, <1>12 DEF Inv

(* A load, failing or not, takes pages that nobody owned; the new          *)
(* directory writes into the image and the stack only.                     *)
LEMMA LoadInv ==
  ASSUME Inv, NEW t \in Tasks, NEW prog \in Programs, NEW first \in Addresses,
         NEW ptr \in Addresses, NEW stk \in Addresses, process_load(t, prog, first, ptr, stk)
  PROVE  Inv'
<1> DEFINE dir == process_map_memory(prog, ptr, stk)
           fails == map_fails(prog, ptr)
           file == PagesFor(first, prog.size)
           kept == PagesFor(ptr, prog.size) \cup PagesFor(stk, STACK_SIZE)
           is_elf == elf_validate_loaded(prog)
           range == elf_process_pheaders(prog, ptr)
<1>1. TypeOK /\ copying = None /\ directory = mapped /\ ImagesOwned /\ AsLoaded
  BY DEF Inv, CopyRestores, process_load
<1>2. /\ owner' = [p \in HeapPages |-> IF p \in kept THEN IF fails THEN Kernel ELSE t
                                       ELSE IF p \in file THEN Kernel ELSE owner[p]]
      /\ directory' = [directory EXCEPT ![t] = IF fails THEN None ELSE dir]
      /\ mapped' = [mapped EXCEPT ![t] = IF fails THEN None ELSE dir]
      /\ program' = [program EXCEPT ![t] = IF fails THEN None ELSE prog]
      /\ image' = [image EXCEPT ![t] = IF fails THEN 0 ELSE ptr]
      /\ elf_file' = [elf_file EXCEPT ![t] =
                        IF is_elf THEN IF fails THEN NoRange ELSE range ELSE NoRange]
      /\ stack' = [stack EXCEPT ![t] = IF fails THEN 0 ELSE stk]
      /\ directory[t] = None /\ copying' = None
  BY <1>1 DEF process_load
<1>3. /\ Unused(first, prog.size) /\ Unused(ptr, prog.size) /\ Unused(stk, STACK_SIZE)
  BY DEF process_load, process_load_data
<1>4. \A p \in kept \cup file : p \in HeapPages /\ owner[p] = Free
  BY <1>3 DEF Unused
<1>5. dir \in Directory
  BY LoadedDirectory
<1>6. ~fails /\ InsideImage(prog) => WritableIn(dir, kept)
  BY <1>3, LoadedWritesOwn DEF Unused
<1> DEFINE Made == /\ ptr \in Addresses /\ stk \in Addresses
                   /\ PagesFor(ptr, prog.size) \subseteq HeapPages
                   /\ PagesFor(stk, STACK_SIZE) \subseteq HeapPages
                   /\ dir = process_map_memory(prog, ptr, stk)
                   /\ is_elf => range = elf_process_pheaders(prog, ptr)
<1>7. Made /\ range \in AddressRange /\ NoRange \in AddressRange
  <2>1. ptr \in Nat
    BY AddressIsWord
  <2>2. NoRange \in AddressRange
    BY NoRangeTyped
  <2> QED BY <1>3, <2>1, <2>2, RangeTyped DEF Unused
<1> HIDE DEF dir, file, kept, range
<1>8. AsLoaded'
  <2>1. SUFFICES ASSUME NEW u \in Tasks, mapped'[u] # None
                 PROVE  /\ program'[u] \in Programs /\ image'[u] \in Addresses
                        /\ stack'[u] \in Addresses
                        /\ PagesFor(image'[u], program'[u].size) \subseteq HeapPages
                        /\ PagesFor(stack'[u], STACK_SIZE) \subseteq HeapPages
                        /\ ~map_fails(program'[u], image'[u])
                        /\ mapped'[u] = process_map_memory(program'[u], image'[u], stack'[u])
                        /\ elf_validate_loaded(program'[u]) =>
                             elf_file'[u] = elf_process_pheaders(program'[u], image'[u])
    BY DEF AsLoaded
  <2>2. CASE u = t
    <3>1. /\ ~fails /\ mapped'[t] = dir /\ program'[t] = prog /\ image'[t] = ptr
          /\ stack'[t] = stk /\ (is_elf => elf_file'[t] = range)
      BY <1>1, <1>2, <2>1, <2>2 DEF TypeOK
    <3> QED BY <1>7, <2>2, <3>1
  <2>3. CASE u # t
    <3>1. /\ mapped'[u] = mapped[u] /\ program'[u] = program[u] /\ image'[u] = image[u]
          /\ stack'[u] = stack[u] /\ elf_file'[u] = elf_file[u]
      BY <1>1, <1>2, <2>3 DEF TypeOK
    <3> QED BY <1>1, <2>1, <3>1 DEF AsLoaded
  <2> QED BY <2>2, <2>3
<1> HIDE DEF fails, is_elf, Made
<1>9. TypeOK'
  <2>1. directory' \in [Tasks -> Directory \cup {None}] /\ mapped' \in [Tasks -> Directory \cup {None}]
    BY <1>1, <1>2, <1>5 DEF TypeOK
  <2>2. program' \in [Tasks -> Programs \cup {None}]
    BY <1>1, <1>2 DEF TypeOK
  <2>3. owner' \in [HeapPages -> Tasks \cup {Kernel, Free}]
    BY <1>1, <1>2 DEF TypeOK
  <2>4. /\ image' \in [Tasks -> Addresses \cup {0}]
        /\ stack' \in [Tasks -> Addresses \cup {0}]
    BY <1>1, <1>2 DEF TypeOK
  <2>5. elf_file' \in [Tasks -> AddressRange]
    BY <1>1, <1>2, <1>7 DEF TypeOK
  <2> QED BY <1>2, <2>1, <2>2, <2>3, <2>4, <2>5 DEF TypeOK
<1>10. CopyRestores' /\ CopyKeepsEntry'
  BY <1>1, <1>2 DEF CopyRestores, CopyKeepsEntry
<1>11. ImagesOwned'
  <2>1. SUFFICES ASSUME NEW u \in Tasks, mapped'[u] # None, InsideImage(program'[u])
                 PROVE  WritableIn(mapped'[u], OwnPages(u)')
    BY DEF ImagesOwned
  <2>2. CASE u = t
    <3>1. ~fails /\ mapped'[t] = dir /\ program'[t] = prog
      BY <1>1, <1>2, <2>1, <2>2 DEF TypeOK
    <3>2. WritableIn(dir, kept)
      BY <1>6, <2>1, <2>2, <3>1
    <3>3. kept \subseteq OwnPages(t)'
      BY <1>2, <1>4, <3>1 DEF OwnPages
    <3>4. WritableIn(dir, OwnPages(t)')
      BY <3>2, <3>3 DEF WritableIn
    <3> QED BY <2>2, <3>1, <3>4
  <2>3. CASE u # t
    <3>1. mapped'[u] = mapped[u] /\ program'[u] = program[u]
      BY <1>1, <1>2, <2>3 DEF TypeOK
    <3>2. \A p \in HeapPages : owner[p] = u => owner'[p] = u
      BY <1>2, <1>4, Owners
    <3> QED BY <1>1, <2>1, <3>1, <3>2, ImagesStayOwned
  <2> QED BY <2>2, <2>3
<1> QED BY <1>9, <1>10, <1>11, <1>8 DEF Inv

(* No task is loaded and no page of the heap is owned.                     *)
LEMMA InitInv == Init => Inv
<1> SUFFICES ASSUME Init PROVE Inv
  OBVIOUS
<1>1. TypeOK
  BY NoRangeTyped DEF Init, TypeOK
<1>2. CopyRestores /\ CopyKeepsEntry
  BY DEF Init, CopyRestores, CopyKeepsEntry
<1>3. ImagesOwned /\ AsLoaded
  BY DEF Init, ImagesOwned, AsLoaded
<1> QED BY <1>1, <1>2, <1>3 DEF Inv

(* Every step keeps the invariant.                                         *)
LEMMA NextInv ==
  ASSUME Inv, [Next]_vars
  PROVE  Inv'
<1>1. ASSUME NEW t \in Tasks, NEW prog \in Programs, NEW first \in Addresses,
             NEW ptr \in Addresses, NEW stk \in Addresses, process_load(t, prog, first, ptr, stk)
      PROVE  Inv'
  BY <1>1, LoadInv
<1>2. ASSUME NEW t \in Tasks, NEW tmp \in Addresses, copy_string_from_task(t, tmp)
      PROVE  Inv'
  BY <1>2, CopyInv
<1>3. CASE copy_string_done
  BY <1>3, CopyDoneInv
<1>4. CASE UNCHANGED vars
  BY <1>4 DEF Inv, TypeOK, CopyRestores, CopyKeepsEntry, ImagesOwned, AsLoaded, OwnPages, vars
<1> QED BY <1>1, <1>2, <1>3, <1>4 DEF Next

(* Loads and copies in any order keep the directories and the owners of    *)
(* pages in agreement.                                                     *)
THEOREM PagingInvariant == Spec => []Inv
BY InitInv, NextInv, PTL DEF Spec

(* copy_string_from_task puts back the entry it replaced, wherever its     *)
(* buffer lies.                                                            *)
THEOREM PagingCopyRestores == Spec => []CopyRestores
<1>1. Inv => CopyRestores
  BY DEF Inv
<1> QED BY <1>1, PagingInvariant, PTL

(* However pages are handed out, a program whose segments lie inside its   *)
(* file can write to its own pages only, and to the buffer of a copy from  *)
(* it while that copy lasts.                                               *)
THEOREM PagingWritesOwnOnly == Spec => []WritesOwnOnly
<1>1. ASSUME Inv PROVE WritesOwnOnly
  <2>1. TypeOK /\ CopyRestores /\ CopyKeepsEntry /\ ImagesOwned
    BY <1>1 DEF Inv
  <2>2. SUFFICES ASSUME NEW t \in Tasks, directory[t] # None, InsideImage(program[t]),
                        NEW v \in PageNumbers,
                        "WRITABLE" \in Lookup(t, v * PAGING_PAGE_SIZE).flags
                 PROVE  LET entry == Lookup(t, v * PAGING_PAGE_SIZE)
                        IN  \/ entry.page \in HeapPages /\ owner[entry.page] = t
                            \/ /\ copying # None /\ copying.task = t
                               /\ entry.page = PageOf(copying.tmp)
    BY DEF WritesOwnOnly, Loaded
  <2> DEFINE i == paging_get_indexes(v * PAGING_PAGE_SIZE).directory
             b == paging_get_indexes(v * PAGING_PAGE_SIZE).table
             entry == Lookup(t, v * PAGING_PAGE_SIZE)
  <2>3. entry = directory[t][i][b]
    BY PageAddress DEF Lookup, paging_get
  <2>4. i \in 0 .. (TABLES - 1) /\ b \in 0 .. (ENTRIES - 1)
    BY IndexesOfPage
  <2> HIDE DEF i, b, entry
  <2>5. CASE copying = None \/ copying.task # t
    <3>1. directory[t] = mapped[t]
      BY <2>1, <2>5 DEF TypeOK, CopyRestores, CopyKeepsEntry
    <3>2. WritableIn(mapped[t], OwnPages(t))
      BY <2>1, <2>2, <3>1 DEF ImagesOwned
    <3>3. entry.page \in OwnPages(t)
      BY <2>2, <2>3, <2>4, <3>1, <3>2 DEF WritableIn, entry
    <3> QED BY <3>3 DEF OwnPages, entry
  <2>6. CASE copying # None /\ copying.task = t
    <3> DEFINE tmp == copying.tmp
               W == UserPage \cup {"WRITABLE"}
    <3>1. /\ mapped[t] # None /\ directory = [mapped EXCEPT ![t] = paging_map(@, tmp, tmp, W)]
      BY <2>1, <2>6 DEF CopyKeepsEntry
    <3>2. tmp \in Addresses /\ mapped[t] \in Directory
      BY <2>1, <2>6, <3>1 DEF TypeOK, Copy
    <3>3. \/ paging_map(mapped[t], tmp, tmp, W)[i][b] = mapped[t][i][b]
          \/ paging_map(mapped[t], tmp, tmp, W)[i][b].page = PageOf(tmp)
      BY <2>4, <3>2, BufferEntry
    <3> HIDE DEF tmp, W
    <3>4. directory[t] = paging_map(mapped[t], tmp, tmp, W)
      BY <2>1, <3>1 DEF TypeOK
    <3>5. CASE entry = mapped[t][i][b]
      <4>1. WritableIn(mapped[t], OwnPages(t))
        BY <2>1, <2>2, <3>1 DEF ImagesOwned
      <4>2. entry.page \in OwnPages(t)
        BY <2>2, <2>4, <3>5, <4>1 DEF WritableIn, entry
      <4> QED BY <4>2 DEF OwnPages, entry
    <3>6. CASE entry.page = PageOf(tmp)
      BY <2>6, <3>6 DEF tmp, entry
    <3> QED BY <2>3, <3>3, <3>4, <3>5, <3>6
  <2> QED BY <2>5, <2>6
<1> QED BY <1>1, PagingInvariant, PTL

(* Directories, ranges and owners keep their types: in particular a sum of *)
(* addresses of the ELF loader is always a word.                           *)
THEOREM PagingTypeOK == Spec => []TypeOK
<1>1. Inv => TypeOK
  BY DEF Inv
<1> QED BY <1>1, PagingInvariant, PTL

(* Of a program that is laid out as linkers do, process_map_memory maps    *)
(* each byte of each segment to its place in the image and as writable as  *)
(* the segment, and of any program each byte of the stack; and however     *)
(* many tasks are loaded and texts copied, it stays so.                    *)
THEOREM PagingSegmentsInPlace == Spec => []SegmentsInPlace
<1>1. ASSUME Inv, copying = None, NEW t \in Loaded
      PROVE  /\ t \in Tasks
             /\ program[t] \in Programs /\ image[t] \in Addresses /\ stack[t] \in Addresses
             /\ PagesFor(image[t], program[t].size) \subseteq HeapPages
             /\ PagesFor(stack[t], STACK_SIZE) \subseteq HeapPages
             /\ ~map_fails(program[t], image[t])
             /\ directory[t] = process_map_memory(program[t], image[t], stack[t])
  BY <1>1, Zenon DEF Inv, CopyRestores, AsLoaded, Loaded
<1>2. ASSUME Inv, copying = None, NEW t \in Loaded, LaidOut(program[t], image[t]),
             NEW seg \in Segments(program[t]), NEW k \in Word, k < seg.p_memsz
      PROVE  /\ Translate(t, seg.p_vaddr + k) = image[t] + seg.p_offset + k
             /\ seg.writable = ("WRITABLE" \in Lookup(t, seg.p_vaddr + k).flags)
  BY <1>1, <1>2, LoadedInPlace DEF Translate, Lookup
<1>3. ASSUME Inv, copying = None, NEW t \in Loaded, NEW k \in Word, k < STACK_SIZE
      PROVE  /\ Translate(t, STACK_VIRTUAL_END + k) = stack[t] + k
             /\ "WRITABLE" \in Lookup(t, STACK_VIRTUAL_END + k).flags
  BY <1>1, <1>3, LoadedStackInPlace DEF Translate, Lookup
<1>4. Inv => SegmentsInPlace
  BY <1>2, <1>3, Zenon DEF SegmentsInPlace
<1> QED BY <1>4, PagingInvariant, PTL

(* elf_process_pheaders, over any number of headers in any order, keeps    *)
(* the range of the loadable segments of each loaded program.              *)
THEOREM PagingElfRange == Spec => []ElfRange
<1>1. ASSUME Inv, NEW t \in Loaded
      PROVE  t \in Tasks /\ mapped[t] # None
  <2>1. t \in Tasks /\ directory[t] # None
    BY DEF Loaded
  <2>2. CASE copying = None
    BY <1>1, <2>1, <2>2 DEF Inv, CopyRestores
  <2>3. CASE copying # None
    BY <1>1, <2>1, <2>3 DEF Inv, CopyKeepsEntry, TypeOK, Copy
  <2> QED BY <2>1, <2>2, <2>3
<1>2. ASSUME Inv, NEW t \in Loaded, elf_validate_loaded(program[t]),
             LoadHeaders(program[t]) # {},
             \A seg \in LoadHeaders(program[t]) :
                seg.p_vaddr > 0 /\ seg.p_vaddr + seg.p_filesz < WORD
      PROVE  Spans(elf_file[t], LoadHeaders(program[t]), image[t])
  <2>1. /\ program[t] \in Programs /\ image[t] \in Addresses
        /\ elf_file[t] = elf_process_pheaders(program[t], image[t])
    BY <1>1, <1>2 DEF Inv, AsLoaded
  <2>2. image[t] \in Nat
    BY <2>1, AddressIsWord
  <2>3. \A seg \in LoadHeaders(program[t]) : seg.p_vaddr \in Nat /\ seg.p_filesz \in Nat
    <3>1. WORD \in Nat
      BY Sizes
    <3> QED BY <2>1, <3>1, HeaderFields DEF LoadHeaders, Range
  <2>4. \A seg \in LoadHeaders(program[t]) : Placed(seg)
    BY <1>2, <2>3 DEF Placed
  <2> QED BY <1>2, <2>1, <2>2, <2>4, RangeOfSegments
<1>3. Inv => ElfRange
  BY <1>2, Zenon DEF ElfRange, Spans
<1> QED BY <1>3, PagingInvariant, PTL

=============================================================================
