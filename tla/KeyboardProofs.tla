--------------------------- MODULE KeyboardProofs ---------------------------
(***************************************************************************)
(* Proofs about the keyboard buffer, for any processes, every buffer size  *)
(* and every counter width that is a multiple of it.                       *)
(***************************************************************************)
EXTENDS Keyboard, SequenceTheorems, TLAPS

(* Nothing was typed before the first task runs.                           *)
QuietAtBoot ==
  ~user_mode =>
    /\ overrun = {}
    /\ \A p \in Processes : /\ head[p] = 0 /\ tail[p] = 0
                            /\ buffer[p] = [i \in Index |-> NUL]

(* The inductive invariant.  SlotsExact alone is not inductive: that the   *)
(* writer does not come round to an unread slot needs the bound on the     *)
(* unread keys, and a process that is loaded anew must have none.          *)
Inv ==
  /\ TypeOK
  /\ QuietAtBoot
  /\ current_task # None => loaded # <<>>
  /\ \A p \in Processes \ overrun : Unread(p) <= BUFFER_SIZE
  /\ SlotsExact

-----------------------------------------------------------------------------
(* Counters and slots.                                                     *)

(* Quotient and remainder.                                                 *)
LEMMA DivMod ==
  ASSUME NEW a \in Nat, NEW b \in Nat \ {0}
  PROVE  a % b \in 0 .. (b - 1) /\ a \div b \in Nat /\ a = (a \div b) * b + (a % b)
OBVIOUS

(* They are unique.                                                        *)
LEMMA DivModUnique ==
  ASSUME NEW q \in Int, NEW p \in Int, NEW b \in Nat \ {0},
         NEW r \in 0 .. (b - 1), NEW s \in 0 .. (b - 1), q * b + r = p * b + s
  PROVE  r = s /\ p = q
OBVIOUS

(* Whole rounds do not change the remainder.                               *)
LEMMA ModOfRounds ==
  ASSUME NEW a \in Nat, NEW b \in Nat \ {0}, NEW m \in Nat, m % b = 0
  PROVE  (a + m) % b = a % b
<1> DEFINE q == a \div b
           r == a % b
           n == m \div b
           p == (a + m) \div b
           s == (a + m) % b
<1>1. r \in 0 .. (b - 1) /\ q \in Nat /\ a = q * b + r
  BY DivMod
<1>2. n \in Nat /\ m = n * b
  BY DivMod
<1>3. s \in 0 .. (b - 1) /\ p \in Nat /\ a + m = p * b + s
  <2>1. a + m \in Nat
    OBVIOUS
  <2> HIDE DEF q, r, n
  <2> QED BY <2>1, DivMod, Zenon
<1> HIDE DEF q, n, r, p, s
<1>4. r = s
  <2> DEFINE w == q + n
  <2>1. w \in Int /\ w * b + r = p * b + s
    BY <1>1, <1>2, <1>3
  <2> HIDE DEF w
  <2> QED BY <1>1, <1>3, <2>1, DivModUnique
<1> QED BY <1>4 DEF r, s

(* Less than a round does.                                                 *)
LEMMA ModOfLess ==
  ASSUME NEW a \in Nat, NEW b \in Nat \ {0}, NEW k \in 1 .. (b - 1)
  PROVE  (a + k) % b # a % b
<1> DEFINE q == a \div b
           r == a % b
           p == (a + k) \div b
           s == (a + k) % b
<1>1. r \in 0 .. (b - 1) /\ q \in Nat /\ a = q * b + r
  BY DivMod
<1>2. s \in 0 .. (b - 1) /\ p \in Nat /\ a + k = p * b + s
  <2>1. a + k \in Nat
    OBVIOUS
  <2> HIDE DEF q, r
  <2> QED BY <2>1, DivMod, Zenon
<1> HIDE DEF q, r, p, s
<1>3. ASSUME r = s PROVE FALSE
  <2>1. q * b + k = p * b + 0
    BY <1>1, <1>2, <1>3
  <2> QED BY <1>1, <1>2, <2>1, DivModUnique
<1> QED BY <1>3 DEF r, s

(* The sizes, as numbers.                                                  *)
LEMMA Sizes ==
  /\ BUFFER_SIZE \in Nat \ {0} /\ COUNTER \in Nat \ {0} /\ COUNTER > BUFFER_SIZE
  /\ Counter \subseteq Nat
BY KeyboardAssumption DEF Counter

(* The counters wrap at the end of a round.                                *)
LEMMA WholeRounds ==
  ASSUME NEW a \in Nat
  PROVE  (a + COUNTER) % BUFFER_SIZE = a % BUFFER_SIZE
<1>1. COUNTER % BUFFER_SIZE = 0
  BY KeyboardAssumption
<1> QED BY <1>1, Sizes, ModOfRounds

(* A counter wraps to 0.                                                   *)
LEMMA CounterWraps ==
  ASSUME NEW c \in Counter
  PROVE  /\ (c + 1) % COUNTER = IF c = COUNTER - 1 THEN 0 ELSE c + 1
         /\ (c + 1) % COUNTER \in Counter
BY Sizes DEF Counter

(* The number of keys between two counters.                                *)
Distance(h, t) == (t + COUNTER - h) % COUNTER

(* The distance of two counters without the modulus: the tail may have     *)
(* wrapped before the head.                                                *)
LEMMA DistanceIs ==
  ASSUME NEW h \in Counter, NEW t \in Counter
  PROVE  /\ Distance(h, t) = IF h <= t THEN t - h ELSE t + COUNTER - h
         /\ Distance(h, t) \in Counter
<1>1. h \in 0 .. (COUNTER - 1) /\ t \in 0 .. (COUNTER - 1) /\ COUNTER \in Nat \ {0}
  BY Sizes DEF Counter
<1>2. CASE h <= t
  <2> DEFINE a == t - h
  <2>1. t + COUNTER - h = a + COUNTER /\ a \in 0 .. (COUNTER - 1)
    BY <1>1, <1>2
  <2>2. COUNTER % COUNTER = 0
    BY <1>1
  <2> HIDE DEF a
  <2>3. (a + COUNTER) % COUNTER = a % COUNTER
    <3>1. a \in Nat /\ COUNTER \in Nat
      BY <1>1, <2>1
    <3> QED BY <1>1, <2>2, <3>1, ModOfRounds, Zenon
  <2>4. a % COUNTER = a
    BY <1>1, <2>1
  <2> QED BY <1>2, <2>1, <2>3, <2>4 DEF Distance, Counter, a
<1>3. CASE ~(h <= t)
  BY <1>1, <1>3 DEF Distance, Counter
<1> QED BY <1>2, <1>3

(* A push moves the tail one further away, a pop the head one nearer.      *)
LEMMA DistancePushed ==
  ASSUME NEW h \in Counter, NEW t \in Counter, Distance(h, t) < BUFFER_SIZE
  PROVE  Distance(h, (t + 1) % COUNTER) = Distance(h, t) + 1
<1>1. Distance(h, t) < COUNTER - 1
  BY Sizes, DistanceIs DEF Counter
<1> DEFINE w == (t + 1) % COUNTER
<1>2. w \in Counter /\ w = IF t = COUNTER - 1 THEN 0 ELSE t + 1
  BY CounterWraps
<1> HIDE DEF w
<1>3. Distance(h, w) = IF h <= w THEN w - h ELSE w + COUNTER - h
  BY <1>2, DistanceIs
<1>4. Distance(h, t) = IF h <= t THEN t - h ELSE t + COUNTER - h
  BY DistanceIs
<1>5. Distance(h, w) = Distance(h, t) + 1
  BY <1>1, <1>2, <1>3, <1>4, Sizes DEF Counter
<1> QED BY <1>5 DEF w

(* Reading a key takes one from the distance, across the wrap of the head. *)
LEMMA DistancePopped ==
  ASSUME NEW h \in Counter, NEW t \in Counter, Distance(h, t) > 0
  PROVE  Distance((h + 1) % COUNTER, t) = Distance(h, t) - 1
<1> DEFINE w == (h + 1) % COUNTER
<1>1. w \in Counter /\ w = IF h = COUNTER - 1 THEN 0 ELSE h + 1
  BY CounterWraps
<1> HIDE DEF w
<1>2. Distance(w, t) = IF w <= t THEN t - w ELSE t + COUNTER - w
  BY <1>1, DistanceIs
<1>3. Distance(h, t) = IF h <= t THEN t - h ELSE t + COUNTER - h
  BY DistanceIs
<1>4. Distance(w, t) = Distance(h, t) - 1
  BY <1>1, <1>2, <1>3, Sizes DEF Counter
<1> QED BY <1>4 DEF w

(* keyboard_get_tail_index is the slot behind the unread ones, also when   *)
(* the tail wrapped and the head did not.                                  *)
LEMMA TailSlot ==
  ASSUME NEW h \in Counter, NEW t \in Counter
  PROVE  t % BUFFER_SIZE = (h + Distance(h, t)) % BUFFER_SIZE
<1>1. h + Distance(h, t) = t \/ h + Distance(h, t) = t + COUNTER
  <2>1. Distance(h, t) = IF h <= t THEN t - h ELSE t + COUNTER - h
    BY DistanceIs
  <2> QED BY <2>1, Sizes DEF Counter
<1>2. (t + COUNTER) % BUFFER_SIZE = t % BUFFER_SIZE
  BY Sizes, WholeRounds
<1> QED BY <1>1, <1>2

(* The slots from the new head on are those from the old one on, but for   *)
(* the first.                                                              *)
LEMMA HeadSlot ==
  ASSUME NEW h \in Counter, NEW k \in Nat
  PROVE  (((h + 1) % COUNTER) + k) % BUFFER_SIZE = (h + (k + 1)) % BUFFER_SIZE
<1> DEFINE w == (h + 1) % COUNTER
<1>1. w = IF h = COUNTER - 1 THEN 0 ELSE h + 1
  BY CounterWraps
<1>2. h \in Nat /\ COUNTER \in Nat
  BY Sizes
<1> HIDE DEF w
<1>3. (w + k) % BUFFER_SIZE = (h + (k + 1)) % BUFFER_SIZE
  <2>1. CASE h = COUNTER - 1
    <3>1. w + k = k /\ h + (k + 1) = k + COUNTER
      BY <1>1, <1>2, <2>1
    <3> QED BY <3>1, WholeRounds
  <2>2. CASE h # COUNTER - 1
    <3>1. w + k = h + (k + 1)
      BY <1>1, <1>2, <2>2
    <3> QED BY <3>1
  <2> QED BY <2>1, <2>2
<1> QED BY <1>3 DEF w

(* Less than a buffer of keys lie in different slots.                      *)
LEMMA SlotsDiffer ==
  ASSUME NEW h \in Nat, NEW k \in Nat, NEW l \in Nat, k < l, l < k + BUFFER_SIZE
  PROVE  (h + k) % BUFFER_SIZE # (h + l) % BUFFER_SIZE
<1> DEFINE a == h + k
           d == l - k
<1>1. a \in Nat /\ d \in 1 .. (BUFFER_SIZE - 1) /\ h + l = a + d
  BY Sizes
<1> HIDE DEF d
<1>2. (a + d) % BUFFER_SIZE # a % BUFFER_SIZE
  <2> HIDE DEF a
  <2> QED BY <1>1, Sizes, ModOfLess
<1> QED BY <1>1, <1>2

-----------------------------------------------------------------------------
(* One buffer b with its counters h and t.                                 *)

(* SlotsExact and UnreadKeys of one buffer.                                *)
Exact(b, h, t) ==
  \A i \in Index : b[i] # NUL <=>
    \E k \in 0 .. (Distance(h, t) - 1) : i = (h + k) % BUFFER_SIZE

Keys(b, h, t) == [k \in 1 .. Distance(h, t) |-> b[(h + k - 1) % BUFFER_SIZE]]

(* The assignments to a slot and to a counter.                             *)
Put(b, i, c) == [b EXCEPT ![i] = c]
Successor(n) == (n + 1) % COUNTER

Buffers == [Index -> Chars \cup {NUL}]

(* Remainders are slots.                                                   *)
LEMMA SlotType ==
  ASSUME NEW n \in Nat
  PROVE  n % BUFFER_SIZE \in Index
BY Sizes DEF Index

(* The unread keys are a sequence.                                         *)
LEMMA KeysType ==
  ASSUME NEW b \in Buffers, NEW h \in Counter, NEW t \in Counter
  PROVE  /\ Keys(b, h, t) \in Seq(Chars \cup {NUL})
         /\ Len(Keys(b, h, t)) = Distance(h, t)
         /\ Distance(h, t) \in Nat
         /\ \A k \in 1 .. Distance(h, t) : Keys(b, h, t)[k] = b[(h + k - 1) % BUFFER_SIZE]
<1> DEFINE n == Distance(h, t)
           S == Chars \cup {NUL}
           q == Keys(b, h, t)
<1>1. n \in Nat /\ h \in Nat
  BY DistanceIs, Sizes
<1> HIDE DEF n
<1>2. \A k \in 1 .. n : h + k - 1 \in Nat
  BY <1>1
<1>3. \A k \in 1 .. n : (h + k - 1) % BUFFER_SIZE \in Index
  BY <1>2, SlotType
<1>4. q = [k \in 1 .. n |-> b[(h + k - 1) % BUFFER_SIZE]]
  BY DEF Keys, n
<1>5. q \in [1 .. n -> S]
  BY <1>3, <1>4 DEF Buffers
<1>6. \A k \in 1 .. n : q[k] = b[(h + k - 1) % BUFFER_SIZE]
  BY <1>4
<1> HIDE DEF q, S
<1>7. q \in Seq(S) /\ Len(q) = n
  BY <1>1, <1>5
<1> QED BY <1>1, <1>6, <1>7 DEF q, S, n

(* keyboard_push with room in the buffer appends the key and fills one     *)
(* slot more.                                                              *)
LEMMA PushSlots ==
  ASSUME NEW b \in Buffers, NEW h \in Counter, NEW t \in Counter, NEW c \in Chars,
         Exact(b, h, t), Distance(h, t) < BUFFER_SIZE,
         NEW e, e = Put(b, t % BUFFER_SIZE, c),
         NEW w, w = Successor(t)
  PROVE  /\ Distance(h, w) = Distance(h, t) + 1
         /\ Exact(e, h, w)
         /\ Keys(e, h, w) = Append(Keys(b, h, t), c)
<1> DEFINE n == Distance(h, t)
           j == (h + n) % BUFFER_SIZE
<1>1. n \in Nat /\ h \in Nat /\ w \in Counter /\ n < BUFFER_SIZE
      /\ BUFFER_SIZE \in Nat /\ c # NUL
  BY DistanceIs, Sizes, CounterWraps, KeyboardAssumption DEF Successor
<1>2. Distance(h, w) = n + 1
  BY DistancePushed DEF Successor
<1>3. t % BUFFER_SIZE = j /\ j \in Index
  <2>1. h + n \in Nat
    BY <1>1
  <2> QED BY <2>1, TailSlot, SlotType
<1>4. e \in Buffers /\ e[j] = c /\ \A i \in Index : i # j => e[i] = b[i]
  BY <1>3 DEF Buffers, Put
<1>5. \A k \in 0 .. (n - 1) : (h + k) % BUFFER_SIZE # j
  <2> TAKE k \in 0 .. (n - 1)
  <2>1. k \in Nat /\ k < n /\ n < k + BUFFER_SIZE
    BY <1>1
  <2> HIDE DEF n
  <2> QED BY <1>1, <2>1, SlotsDiffer
<1>6. Exact(e, h, w)
  <2> SUFFICES ASSUME NEW i \in Index
               PROVE  e[i] # NUL <=> \E k \in 0 .. n : i = (h + k) % BUFFER_SIZE
    BY <1>1, <1>2 DEF Exact
  <2>1. b[i] # NUL <=> \E k \in 0 .. (n - 1) : i = (h + k) % BUFFER_SIZE
    BY DEF Exact
  <2> HIDE DEF n
  <2>2. CASE i = j
    <3>1. n \in 0 .. n
      BY <1>1
    <3> QED BY <1>1, <1>4, <2>2, <3>1
  <2>3. CASE i # j
    <3>1. \A k \in 0 .. n : k # n => k \in 0 .. (n - 1)
      BY <1>1
    <3>2. \A k \in 0 .. (n - 1) : k \in 0 .. n
      BY <1>1
    <3> HIDE DEF j
    <3>3. \A k \in 0 .. n : i = (h + k) % BUFFER_SIZE => k # n
      BY <2>3 DEF j
    <3> QED BY <1>4, <2>1, <2>3, <3>1, <3>2, <3>3
  <2> QED BY <2>2, <2>3
<1>7. Keys(e, h, w) = Append(Keys(b, h, t), c)
  <2> DEFINE q == Keys(b, h, t)
             r == Keys(e, h, w)
             S == Chars \cup {NUL}
  <2>1. q \in Seq(S) /\ Len(q) = n /\ \A k \in 1 .. n : q[k] = b[(h + k - 1) % BUFFER_SIZE]
    BY KeysType
  <2>2. r \in Seq(S) /\ Len(r) = n + 1
        /\ \A k \in 1 .. (n + 1) : r[k] = e[(h + k - 1) % BUFFER_SIZE]
    <3>1. /\ r \in Seq(S) /\ Len(r) = Distance(h, w)
          /\ \A k \in 1 .. Distance(h, w) : r[k] = e[(h + k - 1) % BUFFER_SIZE]
      <4>1. \A f \in Buffers, g \in Counter :
              /\ Keys(f, h, g) \in Seq(Chars \cup {NUL})
              /\ Len(Keys(f, h, g)) = Distance(h, g)
              /\ \A k \in 1 .. Distance(h, g) :
                   Keys(f, h, g)[k] = f[(h + k - 1) % BUFFER_SIZE]
        BY KeysType
      <4> QED BY <1>1, <1>4, <4>1
    <3> HIDE DEF r, S
    <3> QED BY <1>2, <3>1
  <2>3. ASSUME NEW k \in 1 .. n PROVE r[k] = q[k]
    <3>1. k - 1 \in 0 .. (n - 1) /\ h + k - 1 = h + (k - 1) /\ k \in 1 .. (n + 1)
          /\ h + k - 1 \in Nat
      BY <1>1
    <3>2. (h + k - 1) % BUFFER_SIZE # j /\ (h + k - 1) % BUFFER_SIZE \in Index
      BY <1>5, <3>1, SlotType
    <3> QED BY <1>4, <2>1, <2>2, <3>1, <3>2
  <2>4. r[n + 1] = c
    <3>1. h + (n + 1) - 1 = h + n /\ n + 1 \in 1 .. (n + 1)
      BY <1>1
    <3> QED BY <1>4, <2>2, <3>1
  <2> HIDE DEF q, r, n
  <2>5. c \in S
    OBVIOUS
  <2> HIDE DEF S
  <2>6. /\ Append(q, c) \in Seq(S) /\ Len(Append(q, c)) = n + 1
        /\ Append(q, c)[n + 1] = c
        /\ \A k \in 1 .. n : Append(q, c)[k] = q[k]
    BY <2>1, <2>5, AppendProperties
  <2>7. \A k \in 1 .. (n + 1) : r[k] = Append(q, c)[k]
    <3>1. \A k \in 1 .. (n + 1) : k = n + 1 \/ k \in 1 .. n
      BY <1>1
    <3> QED BY <2>3, <2>4, <2>6, <3>1
  <2>8. r = Append(q, c)
    BY <2>2, <2>6, <2>7, SeqEqual
  <2> QED BY <2>8 DEF q, r
<1> QED BY <1>2, <1>6, <1>7

(* keyboard_pop of a slot that is not empty takes the oldest key and       *)
(* empties one slot.                                                       *)
LEMMA PopSlots ==
  ASSUME NEW b \in Buffers, NEW h \in Counter, NEW t \in Counter,
         Exact(b, h, t), Distance(h, t) <= BUFFER_SIZE,
         b[h % BUFFER_SIZE] # NUL,
         NEW e, e = Put(b, h % BUFFER_SIZE, NUL),
         NEW w, w = Successor(h)
  PROVE  /\ Distance(w, t) = Distance(h, t) - 1
         /\ Exact(e, w, t)
         /\ Keys(b, h, t) # <<>>
         /\ Head(Keys(b, h, t)) = b[h % BUFFER_SIZE]
         /\ Keys(e, w, t) = Tail(Keys(b, h, t))
<1> DEFINE n == Distance(h, t)
           j == h % BUFFER_SIZE
<1>1. n \in Nat /\ h \in Nat /\ w \in Counter /\ n <= BUFFER_SIZE
      /\ BUFFER_SIZE \in Nat /\ j \in Index /\ h + 0 = h
  <2>1. n \in Nat /\ h \in Nat /\ n <= BUFFER_SIZE /\ BUFFER_SIZE \in Nat /\ h + 0 = h
    BY DistanceIs, Sizes
  <2>2. w \in Counter
    BY CounterWraps DEF Successor
  <2> QED BY <2>1, <2>2, SlotType
<1>2. n > 0
  <2>1. \E k \in 0 .. (n - 1) : j = (h + k) % BUFFER_SIZE
    BY <1>1 DEF Exact
  <2> QED BY <1>1, <2>1
<1>3. Distance(w, t) = n - 1
  BY <1>2, DistancePopped DEF Successor
<1>4. e \in Buffers /\ e[j] = NUL /\ \A i \in Index : i # j => e[i] = b[i]
  BY <1>1 DEF Buffers, Put
<1>5. \A k \in Nat : (w + k) % BUFFER_SIZE = (h + (k + 1)) % BUFFER_SIZE
  BY HeadSlot DEF Successor
<1>6. \A k \in 1 .. (n - 1) : (h + k) % BUFFER_SIZE # j
  <2> TAKE k \in 1 .. (n - 1)
  <2>1. k \in Nat /\ 0 < k /\ k < 0 + BUFFER_SIZE /\ 0 \in Nat
    BY <1>1
  <2>2. (h + 0) % BUFFER_SIZE # (h + k) % BUFFER_SIZE
    BY <1>1, <2>1, SlotsDiffer
  <2> QED BY <1>1, <2>2
<1>7. Exact(e, w, t)
  <2> SUFFICES ASSUME NEW i \in Index
               PROVE  e[i] # NUL <=> \E k \in 0 .. (n - 2) : i = (w + k) % BUFFER_SIZE
    BY <1>1, <1>3 DEF Exact
  <2>1. b[i] # NUL <=> \E k \in 0 .. (n - 1) : i = (h + k) % BUFFER_SIZE
    BY DEF Exact
  <2> HIDE DEF n
  <2>2. \A k \in 0 .. (n - 2) : k \in Nat /\ k + 1 \in 1 .. (n - 1) /\ k + 1 \in 0 .. (n - 1)
    BY <1>1
  <2>3. CASE i = j
    BY <1>4, <1>5, <1>6, <2>2, <2>3
  <2>4. CASE i # j
    <3>1. ASSUME NEW k \in 0 .. (n - 1), i = (h + k) % BUFFER_SIZE
          PROVE  k - 1 \in 0 .. (n - 2) /\ i = (w + (k - 1)) % BUFFER_SIZE
      <4>1. k # 0
        BY <1>1, <2>4, <3>1
      <4>2. k - 1 \in 0 .. (n - 2) /\ k - 1 \in Nat /\ (k - 1) + 1 = k
        BY <1>1, <4>1
      <4>3. (w + (k - 1)) % BUFFER_SIZE = (h + ((k - 1) + 1)) % BUFFER_SIZE
        BY <1>5, <4>2
      <4> QED BY <3>1, <4>2, <4>3
    <3>2. (\E k \in 0 .. (n - 1) : i = (h + k) % BUFFER_SIZE)
            <=> \E k \in 0 .. (n - 2) : i = (w + k) % BUFFER_SIZE
      BY <1>5, <2>2, <3>1
    <3> QED BY <1>4, <2>1, <2>4, <3>2
  <2> QED BY <2>3, <2>4
<1> DEFINE q == Keys(b, h, t)
           r == Keys(e, w, t)
           S == Chars \cup {NUL}
<1>8. q \in Seq(S) /\ Len(q) = n /\ \A k \in 1 .. n : q[k] = b[(h + k - 1) % BUFFER_SIZE]
  BY KeysType
<1>9. r \in Seq(S) /\ Len(r) = n - 1
      /\ \A k \in 1 .. (n - 1) : r[k] = e[(w + k - 1) % BUFFER_SIZE]
  <2>1. /\ r \in Seq(S) /\ Len(r) = Distance(w, t)
        /\ \A k \in 1 .. Distance(w, t) : r[k] = e[(w + k - 1) % BUFFER_SIZE]
    <3>1. \A f \in Buffers, g \in Counter :
            /\ Keys(f, g, t) \in Seq(Chars \cup {NUL})
            /\ Len(Keys(f, g, t)) = Distance(g, t)
            /\ \A k \in 1 .. Distance(g, t) :
                 Keys(f, g, t)[k] = f[(g + k - 1) % BUFFER_SIZE]
      BY KeysType
    <3> QED BY <1>1, <1>4, <3>1
  <2> HIDE DEF r, S
  <2> QED BY <1>3, <2>1
<1>10. q # <<>> /\ Head(q) = b[j]
  <2>1. q[1] = b[j]
    <3>1. 1 \in 1 .. n /\ h + 1 - 1 = h
      BY <1>1, <1>2
    <3> QED BY <1>8, <3>1
  <2> HIDE DEF q, n, S, j
  <2>2. q # <<>>
    BY <1>2, <1>8, EmptySeq
  <2> QED BY <1>8, <2>1, <2>2
<1>11. r = Tail(q)
  <2>1. ASSUME NEW k \in 1 .. (n - 1) PROVE r[k] = q[k + 1]
    <3>1. k - 1 \in Nat /\ w + k - 1 = w + (k - 1) /\ h + (k + 1) - 1 = h + k
          /\ (k - 1) + 1 = k /\ k + 1 \in 1 .. n /\ h + k \in Nat
      BY <1>1, Sizes
    <3>2. (w + k - 1) % BUFFER_SIZE = (h + k) % BUFFER_SIZE
      BY <1>5, <3>1
    <3>3. (h + k) % BUFFER_SIZE # j /\ (h + k) % BUFFER_SIZE \in Index
      BY <1>6, <3>1, SlotType
    <3>4. q[k + 1] = b[(h + k) % BUFFER_SIZE]
      BY <1>8, <3>1
    <3> QED BY <1>4, <1>9, <3>2, <3>3, <3>4
  <2> HIDE DEF q, r, S, n
  <2>2. Tail(q) \in Seq(S) /\ Len(Tail(q)) = n - 1 /\ \A k \in 1 .. (n - 1) : Tail(q)[k] = q[k + 1]
    BY <1>8, <1>10, HeadTailProperties
  <2>3. \A k \in 1 .. (n - 1) : r[k] = Tail(q)[k]
    BY <2>1, <2>2
  <2> QED BY <1>9, <2>2, <2>3, SeqEqual
<1> QED BY <1>3, <1>7, <1>10, <1>11

(* A slot that keyboard_pop finds empty means that no key waits.           *)
LEMMA EmptySlots ==
  ASSUME NEW b \in Buffers, NEW h \in Counter, NEW t \in Counter,
         Exact(b, h, t), b[h % BUFFER_SIZE] = NUL
  PROVE  Keys(b, h, t) = <<>>
<1> DEFINE n == Distance(h, t)
<1>1. n \in Nat /\ h \in Nat /\ h % BUFFER_SIZE \in Index /\ h + 0 = h
  <2>1. n \in Nat /\ h \in Nat /\ h + 0 = h
    BY DistanceIs, Sizes
  <2> QED BY <2>1, SlotType
<1>2. n = 0
  <2>1. CASE n > 0
    <3>1. 0 \in 0 .. (n - 1)
      BY <1>1, <2>1
    <3>2. b[h % BUFFER_SIZE] # NUL
      BY <1>1, <3>1 DEF Exact
    <3> QED BY <3>2
  <2> QED BY <1>1, <2>1
<1>3. Keys(b, h, t) \in Seq(Chars \cup {NUL}) /\ Len(Keys(b, h, t)) = 0
  BY <1>2, KeysType
<1> QED BY <1>3, EmptySeq

-----------------------------------------------------------------------------
(* The operations.                                                         *)

(* The state of one process in these terms, before and after a step.       *)
LEMMA InTerms ==
  /\ \A p : /\ Unread(p) = Distance(head[p], tail[p])
           /\ UnreadKeys(p) = Keys(buffer[p], head[p], tail[p])
  /\ \A p : /\ Unread(p)' = Distance(head'[p], tail'[p])
           /\ UnreadKeys(p)' = Keys(buffer'[p], head'[p], tail'[p])
BY DEF Unread, UnreadKeys, Distance, Keys

(* SlotsExact, now and after the step, in the terms of these proofs.       *)
LEMMA ExactInTerms ==
  /\ SlotsExact <=> \A p \in Processes \ overrun : Exact(buffer[p], head[p], tail[p])
  /\ SlotsExact' <=> \A p \in Processes \ overrun' : Exact(buffer'[p], head'[p], tail'[p])
BY DEF SlotsExact, Unread, Exact, Distance

(* A step that changes the buffer of one process at most.                  *)
OnlyFor(p) ==
  /\ \A q \in Processes : q # p => /\ buffer'[q] = buffer[q] /\ head'[q] = head[q]
                                    /\ tail'[q] = tail[q] /\ (q \in overrun' <=> q \in overrun)
  /\ p \in overrun => p \in overrun'

(* What it must establish for that process.                                *)
GoodFor(p) ==
  p \notin overrun' => /\ Distance(head'[p], tail'[p]) <= BUFFER_SIZE
                      /\ Exact(buffer'[p], head'[p], tail'[p])

(* The invariant after such a step.                                        *)
LEMMA KeptForOthers ==
  ASSUME Inv, NEW p \in Processes, OnlyFor(p), GoodFor(p), TypeOK',
         user_mode, UNCHANGED sched
  PROVE  Inv'
<1>1. \A q \in Processes \ overrun' : Unread(q)' <= BUFFER_SIZE
  BY InTerms DEF Inv, OnlyFor, GoodFor
<1>2. SlotsExact'
  BY ExactInTerms DEF Inv, OnlyFor, GoodFor
<1>3. QuietAtBoot' /\ (current_task' # None => loaded' # <<>>)
  BY DEF Inv, QuietAtBoot, sched
<1> QED BY <1>1, <1>2, <1>3 DEF Inv

(* The queues after such a step.                                           *)
LEMMA QueuesOfOthers ==
  ASSUME NEW p \in Processes, OnlyFor(p)
  PROVE  Waiting' = [Waiting EXCEPT ![p] = Waiting'[p]]
<1>1. \A q \in Processes : q # p => Waiting'[q] = Waiting[q]
  BY InTerms DEF Waiting, OnlyFor
<1>2. Waiting = [q \in Processes |-> Waiting[q]] /\ Waiting' = [q \in Processes |-> Waiting'[q]]
  BY DEF Waiting
<1> QED BY <1>1, <1>2

(* What the refinement mapping shows of a process, now and after the step: *)
(* its unread keys up to its first overrun, and nothing from then on.      *)
LEMMA WaitingOf ==
  /\ \A p \in Processes : p \notin overrun => Waiting[p] = Keys(buffer[p], head[p], tail[p])
  /\ \A p \in Processes : p \notin overrun' => Waiting'[p] = Keys(buffer'[p], head'[p], tail'[p])
  /\ \A p \in Processes : p \in overrun => Waiting[p] = <<>>
  /\ \A p \in Processes : p \in overrun' => Waiting'[p] = <<>>
BY InTerms DEF Waiting

(* The buffer of a process and its slots.                                  *)
LEMMA BufferType ==
  ASSUME Inv, NEW p \in Processes
  PROVE  /\ buffer[p] \in Buffers /\ head[p] \in Counter /\ tail[p] \in Counter
         /\ head[p] % BUFFER_SIZE \in Index /\ tail[p] % BUFFER_SIZE \in Index
         /\ Distance(head[p], tail[p]) \in Nat
         /\ p \notin overrun => /\ Exact(buffer[p], head[p], tail[p])
                                /\ Distance(head[p], tail[p]) <= BUFFER_SIZE
<1>1. buffer[p] \in Buffers /\ head[p] \in Counter /\ tail[p] \in Counter
  BY DEF Inv, TypeOK, Buffers
<1>2. head[p] \in Nat /\ tail[p] \in Nat
  BY <1>1, Sizes
<1>3. head[p] % BUFFER_SIZE \in Index /\ tail[p] % BUFFER_SIZE \in Index
  BY <1>2, SlotType
<1>4. Distance(head[p], tail[p]) \in Nat
  BY <1>1, KeysType
<1> QED BY <1>1, <1>3, <1>4, ExactInTerms, InTerms DEF Inv

(* A key that arrives is typed, or is one more for a process that has lost *)
(* keys already.                                                           *)
LEMMA PushStep ==
  ASSUME Inv, user_mode, NEW c \in Chars \cup {NUL}, keyboard_push(c)
  PROVE  Inv' /\ [Fifo!Next]_(Fifo!vars)
<1> DEFINE p == current_process
           B == BUFFER_SIZE
<1>1. /\ p \in Processes /\ c \in Chars
      /\ buffer' = [buffer EXCEPT ![p][tail[p] % B] = c]
      /\ tail' = [tail EXCEPT ![p] = (@ + 1) % COUNTER]
      /\ overrun' = overrun \cup {q \in {p} : Unread(p) = B}
      /\ UNCHANGED <<sched, head, answer>>
  BY DEF keyboard_push, keyboard_get_tail_index, Inv, TypeOK
<1>2. /\ buffer[p] \in Buffers /\ head[p] \in Counter /\ tail[p] \in Counter
      /\ tail[p] % B \in Index /\ Distance(head[p], tail[p]) \in Nat
      /\ p \notin overrun => /\ Exact(buffer[p], head[p], tail[p])
                             /\ Distance(head[p], tail[p]) <= B
  BY <1>1, BufferType
<1>3. /\ buffer'[p] = [buffer[p] EXCEPT ![tail[p] % B] = c]
      /\ tail'[p] = (tail[p] + 1) % COUNTER /\ head'[p] = head[p]
      /\ \A q \in Processes : q # p => buffer'[q] = buffer[q] /\ tail'[q] = tail[q]
  BY <1>1 DEF Inv, TypeOK
<1>4. p \in overrun' <=> p \in overrun \/ Distance(head[p], tail[p]) = B
  BY <1>1, InTerms
<1>5. OnlyFor(p)
  BY <1>1, <1>3 DEF OnlyFor
<1>6. TypeOK'
  <2>1. (tail[p] + 1) % COUNTER \in Counter
    BY <1>2, CounterWraps
  <2>2. [buffer[p] EXCEPT ![tail[p] % B] = c] \in Buffers
    BY <1>1, <1>2 DEF Buffers
  <2>3. buffer' \in [Processes -> Buffers]
    BY <1>1, <1>3, <2>2 DEF Inv, TypeOK, Buffers
  <2> HIDE DEF p
  <2>4. tail' \in [Processes -> Counter]
    BY <1>1, <2>1 DEF Inv, TypeOK
  <2> QED BY <1>1, <2>3, <2>4 DEF Inv, TypeOK, Buffers, sched
<1> HIDE DEF p
<1>7. CASE p \in overrun
  <2>1. GoodFor(p) /\ Inv'
    BY <1>1, <1>4, <1>5, <1>6, <1>7, KeptForOthers DEF GoodFor
  <2>2. overrun' = overrun
    BY <1>1, <1>7
  <2>3. Waiting'[p] = Waiting[p]
    BY <1>1, <1>7, <2>2, WaitingOf
  <2>4. Waiting' = Waiting
    BY <1>1, <1>5, <2>3, QueuesOfOthers DEF Waiting
  <2> QED BY <1>1, <2>1, <2>2, <2>4 DEF Fifo!vars
<1>8. CASE p \notin overrun /\ Distance(head[p], tail[p]) = B
  <2>1. p \in overrun' /\ GoodFor(p) /\ Inv'
    BY <1>1, <1>4, <1>5, <1>6, <1>8, KeptForOthers DEF GoodFor
  <2>2. overrun' = overrun \cup {p}
    BY <1>1, <1>8, InTerms
  <2>3. Waiting' = [Waiting EXCEPT ![p] = <<>>]
    BY <1>1, <1>5, <2>1, QueuesOfOthers, WaitingOf
  <2>4. ~(Len(Waiting[p]) < B)
    <3>1. Len(Waiting[p]) = Distance(head[p], tail[p])
      BY <1>1, <1>2, <1>8, WaitingOf, KeysType
    <3> QED BY <1>8, <3>1, Sizes
  <2>5. Fifo!Type(p, c)
    BY <1>1, <1>8, <2>2, <2>3, <2>4 DEF Fifo!Type
  <2> QED BY <1>1, <2>1, <2>5 DEF Fifo!Next
<1>9. CASE p \notin overrun /\ Distance(head[p], tail[p]) # B
  <2>1. Distance(head[p], tail[p]) < B
    BY <1>2, <1>9, Sizes
  <2>2. /\ Distance(head[p], tail'[p]) = Distance(head[p], tail[p]) + 1
        /\ Exact(buffer'[p], head[p], tail'[p])
        /\ Keys(buffer'[p], head[p], tail'[p]) = Append(Keys(buffer[p], head[p], tail[p]), c)
    <3>1. /\ buffer[p] \in Buffers /\ head[p] \in Counter /\ tail[p] \in Counter
          /\ c \in Chars /\ Exact(buffer[p], head[p], tail[p])
          /\ buffer'[p] = Put(buffer[p], tail[p] % BUFFER_SIZE, c)
          /\ tail'[p] = Successor(tail[p])
      BY <1>1, <1>2, <1>3, <1>9 DEF Put, Successor
    <3> QED BY <2>1, <3>1, PushSlots
  <2>3. GoodFor(p)
    BY <1>2, <1>3, <2>1, <2>2, Sizes DEF GoodFor
  <2>4. Inv'
    BY <1>1, <1>5, <1>6, <2>3, KeptForOthers
  <2>5. overrun' = overrun
    BY <1>1, <1>9, InTerms
  <2>6. Waiting'[p] = Append(Waiting[p], c)
    BY <1>1, <1>3, <1>9, <2>2, <2>5, WaitingOf
  <2>7. Waiting' = [Waiting EXCEPT ![p] = Append(@, c)]
    BY <1>1, <1>5, <2>6, QueuesOfOthers DEF Waiting
  <2>8. Len(Waiting[p]) < B
    <3>1. Len(Waiting[p]) = Distance(head[p], tail[p])
      BY <1>1, <1>2, <1>9, WaitingOf, KeysType
    <3> QED BY <2>1, <3>1
  <2>9. Fifo!Type(p, c)
    BY <1>1, <1>9, <2>5, <2>7, <2>8 DEF Fifo!Type
  <2> QED BY <1>1, <2>4, <2>9 DEF Fifo!Next
<1> QED BY <1>7, <1>8, <1>9

(* getkey reads the oldest key; after a loss, whatever the slot holds.     *)
LEMMA PopStep ==
  ASSUME Inv, user_mode, keyboard_pop
  PROVE  Inv' /\ Fifo!Next
<1> DEFINE p == current_task
           B == BUFFER_SIZE
<1>1. /\ p \in Processes
      /\ CharAtHead(p) # NUL /\ CharAtHead(p) = buffer[p][head[p] % B]
      /\ answer' = CharAtHead(p)
      /\ buffer' = [buffer EXCEPT ![p][head[p] % B] = NUL]
      /\ head' = [head EXCEPT ![p] = (@ + 1) % COUNTER]
      /\ UNCHANGED <<sched, tail, overrun>>
  BY DEF keyboard_pop, CharAtHead, Inv, TypeOK
<1>2. /\ buffer[p] \in Buffers /\ head[p] \in Counter /\ tail[p] \in Counter
      /\ head[p] % B \in Index /\ Distance(head[p], tail[p]) \in Nat
      /\ p \notin overrun => /\ Exact(buffer[p], head[p], tail[p])
                             /\ Distance(head[p], tail[p]) <= B
  BY <1>1, BufferType
<1>3. /\ buffer'[p] = [buffer[p] EXCEPT ![head[p] % B] = NUL]
      /\ head'[p] = (head[p] + 1) % COUNTER /\ tail'[p] = tail[p]
      /\ \A q \in Processes : q # p => buffer'[q] = buffer[q] /\ head'[q] = head[q]
  BY <1>1 DEF Inv, TypeOK
<1>4. OnlyFor(p)
  BY <1>1, <1>3 DEF OnlyFor
<1>5. CharAtHead(p) \in Chars \cup {NUL}
  BY <1>1, <1>2 DEF Buffers
<1>6. TypeOK'
  <2>1. (head[p] + 1) % COUNTER \in Counter
    BY <1>2, CounterWraps
  <2>2. [buffer[p] EXCEPT ![head[p] % B] = NUL] \in Buffers
    BY <1>1, <1>2 DEF Buffers
  <2>3. buffer' \in [Processes -> Buffers]
    BY <1>1, <1>3, <2>2 DEF Inv, TypeOK, Buffers
  <2> HIDE DEF p
  <2>4. head' \in [Processes -> Counter]
    BY <1>1, <2>1 DEF Inv, TypeOK
  <2> QED BY <1>1, <1>5, <2>3, <2>4 DEF Inv, TypeOK, Buffers, sched
<1> HIDE DEF p
<1>7. CASE p \in overrun
  <2>1. GoodFor(p) /\ Inv'
    BY <1>1, <1>4, <1>6, <1>7, KeptForOthers DEF GoodFor
  <2>2. Waiting'[p] = Waiting[p]
    BY <1>1, <1>7, WaitingOf
  <2>3. Waiting' = Waiting
    BY <1>1, <1>4, <2>2, QueuesOfOthers DEF Waiting
  <2>4. Fifo!ReadAfterLoss(p)
    BY <1>1, <1>5, <1>7, <2>3 DEF Fifo!ReadAfterLoss
  <2> QED BY <1>1, <2>1, <2>4 DEF Fifo!Next
<1>8. CASE p \notin overrun
  <2> DEFINE keys == Keys(buffer[p], head[p], tail[p])
  <2>1. /\ Distance(head'[p], tail[p]) = Distance(head[p], tail[p]) - 1
        /\ Exact(buffer'[p], head'[p], tail[p])
        /\ keys # <<>> /\ Head(keys) = buffer[p][head[p] % B]
        /\ Keys(buffer'[p], head'[p], tail[p]) = Tail(keys)
    <3>1. /\ buffer[p] \in Buffers /\ head[p] \in Counter /\ tail[p] \in Counter
          /\ Exact(buffer[p], head[p], tail[p])
          /\ Distance(head[p], tail[p]) <= BUFFER_SIZE
          /\ buffer[p][head[p] % BUFFER_SIZE] # NUL
          /\ buffer'[p] = Put(buffer[p], head[p] % BUFFER_SIZE, NUL)
          /\ head'[p] = Successor(head[p])
      BY <1>1, <1>2, <1>3, <1>8 DEF Put, Successor
    <3> QED BY <3>1, PopSlots
  <2>2. GoodFor(p)
    BY <1>2, <1>3, <1>8, <2>1, Sizes DEF GoodFor
  <2>3. Inv'
    BY <1>1, <1>4, <1>6, <2>2, KeptForOthers
  <2>4. Waiting[p] = keys /\ Waiting'[p] = Tail(keys)
    BY <1>1, <1>3, <1>8, <2>1, WaitingOf
  <2> HIDE DEF keys
  <2>5. Waiting' = [Waiting EXCEPT ![p] = Tail(@)]
    BY <1>1, <1>4, <2>4, QueuesOfOthers DEF Waiting
  <2>6. Fifo!Read(p)
    BY <1>1, <1>8, <2>1, <2>4, <2>5 DEF Fifo!Read
  <2> QED BY <1>1, <2>3, <2>6 DEF Fifo!Next
<1> QED BY <1>7, <1>8

(* getkey answers 0 only when no key waits.                                *)
LEMMA PopEmptyStep ==
  ASSUME Inv, user_mode, keyboard_pop_empty
  PROVE  Inv' /\ Fifo!Next
<1> DEFINE p == current_task
<1>1. /\ p \in Processes /\ buffer[p][head[p] % BUFFER_SIZE] = NUL
      /\ answer' = NUL /\ UNCHANGED <<sched, kbd, overrun>>
  BY DEF keyboard_pop_empty, CharAtHead, Inv, TypeOK
<1>2. OnlyFor(p) /\ TypeOK'
  BY <1>1 DEF OnlyFor, kbd, Inv, TypeOK, sched
<1>3. /\ buffer[p] \in Buffers /\ head[p] \in Counter /\ tail[p] \in Counter
      /\ p \notin overrun => /\ Exact(buffer[p], head[p], tail[p])
                             /\ Distance(head[p], tail[p]) <= BUFFER_SIZE
  BY <1>1, BufferType
<1>4. GoodFor(p)
  BY <1>1, <1>3 DEF GoodFor, kbd
<1>5. Inv'
  BY <1>1, <1>2, <1>4, KeptForOthers
<1>6. Waiting' = Waiting
  BY <1>1 DEF Waiting, UnreadKeys, Unread, kbd
<1> HIDE DEF p
<1>7. CASE p \in overrun
  BY <1>1, <1>5, <1>6, <1>7 DEF Fifo!Next, Fifo!ReadAfterLoss
<1>8. CASE p \notin overrun
  <2>1. Waiting[p] = <<>>
    BY <1>1, <1>3, <1>8, WaitingOf, EmptySlots
  <2>2. Fifo!Read(p)
    BY <1>1, <1>6, <1>8, <2>1 DEF Fifo!Read
  <2> QED BY <1>1, <1>5, <2>2 DEF Fifo!Next
<1> QED BY <1>7, <1>8

(* Loading a process: its zeroed buffer was empty before.                  *)
LEMMA LoadStep ==
  ASSUME Inv, NEW p \in Processes, process_load_switch(p)
  PROVE  Inv' /\ UNCHANGED Fifo!vars
<1>1. /\ ~user_mode /\ loaded' = Append(loaded, p) /\ current_process' = p
      /\ current_task' = IF current_task = None THEN p ELSE current_task
      /\ buffer' = [buffer EXCEPT ![p] = [i \in Index |-> NUL]]
      /\ head' = [head EXCEPT ![p] = 0] /\ tail' = [tail EXCEPT ![p] = 0]
      /\ UNCHANGED <<user_mode, answer, overrun>>
  BY DEF process_load_switch
<1>2. \A q \in Processes : head[q] = 0 /\ tail[q] = 0 /\ buffer[q] = [i \in Index |-> NUL]
  BY <1>1 DEF Inv, QuietAtBoot
<1>3. buffer' = buffer /\ head' = head /\ tail' = tail
  BY <1>1, <1>2 DEF Inv, TypeOK
<1>4. loaded' \in Seq(Processes) /\ loaded' # <<>>
  BY <1>1, AppendProperties DEF Inv, TypeOK
<1>5. TypeOK'
  BY <1>1, <1>3, <1>4 DEF Inv, TypeOK
<1>6. Inv'
  BY <1>1, <1>3, <1>4, <1>5 DEF Inv, QuietAtBoot, SlotsExact, Unread
<1>7. Waiting' = Waiting
  BY <1>1, <1>3 DEF Waiting, UnreadKeys, Unread
<1> QED BY <1>1, <1>6, <1>7 DEF Fifo!vars

-----------------------------------------------------------------------------

(* Steps that leave buffers and answer alone.                              *)
LEMMA QuietStep ==
  ASSUME Inv, UNCHANGED <<loaded, current_process, kbd, answer, overrun>>,
         \/ UNCHANGED <<current_task, user_mode>>
         \/ current_task' \in Processes /\ user_mode' /\ loaded # <<>>
  PROVE  Inv' /\ UNCHANGED Fifo!vars
<1>1. TypeOK' /\ QuietAtBoot' /\ (current_task' # None => loaded' # <<>>)
  BY DEF Inv, TypeOK, QuietAtBoot, kbd
<1>2. SlotsExact' /\ \A q \in Processes \ overrun' : Unread(q)' <= BUFFER_SIZE
  BY DEF Inv, SlotsExact, Unread, kbd
<1>3. Waiting' = Waiting
  BY DEF Waiting, UnreadKeys, Unread, kbd
<1> QED BY <1>1, <1>2, <1>3 DEF Inv, Fifo!vars

(* Before anything is typed.                                               *)
LEMMA InitInv == Init => Inv /\ Fifo!Init
<1> SUFFICES ASSUME Init PROVE Inv /\ Fifo!Init
  OBVIOUS
<1>1. TypeOK
  <2>1. 0 \in Counter
    BY Sizes DEF Counter
  <2>2. loaded \in Seq(Processes)
    BY EmptySeq DEF Init
  <2> QED BY <2>1, <2>2 DEF Init, TypeOK
<1>2. QuietAtBoot /\ current_task = None /\ overrun = {} /\ answer = NUL
  BY DEF Init, QuietAtBoot
<1>3. \A p \in Processes : /\ buffer[p] = [i \in Index |-> NUL]
                           /\ head[p] = 0 /\ tail[p] = 0
  BY DEF Init
<1>4. 0 \in Counter /\ Distance(0, 0) = 0
  BY Sizes, DistanceIs DEF Counter
<1>5. \A p \in Processes : Distance(head[p], tail[p]) = 0
  BY <1>3, <1>4
<1>6. \A p \in Processes : Unread(p) = 0 /\ 0 <= BUFFER_SIZE
  BY <1>5, Sizes, InTerms
<1>7. SlotsExact
  BY <1>3, <1>6 DEF SlotsExact
<1>8. \A p \in Processes : UnreadKeys(p) = <<>>
  <2> SUFFICES ASSUME NEW p \in Processes PROVE UnreadKeys(p) = <<>>
    OBVIOUS
  <2>1. buffer[p] \in Buffers /\ head[p] \in Counter /\ tail[p] \in Counter
    BY <1>1 DEF TypeOK, Buffers
  <2>2. Keys(buffer[p], head[p], tail[p]) \in Seq(Chars \cup {NUL})
        /\ Len(Keys(buffer[p], head[p], tail[p])) = 0
    BY <1>5, <2>1, KeysType
  <2> QED BY <2>2, InTerms, EmptySeq
<1>9. Waiting = [p \in Processes |-> <<>>]
  BY <1>2, <1>8 DEF Waiting
<1> QED BY <1>1, <1>2, <1>6, <1>7, <1>9 DEF Inv, Fifo!Init

(* Every step keeps the invariant and is a step of the queue, or none.     *)
LEMMA NextStep == Inv /\ [Next]_vars => Inv' /\ [Fifo!Next]_(Fifo!vars)
<1> SUFFICES ASSUME Inv, [Next]_vars PROVE Inv' /\ [Fifo!Next]_(Fifo!vars)
  OBVIOUS
<1>1. CASE UNCHANGED vars
  BY <1>1, QuietStep DEF vars, sched
<1>2. ASSUME NEW p \in Processes, process_load_switch(p)
      PROVE  Inv' /\ [Fifo!Next]_(Fifo!vars)
  BY <1>2, LoadStep
<1>3. CASE task_run_first_ever_task
  <2>1. loaded # <<>> /\ loaded[1] \in Processes
    <3>1. loaded # <<>> /\ loaded \in Seq(Processes)
      BY <1>3 DEF task_run_first_ever_task, Inv, TypeOK
    <3>2. Len(loaded) \in Nat \ {0} /\ loaded \in [1 .. Len(loaded) -> Processes]
      BY <3>1, EmptySeq, LenProperties
    <3> QED BY <3>1, <3>2
  <2> QED BY <1>3, <2>1, QuietStep DEF task_run_first_ever_task
<1>4. CASE classic_keyboard_handle_interrupt
  <2>1. PICK scancode \in 0 .. (2 * KEY_RELEASED - 1) :
          key_released(scancode) \/ key_without_char(scancode) \/ key_pressed(scancode)
    BY <1>4 DEF classic_keyboard_handle_interrupt
  <2>2. CASE key_released(scancode) \/ key_without_char(scancode)
    BY <2>2, QuietStep DEF key_released, key_without_char, vars, sched
  <2>3. CASE key_pressed(scancode)
    <3> DEFINE c == classic_keyboard_scancode_to_char(scancode)
    <3>1. c \in Chars \cup {NUL}
      BY KeyboardAssumption DEF classic_keyboard_scancode_to_char
    <3>2. keyboard_push(c) /\ user_mode
      BY <1>4, <2>3 DEF key_pressed, classic_keyboard_handle_interrupt
    <3> QED BY <3>1, <3>2, PushStep
  <2> QED BY <2>1, <2>2, <2>3
<1>5. CASE isr80h_command2_getkey
  BY <1>5, PopStep, PopEmptyStep DEF isr80h_command2_getkey
<1> QED BY <1>1, <1>2, <1>3, <1>4, <1>5 DEF Next

(* The inductive invariant holds in every state.                           *)
THEOREM KeyboardInvariant == Spec => []Inv
<1>1. Init => Inv
  BY InitInv
<1>2. Inv /\ [Next]_vars => Inv'
  BY NextStep
<1> QED BY <1>1, <1>2, PTL DEF Spec

(* Heads and tails stay counters and slots characters, across wraps and    *)
(* overruns.                                                               *)
THEOREM KeyboardTypeOK == Spec => []TypeOK
<1>1. Inv => TypeOK
  BY DEF Inv
<1> QED BY <1>1, KeyboardInvariant, PTL

(* The slots that hold a character are the unread ones, so an empty slot   *)
(* at the head means an empty buffer (keyboard.c:65-70).                   *)
THEOREM KeyboardSlotsExact == Spec => []SlotsExact
<1>1. Inv => SlotsExact
  BY DEF Inv
<1> QED BY <1>1, KeyboardInvariant, PTL

(* The ring buffers implement one queue per process up to its first        *)
(* overrun: what getkey returns is what was typed, in order, each key      *)
(* once, for every buffer size and through every wrap of the counters.     *)
THEOREM KeyboardImplementsFifo == Spec => ImplementsFifo
<1>1. Init => Fifo!Init
  BY InitInv
<1>2. Inv /\ [Next]_vars => [Fifo!Next]_(Fifo!vars)
  BY NextStep
<1> QED BY <1>1, <1>2, KeyboardInvariant, PTL DEF Spec, ImplementsFifo, Fifo!Spec

=============================================================================
