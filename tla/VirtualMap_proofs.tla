--------------------------- MODULE VirtualMap_proofs ---------------------------
(***************************************************************************)
(* Whatever order the fourteen functions are called in, and whatever the   *)
(* free bitmap held at first, the list of ranges has an end and uses the   *)
(* slots that FewSlotsUsed says.                                           *)
(*                                                                         *)
(* A bit of the free bitmap is only cleared for the entry of               *)
(* page_allocator_init, and that entry stays, since nobody holds a page    *)
(* below its end: so a slot is taken once.                                 *)
(*                                                                         *)
(* Callers that keep to the functions that look before they place find     *)
(* more: the entries stay in order and apart, and the pages that are       *)
(* handed out lie in entries and have one holder each.  A range that is    *)
(* placed lies between the end of an entry and the start of the next, and  *)
(* in an ordered list no other entry reaches in there.                     *)
(***************************************************************************)
EXTENDS MCVirtualMap, FiniteSetTheorems, WellFoundedInduction, TLAPS

(* The build with the processor's shift; the kernel has two words.         *)
MaskedBuild == InsertShift = "masked" /\ NumWords =< 2

-----------------------------------------------------------------------------
(* Arithmetic *)

(* A set of natural numbers has a least member.                            *)
LEMMA Least ==
    ASSUME NEW T \in SUBSET Nat, T # {}
    PROVE  \E x \in T : \A y \in T : ~(y < x)
<1> DEFINE R == OpToRel(<, Nat)
<1>1. IsWellFoundedOn(R, Nat)
  BY NatLessThanWellFounded, Zenon
<1>2. \A x, y \in Nat : y < x => <<y, x>> \in R
  BY DEF OpToRel
<1> HIDE DEF R
<1>3. PICK x \in T : \A y \in T : ~(<<y, x>> \in R)
  BY <1>1, WFMin
<1> QED
  BY <1>2, <1>3

LEMMA Sizes ==
    /\ Page \in Nat \ {0} /\ AddrMod \in Nat \ {0} /\ NumWords \in Nat \ {0}
    /\ IntBits \in Nat /\ IntBits >= 2 /\ W \in Nat /\ W = 2 * IntBits
    /\ Base0 \in Nat /\ Length0 \in Nat \ {0} /\ Ceiling \in Nat
    /\ Base0 + Length0 =< Ceiling /\ Ceiling + Page < AddrMod
BY VirtualAssumption, BoundsAssumption DEF W

LEMMA Divides ==
    \A x \in Nat, d \in Nat \ {0} :
        x \div d \in Int /\ x % d \in 0 .. d - 1 /\ x = d * (x \div d) + (x % d)
OBVIOUS

LEMMA Products ==
    /\ NumWords * W \in Nat /\ NumWords * W >= W
    /\ \A w \in 0 .. NumWords - 1 : w * W \in Nat /\ w * W + W =< NumWords * W
<1>1. NumWords \in Nat /\ NumWords >= 1 /\ W \in Nat /\ W >= 4
  BY Sizes
<1>2. \A x, y, z \in Nat : x =< y => x * z =< y * z
  OBVIOUS
<1>3. \A x \in Nat : (x + 1) * W = x * W + W /\ x * W \in Nat
  BY <1>1
<1>4. 1 * W = W
  BY <1>1
<1> QED
  BY <1>1, <1>2, <1>3, <1>4

(* A slot is an offset in a word.                                          *)
LEMMA SlotParts ==
    ASSUME NEW k \in Slots
    PROVE  /\ k \div W \in 0 .. NumWords - 1 /\ k % W \in 0 .. W - 1
           /\ k = (k \div W) * W + (k % W)
<1>1. k \in Nat /\ k < NumWords * W /\ W \in Nat \ {0} /\ NumWords \in Nat
  BY Sizes, Products DEF Slots
<1>2. /\ k \div W \in Int /\ k % W \in 0 .. W - 1
      /\ k = W * (k \div W) + (k % W)
  BY <1>1, Divides
<1>3. k \div W >= 0
  BY <1>1
<1>4. W * (k \div W) = (k \div W) * W
  BY <1>1, <1>2
<1>5. k \div W < NumWords
  <2> SUFFICES ASSUME k \div W >= NumWords PROVE FALSE
    BY <1>1, <1>2
  <2>1. \A x, y, z \in Nat : x =< y => x * z =< y * z
    OBVIOUS
  <2>2. NumWords * W =< (k \div W) * W
    BY <1>1, <1>2, <1>3, <2>1
  <2> QED
    BY <1>1, <1>2, <1>4, <2>2
<1> QED
  BY <1>1, <1>2, <1>3, <1>4, <1>5

LEMMA SlotOf ==
    ASSUME NEW w \in 0 .. NumWords - 1, NEW o \in 0 .. W - 1, NEW k, k = w * W + o
    PROVE  k \in Slots /\ k \div W = w /\ k % W = o
<1>1. /\ w * W \in Nat /\ w * W + W =< NumWords * W /\ NumWords * W \in Nat
      /\ W \in Nat \ {0} /\ w \in Nat
  BY Sizes, Products
<1>2. k \in Slots
  BY <1>1 DEF Slots
<1>3. /\ k \div W \in Int /\ k % W \in 0 .. W - 1
      /\ k = (k \div W) * W + (k % W)
  BY <1>2, SlotParts
<1>4. \A x, y \in Int : x < y => x * W + W =< y * W
  <2> SUFFICES ASSUME NEW x \in Int, NEW y \in Int, x < y PROVE x * W + W =< y * W
    OBVIOUS
  <2>1. (y - x - 1) * W >= 0
    BY <1>1
  <2> QED
    BY <1>1, <2>1
<1>5. k \div W = w
  BY <1>1, <1>3, <1>4
<1> QED
  BY <1>1, <1>2, <1>3, <1>5

(* Freeing the bit of a slot of the upper half of a word frees no bit that *)
(* is looked at (memory.c:356, 679).                                       *)
LEMMA ClearsNothing ==
    ASSUME MaskedBuild, NEW bm, NEW k \in Slots, k % W >= IntBits
    PROVE  ClearSlot(bm, k) = bm
<1>1. /\ k \in Nat /\ k >= IntBits /\ W \in Nat \ {0} /\ W = 2 * IntBits /\ IntBits \in Nat
      /\ NumWords \in Nat /\ NumWords =< 2
  BY SlotParts, Products, Sizes DEF MaskedBuild, Slots
<1> DEFINE v == (4 * k) \div W
<1>2. v \in Int /\ 4 * k < W * v + W
  BY <1>1
<1> HIDE DEF v
<1>3. 4 * k >= 2 * W
  BY <1>1
<1>4. v >= 2
  <2> SUFFICES ASSUME v =< 1 PROVE FALSE
    BY <1>2
  <2>1. (1 - v) * W >= 0
    BY <1>1, <1>2
  <2>2. (1 - v) * W = W - W * v
    BY <1>1, <1>2
  <2>3. W * v \in Int
    BY <1>1, <1>2
  <2> QED
    BY <1>1, <1>2, <1>3, <2>1, <2>2, <2>3
<1> QED
  BY <1>1, <1>4 DEF ClearSlot, v

-----------------------------------------------------------------------------
(* The list: L are its entries, and D grows from each to the next          *)

Links(m, L, D) ==
    /\ L \in SUBSET Slots /\ 0 \in L /\ m.first = 0 /\ D \in [Slots -> Nat]
    /\ \A e \in L : Next_(m, e) \in (L \ {0}) \cup {Null}
    /\ \A e \in L : Next_(m, e) # Null => D[Next_(m, e)] > D[e]
    /\ \A d, e \in L : Next_(m, d) = Next_(m, e) /\ Next_(m, d) # Null => d = e
    /\ \A e \in L \ {0} : \E d \in L : Next_(m, d) = e

(* A walk from the head: its entries, and Null after the last.             *)
Walk(m, c) ==
    /\ c[0] = m.first
    /\ \A k \in 1 .. Null : c[k] = IF c[k - 1] = Null THEN Null ELSE Next_(m, c[k - 1])

\* The recursive function exists: a longer walk extends a shorter one.
LEMMA ChainIs == ASSUME NEW m PROVE Walk(m, Chain(m))
<1> DEFINE Step(e) == IF e = Null THEN Null ELSE Next_(m, e)
           Body(h, n) == [k \in 0 .. n |->
                            IF k = 0 THEN m.first
                            ELSE IF h[k - 1] = Null THEN Null ELSE Next_(m, h[k - 1])]
           S == CHOOSE h : h = Body(h, NumWords * W)
           T == {n \in Nat : \A h : h # Body(h, n)}
<1>1. Chain(m) = S
  BY DEF Chain
<1>2. \A h, n : Body(h, n) = [k \in 0 .. n |-> IF k = 0 THEN m.first ELSE Step(h[k - 1])]
  OBVIOUS
<1> HIDE DEF Step, Body
<1>3. T = {}
  <2> SUFFICES ASSUME T # {} PROVE FALSE
    OBVIOUS
  <2>1. T \in SUBSET Nat
    OBVIOUS
  <2>2. PICK n \in T : \A y \in T : ~(y < n)
    BY <2>1, Least
  <2>3. n \in Nat /\ \A h : h # Body(h, n)
    BY <2>2
  <2> HIDE DEF T
  <2>4. n # 0
    <3> DEFINE h == [k \in 0 .. 0 |-> m.first]
    <3>1. \A k \in 0 .. 0 : k = 0
      OBVIOUS
    <3>2. h = [k \in 0 .. 0 |-> IF k = 0 THEN m.first ELSE Step(h[k - 1])]
      BY <3>1
    <3> HIDE DEF h
    <3> QED
      BY <1>2, <2>3, <3>2
  <2>5. n - 1 \in Nat /\ n - 1 < n /\ n - 1 \notin T
    BY <2>2, <2>3, <2>4
  <2>6. PICK h : h = Body(h, n - 1)
    BY <2>5 DEF T
  <2> DEFINE h2 == [k \in 0 .. n |-> IF k = n THEN Step(h[n - 1]) ELSE h[k]]
  <2>7. \A k \in 0 .. n - 1 : h2[k] = h[k]
    BY <2>3
  <2>8. \A k \in 0 .. n - 1 : h[k] = IF k = 0 THEN m.first ELSE Step(h[k - 1])
    <3>1. h = [k \in 0 .. n - 1 |-> IF k = 0 THEN m.first ELSE Step(h[k - 1])]
      BY <1>2, <2>6
    <3> QED
      BY <3>1
  <2>9. \A k \in 0 .. n : h2[k] = IF k = 0 THEN m.first ELSE Step(h2[k - 1])
    <3> SUFFICES ASSUME NEW k \in 0 .. n
                 PROVE  h2[k] = IF k = 0 THEN m.first ELSE Step(h2[k - 1])
      OBVIOUS
    <3>1. CASE k = n
      BY <2>3, <2>4, <2>7, <3>1
    <3>2. CASE k # n
      <4>1. k \in 0 .. n - 1 /\ (k # 0 => k - 1 \in 0 .. n - 1)
        BY <2>3, <3>2
      <4> QED
        BY <2>7, <2>8, <4>1
    <3> QED
      BY <3>1, <3>2
  <2>10. h2 = [k \in 0 .. n |-> IF k = 0 THEN m.first ELSE Step(h2[k - 1])]
    BY <2>9
  <2> HIDE DEF h2
  <2> QED
    BY <1>2, <2>3, <2>10
<1>4. S = Body(S, NumWords * W)
  <2>1. NumWords * W \in Nat
    BY Products
  <2> QED
    BY <1>3, <2>1
<1> HIDE DEF S
<1>5. S = [k \in 0 .. Null |-> IF k = 0 THEN m.first ELSE Step(S[k - 1])]
  BY <1>2, <1>4 DEF Null
<1>6. Null \in Nat
  BY Products DEF Null
<1>7. S[0] = m.first /\ \A k \in 1 .. Null : S[k] = Step(S[k - 1])
  BY <1>5, <1>6
<1> QED
  BY <1>1, <1>7 DEF Walk, Step

LEMMA SlotNumbers == Null \in Nat /\ Null >= 4 /\ Slots = 0 .. Null - 1 /\ Null \notin Slots /\ 0 \in Slots
BY Products, Sizes DEF Null, Slots

LEMMA ChainInList ==
    ASSUME NEW m, NEW L, NEW D, Links(m, L, D), NEW c, Walk(m, c)
    PROVE  \A k \in 0 .. Null : c[k] \in L \cup {Null}
<1> DEFINE T == {k \in 0 .. Null : c[k] \notin L \cup {Null}}
<1> SUFFICES ASSUME T # {} PROVE FALSE
  OBVIOUS
<1>1. T \in SUBSET Nat
  OBVIOUS
<1>2. PICK k \in T : \A y \in T : ~(y < k)
  <2> HIDE DEF T
  <2> QED
    BY <1>1, Least
<1>3. k \in 0 .. Null /\ c[k] \notin L \cup {Null}
  BY <1>2
<1>4. k # 0
  BY <1>3 DEF Walk, Links
<1>5. k \in 1 .. Null /\ k - 1 \in 0 .. Null /\ k - 1 < k
  BY <1>3, <1>4, SlotNumbers
<1>6. c[k - 1] \in L \cup {Null}
  BY <1>2, <1>5
<1> QED
  BY <1>3, <1>5, <1>6 DEF Walk, Links

LEMMA ChainRises ==
    ASSUME NEW m, NEW L, NEW D, Links(m, L, D), NEW c, Walk(m, c),
           NEW i \in 0 .. Null, NEW k \in 0 .. Null, i < k, c[k] # Null
    PROVE  c[i] # Null /\ D[c[i]] < D[c[k]]
<1> DEFINE Fine(n) == c[n] # Null => c[i] # Null /\ D[c[i]] < D[c[n]]
           T == {n \in i + 1 .. Null : ~Fine(n)}
<1>1. T = {}
  <2> SUFFICES ASSUME T # {} PROVE FALSE
    OBVIOUS
  <2>1. T \in SUBSET Nat
    OBVIOUS
  <2>2. PICK n \in T : \A y \in T : ~(y < n)
    <3> HIDE DEF T
    <3> QED
      BY <2>1, Least
  <2>3. n \in i + 1 .. Null /\ c[n] # Null /\ ~(c[i] # Null /\ D[c[i]] < D[c[n]])
    BY <2>2
  <2>4. n \in 1 .. Null /\ n - 1 \in 0 .. Null /\ n - 1 < n
    BY <2>3, SlotNumbers
  <2>5. c[n - 1] # Null /\ c[n] = Next_(m, c[n - 1])
    BY <2>3, <2>4 DEF Walk
  <2>6. c[n - 1] \in L /\ c[n] \in L
    BY <2>3, <2>4, <2>5, ChainInList
  <2>7. D[c[n - 1]] < D[c[n]] /\ D[c[n - 1]] \in Nat /\ D[c[n]] \in Nat
    BY <2>3, <2>5, <2>6 DEF Links
  <2>8. CASE n - 1 = i
    BY <2>3, <2>5, <2>7, <2>8
  <2>9. CASE n - 1 # i
    <3>1. n - 1 \in i + 1 .. Null
      BY <2>3, <2>9, SlotNumbers
    <3>2. Fine(n - 1)
      BY <2>2, <2>4, <3>1
    <3>3. c[i] \in L
      BY <2>5, <3>2, ChainInList
    <3>4. D[c[i]] \in Nat
      BY <3>3 DEF Links
    <3> QED
      BY <2>3, <2>5, <2>7, <3>2, <3>4
  <2> QED
    BY <2>8, <2>9
<1>2. k \in i + 1 .. Null
  BY SlotNumbers
<1> QED
  BY <1>1, <1>2

(* An entry that came back would come after itself.                        *)
LEMMA ChainEnds ==
    ASSUME NEW m, NEW L, NEW D, Links(m, L, D), NEW c, Walk(m, c)
    PROVE  c[Null] = Null
<1> SUFFICES ASSUME c[Null] # Null PROVE FALSE
  OBVIOUS
<1>1. \A k \in 0 .. Null : c[k] # Null
  BY ChainRises, SlotNumbers
<1>2. \A k \in 0 .. Null : c[k] \in Slots
  BY <1>1, ChainInList DEF Links
<1> DEFINE f == [k \in 0 .. Null |-> c[k]]
<1>3. f \in [0 .. Null -> Slots]
  BY <1>2
<1>4. /\ IsFiniteSet(0 .. Null) /\ IsFiniteSet(Slots)
      /\ Cardinality(0 .. Null) = Null + 1 /\ Cardinality(Slots) = Null
  BY FS_Interval, SlotNumbers
<1>5. Cardinality(Slots) < Cardinality(0 .. Null)
  BY <1>4, SlotNumbers
<1> HIDE DEF f
<1>6. PICK x \in 0 .. Null, y \in 0 .. Null : x # y /\ f[x] = f[y]
  <2> DEFINE A == 0 .. Null
  <2>1. IsFiniteSet(A) /\ IsFiniteSet(Slots) /\ Cardinality(Slots) < Cardinality(A)
    BY <1>4, <1>5
  <2>2. f \in [A -> Slots]
    BY <1>3
  <2> HIDE DEF A
  <2>3. \E x, y \in A : x # y /\ f[x] = f[y]
    BY <2>1, <2>2, FS_PigeonHole
  <2> QED
    BY <2>3 DEF A
<1>7. c[x] = c[y]
  BY <1>6 DEF f
<1>8. x < y \/ y < x
  BY <1>6, SlotNumbers
<1>9. D[c[x]] \in Nat
  BY <1>2 DEF Links
<1> QED
  BY <1>1, <1>7, <1>8, <1>9, ChainRises

LEMMA ListedIs ==
    ASSUME NEW m, NEW L, NEW D, Links(m, L, D)
    PROVE  Terminates(m) /\ Listed(m) = L
<1>1. PICK c : c = Chain(m)
  OBVIOUS
<1>2. Walk(m, c) /\ Listed(m) = {c[k] : k \in 0 .. Null} \ {Null} /\ (Terminates(m) <=> c[Null] = Null)
  BY <1>1, ChainIs DEF Listed, Terminates, Null
<1>3. Listed(m) \subseteq L
  BY <1>2, ChainInList
<1>4. c[Null] = Null
  BY <1>2, ChainEnds
<1> DEFINE T == {D[e] : e \in L \ Listed(m)}
<1>5. T = {}
  <2> SUFFICES ASSUME T # {} PROVE FALSE
    OBVIOUS
  <2>1. T \in SUBSET Nat
    BY DEF Links
  <2>2. PICK x \in T : \A y \in T : ~(y < x)
    <3> HIDE DEF T
    <3> QED
      BY <2>1, Least
  <2>3. PICK e \in L \ Listed(m) : \A d \in L \ Listed(m) : ~(D[d] < D[e])
    BY <2>2
  <2>4. e # 0
    <3>1. c[0] = 0 /\ 0 \in 0 .. Null /\ 0 # Null
      BY <1>2, SlotNumbers DEF Walk, Links
    <3> QED
      BY <1>2, <2>3, <3>1
  <2>5. PICK d \in L : Next_(m, d) = e
    BY <2>3, <2>4 DEF Links
  <2>6. e # Null /\ D[d] < D[e]
    BY <2>3, <2>5, SlotNumbers DEF Links
  <2>7. d \in Listed(m)
    BY <2>3, <2>6
  <2>8. PICK k \in 0 .. Null : c[k] = d /\ d # Null
    BY <1>2, <2>7
  <2>9. k + 1 \in 1 .. Null /\ (k + 1) - 1 = k
    BY <1>4, <2>8, SlotNumbers
  <2>10. c[k + 1] = e
    BY <1>2, <2>5, <2>8, <2>9 DEF Walk
  <2>11. k + 1 \in 0 .. Null
    BY <2>9
  <2> QED
    BY <1>2, <2>3, <2>6, <2>10, <2>11
<1> QED
  BY <1>2, <1>3, <1>4, <1>5

(* A lookup finds an entry, and the one before it.                         *)
LEMMA FindIs ==
    ASSUME NEW m, NEW L, NEW D, Links(m, L, D), NEW a
    PROVE  /\ Find(m, a) \in L /\ FindAt(m, a) \in 0 .. Null - 1
           /\ Chain(m)[FindAt(m, a)] = Find(m, a)
           /\ FindAt(m, a) = 0 <=> Find(m, a) = 0
           /\ FindAt(m, a) # 0 => /\ Chain(m)[FindAt(m, a) - 1] \in L
                                  /\ Next_(m, Chain(m)[FindAt(m, a) - 1]) = Find(m, a)
<1>1. PICK c : c = Chain(m)
  OBVIOUS
<1>2. Walk(m, c) /\ c[Null] = Null /\ c[0] = 0
  BY <1>1, ChainIs, ChainEnds DEF Walk, Links
<1>3. Stops(m, a) = {k \in 0 .. Null - 1 :
                        c[k] # Null /\ (~HasNext(m, c[k]) \/ ~(NextBase(m, c[k]) < a))}
  BY <1>1 DEF Stops, Null
<1>4. Stops(m, a) # {}
  <2> DEFINE T == {k \in 0 .. Null : c[k] = Null}
  <2>1. Null \in T /\ T \in SUBSET Nat
    BY <1>2, SlotNumbers
  <2>2. PICK k \in T : \A y \in T : ~(y < k)
    <3> HIDE DEF T
    <3> QED
      BY <2>1, Least
  <2>3. k \in 0 .. Null /\ c[k] = Null /\ k # 0
    BY <1>2, <2>2, SlotNumbers
  <2>4. k \in 1 .. Null /\ k - 1 \in 0 .. Null - 1 /\ k - 1 \in 0 .. Null /\ k - 1 < k
    BY <2>3, SlotNumbers
  <2>5. c[k - 1] # Null
    BY <2>2, <2>4
  <2>6. Next_(m, c[k - 1]) = Null
    BY <1>2, <2>3, <2>4, <2>5 DEF Walk
  <2> QED
    BY <1>3, <2>4, <2>5, <2>6 DEF HasNext, Next_
<1>5. Stops(m, a) \in SUBSET Nat
  BY <1>3, SlotNumbers
<1>6. PICK x \in Stops(m, a) : \A y \in Stops(m, a) : ~(y < x)
  BY <1>4, <1>5, Least
<1>7. \A y \in Stops(m, a) : x =< y
  BY <1>5, <1>6
<1> DEFINE k == FindAt(m, a)
<1>8. k \in Stops(m, a)
  BY <1>7 DEF FindAt
<1>9. Find(m, a) = c[k]
  BY <1>1 DEF Find
<1> HIDE DEF k
<1>10. k \in 0 .. Null - 1 /\ k \in 0 .. Null /\ c[k] # Null
  BY <1>3, <1>8, SlotNumbers
<1>11. c[k] \in L
  BY <1>2, <1>10, ChainInList
<1> DEFINE Found == /\ k \in 0 .. Null - 1 /\ c[k] \in L /\ (k = 0 <=> c[k] = 0)
                    /\ k # 0 => c[k - 1] \in L /\ Next_(m, c[k - 1]) = c[k]
<1>12. ASSUME k = 0 PROVE Found
  BY <1>2, <1>10, <1>11, <1>12
<1>13. ASSUME k # 0 PROVE Found
  <2>1. k \in 1 .. Null /\ k - 1 \in 0 .. Null
    BY <1>10, <1>13, SlotNumbers
  <2>2. c[k - 1] # Null /\ c[k] = Next_(m, c[k - 1])
    BY <1>2, <1>10, <2>1 DEF Walk
  <2>3. c[k - 1] \in L
    BY <1>2, <2>1, <2>2, ChainInList
  <2>4. c[k] # 0
    BY <1>10, <2>2, <2>3 DEF Links
  <2> QED
    BY <1>10, <1>11, <1>13, <2>2, <2>3, <2>4
<1>14. Found
  BY <1>12, <1>13
<1> QED
  BY <1>1, <1>9, <1>14, Zenon DEF k

-----------------------------------------------------------------------------
(* The free bitmap *)

LEMMA MaskIs ==
    ASSUME NEW o \in 0 .. W - 1
    PROVE  /\ Mask("masked", o) \subseteq Bits /\ Mask("masked", o) # {}
           /\ o = W - 1 => Mask("masked", o) = Upper
           /\ o \in IntBits .. W - 2 => /\ Mask("masked", o) = {o - IntBits}
                                        /\ o - IntBits \in 0 .. IntBits - 2
           /\ o < IntBits => /\ o + IntBits \in 0 .. W - 1
                             /\ Mask("masked", o) = Mask("masked", o + IntBits)
<1>1. IntBits \in Nat /\ IntBits >= 2 /\ W = 2 * IntBits /\ o \in Nat
  BY Sizes
<1>2. \A k \in Nat : Mask("masked", k) = IF k < IntBits
                          THEN IF k = IntBits - 1 THEN IntBits - 1 .. W - 1 ELSE {k}
                          ELSE IF k - IntBits = IntBits - 1 THEN IntBits - 1 .. W - 1
                               ELSE {k - IntBits}
  BY DEF Mask
<1>3. PICK p \in Nat : p = o + IntBits
  BY <1>1
<1>4. o < IntBits => p \in 0 .. W - 1 /\ Mask("masked", o) = Mask("masked", p)
  <2> SUFFICES ASSUME o < IntBits PROVE p \in 0 .. W - 1 /\ Mask("masked", o) = Mask("masked", p)
    OBVIOUS
  <2>1. p \in 0 .. W - 1 /\ ~(p < IntBits) /\ p - IntBits = o
    BY <1>1, <1>3
  <2>2. Mask("masked", o) = IF o = IntBits - 1 THEN IntBits - 1 .. W - 1 ELSE {o}
    BY <1>1, <1>2
  <2>3. Mask("masked", p) = IF p - IntBits = IntBits - 1 THEN IntBits - 1 .. W - 1 ELSE {p - IntBits}
    BY <1>2, <2>1
  <2> QED
    BY <2>1, <2>2, <2>3
<1>5. Mask("masked", o) \subseteq Bits /\ Mask("masked", o) # {}
  <2>1. \A x \in IntBits - 1 .. W - 1 : x \in Bits
    BY <1>1 DEF Bits
  <2>2. IntBits - 1 \in IntBits - 1 .. W - 1
    BY <1>1
  <2>3. \A x \in Nat : x < W => {x} \subseteq Bits
    BY <1>1 DEF Bits
  <2>4. o < W /\ (~(o < IntBits) => o - IntBits \in Nat /\ o - IntBits < W)
    BY <1>1
  <2> QED
    BY <1>1, <1>2, <2>1, <2>2, <2>3, <2>4
<1>6. o = W - 1 => Mask("masked", o) = Upper
  BY <1>1, <1>2 DEF Upper
<1>7. o \in IntBits .. W - 2 => Mask("masked", o) = {o - IntBits} /\ o - IntBits \in 0 .. IntBits - 2
  BY <1>1, <1>2
<1> QED
  BY <1>3, <1>4, <1>5, <1>6, <1>7

(* Every entry but the first has its bit set, and is where FewSlotsUsed    *)
(* says.                                                                   *)
Marks(m, L) ==
    /\ m.bm \in [0 .. NumWords - 1 -> SUBSET Bits]
    /\ \A e \in L \ {0} :
          /\ Mask("masked", e % W) \subseteq m.bm[e \div W]
          /\ IF UpperAgree(m.bm[e \div W]) THEN e % W = W - 1 ELSE e % W \in IntBits .. W - 2

LEMMA InsertSlotIs ==
    ASSUME MaskedBuild, NEW m, FreeSlots(m) # {}, NEW k, k = InsertSlot(m)
    PROVE  /\ k \in FreeSlots(m) /\ k \in Slots /\ k % W \in IntBits .. W - 1
           /\ UpperAgree(m.bm[k \div W]) <=> k % W = W - 1
<1> DEFINE F == FreeSlots(m)
<1>1. F = {j \in Slots : /\ W - 1 \notin m.bm[j \div W] /\ ~(0 .. W - 2 \subseteq m.bm[j \div W])
                         /\ m.bm[j \div W] \cap Mask("masked", j % W) = {}}
  BY DEF FreeSlots, MaskedBuild
<1>2. F # {} /\ F \subseteq Slots
  BY <1>1
<1>s. /\ W \in Nat /\ IntBits \in Nat /\ IntBits >= 2 /\ W = 2 * IntBits
  BY Sizes
<1> HIDE DEF F
<1>3. PICK j0 \in F : \A j \in F : ~(j \div W < j0 \div W)
  <2> DEFINE T == {j \div W : j \in F}
  <2>1. T \in SUBSET Nat /\ T # {}
    BY <1>2, SlotParts
  <2> HIDE DEF T
  <2>2. PICK w \in T : \A y \in T : ~(y < w)
    BY <2>1, Least
  <2> QED
    BY <2>2 DEF T
<1>4. PICK j1 \in F : /\ j1 \div W = j0 \div W
                      /\ \A j \in F : j \div W = j0 \div W => j % W =< j1 % W
  <2> DEFINE T == {W - 1 - (j % W) : j \in {i \in F : i \div W = j0 \div W}}
  <2>1. T \in SUBSET Nat /\ T # {}
    <3>1. \A j \in F : W - 1 - (j % W) \in Nat
      BY <1>2, <1>s, SlotParts
    <3> QED
      BY <1>3, <3>1
  <2> HIDE DEF T
  <2>2. PICK y \in T : \A x \in T : ~(x < y)
    BY <2>1, Least
  <2>3. PICK j1 \in F : j1 \div W = j0 \div W /\ y = W - 1 - (j1 % W)
    BY <2>2 DEF T
  <2>4. \A j \in F : j \div W = j0 \div W => ~(W - 1 - (j % W) < W - 1 - (j1 % W))
    BY <2>2, <2>3 DEF T
  <2>5. \A j \in F : j % W \in Int
    BY <1>2, <1>s, SlotParts
  <2> QED
    BY <1>s, <2>3, <2>4, <2>5
<1>5. \A j \in F : j1 \div W < j \div W \/ (j1 \div W = j \div W /\ j1 >= j)
  <2> SUFFICES ASSUME NEW j \in F PROVE j1 \div W < j \div W \/ (j1 \div W = j \div W /\ j1 >= j)
    OBVIOUS
  <2>1. /\ j \div W \in Nat /\ j1 \div W \in Nat /\ j % W \in Int /\ j1 % W \in Int
        /\ j = (j \div W) * W + (j % W) /\ j1 = (j1 \div W) * W + (j1 % W)
    BY <1>2, <1>s, SlotParts
  <2>2. CASE j \div W = j1 \div W
    <3>1. j % W =< j1 % W
      BY <1>4, <2>2
    <3>2. \A p \in Int, x, y \in Int : x =< y => p + y >= p + x
      OBVIOUS
    <3>3. (j \div W) * W \in Int
      BY <1>s, <2>1
    <3> QED
      BY <2>1, <2>2, <3>1, <3>2, <3>3
  <2>3. CASE j \div W # j1 \div W
    BY <1>3, <1>4, <2>1, <2>3
  <2> QED
    BY <2>2, <2>3
<1>6. k \in F /\ \A j \in F : k \div W < j \div W \/ (k \div W = j \div W /\ k >= j)
  BY <1>5 DEF InsertSlot, F
<1>7. k \in Slots /\ k \div W \in 0 .. NumWords - 1 /\ k % W \in 0 .. W - 1
      /\ k = (k \div W) * W + (k % W)
  BY <1>2, <1>6, SlotParts
<1> DEFINE w == k \div W
           word == m.bm[w]
<1>8. W - 1 \notin word /\ ~(0 .. W - 2 \subseteq word) /\ word \cap Mask("masked", k % W) = {}
  BY <1>1, <1>6
\* A slot of the same word that is free as well is not above k.
<1>9. ASSUME NEW o \in 0 .. W - 1, word \cap Mask("masked", o) = {} PROVE o =< k % W
  <2> DEFINE j == w * W + o
  <2>1. j \in Slots /\ j \div W = w /\ j % W = o
    BY <1>7, SlotOf
  <2> HIDE DEF j
  <2>2. j \in F
    BY <1>1, <1>8, <1>9, <2>1
  <2>3. k >= j
    BY <1>6, <1>7, <2>1, <2>2
  <2>4. w * W \in Int
    BY <1>7, <1>s
  <2> QED
    BY <1>7, <1>s, <2>3, <2>4 DEF j
<1> HIDE DEF w, word
<1>10. k % W >= IntBits
  <2> SUFFICES ASSUME k % W < IntBits PROVE FALSE
    BY <1>7, <1>s
  <2>1. /\ (k % W) + IntBits \in 0 .. W - 1
        /\ Mask("masked", k % W) = Mask("masked", (k % W) + IntBits)
    BY <1>7, MaskIs
  <2>2. (k % W) + IntBits =< k % W
    BY <1>8, <1>9, <2>1
  <2> QED
    BY <1>7, <1>s, <2>2
<1>11. W - 1 \in 0 .. W - 1 /\ Mask("masked", W - 1) = Upper /\ W - 1 \in Upper
  BY <1>s, MaskIs DEF Upper
<1>12. UpperAgree(word) <=> word \cap Upper = {}
  BY <1>8, <1>11 DEF UpperAgree
<1>13. k % W = W - 1 => word \cap Upper = {}
  BY <1>8, <1>11
<1>14. word \cap Upper = {} => k % W = W - 1
  BY <1>7, <1>9, <1>11, <1>s
<1> QED
  BY <1>6, <1>7, <1>10, <1>12, <1>13, <1>14 DEF F, word, w

-----------------------------------------------------------------------------
(* Addresses wrap at AddrMod *)

LEMMA Wraps ==
    ASSUME NEW x \in Int, NEW r \in Address, NEW q \in Int, x = q * AddrMod + r
    PROVE  x % AddrMod = r
<1>1. AddrMod \in Nat \ {0}
  BY Sizes
<1>2. /\ x \div AddrMod \in Int /\ x % AddrMod \in 0 .. AddrMod - 1
      /\ x = AddrMod * (x \div AddrMod) + (x % AddrMod)
  <2>1. \A y \in Int, d \in Nat \ {0} :
            y \div d \in Int /\ y % d \in 0 .. d - 1 /\ y = d * (y \div d) + (y % d)
    OBVIOUS
  <2> QED
    BY <1>1, <2>1
<1> DEFINE p == x \div AddrMod
           s == x % AddrMod
<1>3. p \in Int /\ s \in 0 .. AddrMod - 1 /\ q * AddrMod + r = p * AddrMod + s
  BY <1>1, <1>2
<1>4. r \in 0 .. AddrMod - 1
  BY DEF Address
<1> HIDE DEF p, s
<1>5. p = q
  <2>1. \A y, z \in Int : y < z => y * AddrMod + AddrMod =< z * AddrMod
    <3> SUFFICES ASSUME NEW y \in Int, NEW z \in Int, y < z
                 PROVE  y * AddrMod + AddrMod =< z * AddrMod
      OBVIOUS
    <3>1. (z - y - 1) * AddrMod >= 0
      BY <1>1
    <3> QED
      BY <1>1, <3>1
  <2>2. p * AddrMod \in Int /\ q * AddrMod \in Int
    BY <1>1, <1>3
  <2> QED
    BY <1>1, <1>3, <1>4, <2>1, <2>2
<1>6. s = r
  <2>1. p * AddrMod \in Int
    BY <1>1, <1>3
  <2> QED
    BY <1>3, <1>4, <1>5, <2>1
<1> QED
  BY <1>6 DEF s

LEMMA AddIs ==
    ASSUME NEW a \in Address, NEW b \in Address
    PROVE  /\ Add(a, b) \in Address
           /\ Add(a, b) = IF a + b < AddrMod THEN a + b ELSE a + b - AddrMod
<1>1. AddrMod \in Nat \ {0} /\ a \in Nat /\ b \in Nat /\ a < AddrMod /\ b < AddrMod
  BY Sizes DEF Address
<1>2. CASE a + b < AddrMod
  <2>1. a + b \in Address /\ a + b = 0 * AddrMod + (a + b)
    BY <1>1, <1>2 DEF Address
  <2> QED
    BY <1>1, <1>2, <2>1, Wraps DEF Add
<1>3. CASE ~(a + b < AddrMod)
  <2>1. a + b - AddrMod \in Address /\ a + b = 1 * AddrMod + (a + b - AddrMod)
    BY <1>1, <1>3 DEF Address
  <2> QED
    BY <1>1, <1>3, <2>1, Wraps DEF Add
<1> QED
  BY <1>2, <1>3

LEMMA SubIs ==
    ASSUME NEW a \in Address, NEW b \in Address
    PROVE  /\ Sub(a, b) \in Address
           /\ Sub(a, b) = IF a >= b THEN a - b ELSE a - b + AddrMod
<1>1. AddrMod \in Nat \ {0} /\ a \in Nat /\ b \in Nat /\ a < AddrMod /\ b < AddrMod
  BY Sizes DEF Address
<1>2. CASE a >= b
  <2>1. a - b \in Address /\ a - b = 0 * AddrMod + (a - b)
    BY <1>1, <1>2 DEF Address
  <2> QED
    BY <1>1, <1>2, <2>1, Wraps DEF Sub
<1>3. CASE ~(a >= b)
  <2>1. a - b + AddrMod \in Address /\ a - b = (-1) * AddrMod + (a - b + AddrMod)
    BY <1>1, <1>3 DEF Address
  <2> QED
    BY <1>1, <1>3, <2>1, Wraps DEF Sub
<1> QED
  BY <1>2, <1>3

LEMMA AddAdd ==
    ASSUME NEW a \in Address, NEW b \in Address, NEW c \in Address
    PROVE  Add(a, Add(b, c)) = Add(Add(a, b), c)
<1>1. AddrMod \in Nat /\ Address = 0 .. AddrMod - 1
  BY Sizes DEF Address
<1>2. PICK p \in Address : p = Add(b, c)
  BY AddIs
<1>3. PICK q \in Address : q = Add(a, b)
  BY AddIs
<1>4. /\ p = IF b + c < AddrMod THEN b + c ELSE b + c - AddrMod
      /\ q = IF a + b < AddrMod THEN a + b ELSE a + b - AddrMod
      /\ Add(a, p) = IF a + p < AddrMod THEN a + p ELSE a + p - AddrMod
      /\ Add(q, c) = IF q + c < AddrMod THEN q + c ELSE q + c - AddrMod
  BY <1>2, <1>3, AddIs
<1>5. Add(a, p) = Add(q, c)
  BY <1>1, <1>4
<1> QED
  BY <1>2, <1>3, <1>5

LEMMA SubAdd ==
    ASSUME NEW a \in Address, NEW b \in Address
    PROVE  Sub(Add(a, b), b) = a /\ Add(b, Sub(a, b)) = a /\ Add(Sub(a, b), b) = a
<1>1. AddrMod \in Nat /\ Address = 0 .. AddrMod - 1
  BY Sizes DEF Address
<1>2. PICK p \in Address : p = Add(a, b)
  BY AddIs
<1>3. PICK q \in Address : q = Sub(a, b)
  BY SubIs
<1>4. /\ p = IF a + b < AddrMod THEN a + b ELSE a + b - AddrMod
      /\ q = IF a >= b THEN a - b ELSE a - b + AddrMod
      /\ Sub(p, b) = IF p >= b THEN p - b ELSE p - b + AddrMod
      /\ Add(b, q) = IF b + q < AddrMod THEN b + q ELSE b + q - AddrMod
      /\ Add(q, b) = IF q + b < AddrMod THEN q + b ELSE q + b - AddrMod
  BY <1>2, <1>3, AddIs, SubIs
<1>5. Sub(p, b) = a /\ Add(b, q) = a /\ Add(q, b) = a
  BY <1>1, <1>4
<1> QED
  BY <1>2, <1>3, <1>5

(* What Split leaves above the freed range ends where the entry ended.     *)
LEMMA SplitEnd ==
    ASSUME NEW b \in Address, NEW l \in Address, NEW a \in Address, NEW x \in Address
    PROVE  Add(Add(a, x), Sub(Sub(l, Sub(a, b)), x)) = Add(b, l)
<1> DEFINE d == Sub(a, b)
           r == Sub(l, d)
           s == Sub(r, x)
<1>1. d \in Address /\ Add(b, d) = a
  BY SubIs, SubAdd
<1>2. r \in Address /\ Add(d, r) = l
  <2> HIDE DEF d
  <2> QED
    BY <1>1, SubIs, SubAdd
<1>3. s \in Address /\ Add(x, s) = r
  <2> HIDE DEF r
  <2> QED
    BY <1>2, SubIs, SubAdd
<1> HIDE DEF d, r, s
<1>4. Add(Add(a, x), s) = Add(a, r)
  BY <1>3, AddAdd
<1>5. Add(a, r) = Add(b, l)
  BY <1>1, <1>2, AddAdd
<1> QED
  BY <1>4, <1>5 DEF s, r, d

(* What is asked for in one call does not wrap.                            *)
LEMMA Asked ==
    ASSUME NEW n \in Counts \cup Jumps \cup {1}
    PROVE  n \in Nat /\ n * Page \in Address /\ Ceiling + n * Page < AddrMod
<1>1. n \in Nat /\ Page \in Nat /\ Ceiling \in Nat /\ AddrMod \in Nat
  BY Sizes, VirtualAssumption
<1>2. n * Page \in Nat
  BY <1>1
<1>3. Ceiling + n * Page < AddrMod
  BY BoundsAssumption
<1> QED
  BY <1>1, <1>2, <1>3 DEF Address

-----------------------------------------------------------------------------
(* An entry leaves the list, or joins it                                   *)

LEMMA LinksKept ==
    ASSUME NEW m, NEW L, NEW D, Links(m, L, D), NEW m2, m2.first = m.first,
           \A e \in L : Next_(m2, e) = Next_(m, e)
    PROVE  Links(m2, L, D)
<1>1. \A e \in L : Next_(m2, e) \in (L \ {0}) \cup {Null}
  BY DEF Links
<1>2. \A e \in L : Next_(m2, e) # Null => D[Next_(m2, e)] > D[e]
  BY DEF Links
<1>3. \A d, e \in L : Next_(m2, d) = Next_(m2, e) /\ Next_(m2, d) # Null => d = e
  BY DEF Links
<1>4. \A e \in L \ {0} : \E d \in L : Next_(m2, d) = e
  BY DEF Links
<1> QED
  BY <1>1, <1>2, <1>3, <1>4 DEF Links

LEMMA LinksWithout ==
    ASSUME NEW m, NEW L, NEW D, Links(m, L, D), NEW t \in L, NEW n, n = Next_(m, t), n # Null,
           NEW m2, m2.first = m.first, Next_(m2, t) = Next_(m, n),
           \A e \in L \ {t, n} : Next_(m2, e) = Next_(m, e)
    PROVE  Links(m2, L \ {n}, D) /\ n \in L \ {0}
<1>1. n \in L \ {0} /\ D[n] > D[t]
  BY DEF Links
<1>2. \A e \in L : D[e] \in Nat
  BY DEF Links
<1>3. t # n
  BY <1>1, <1>2
<1>4. Next_(m, n) # n
  BY <1>1, <1>2 DEF Links
<1>5. \A e \in L \ {t} : Next_(m, e) # n
  BY <1>1 DEF Links
<1>6. \A e \in L \ {n} : Next_(m2, e) = IF e = t THEN Next_(m, n) ELSE Next_(m, e)
  OBVIOUS
<1>7. \A e \in L \ {n} : Next_(m2, e) \in ((L \ {n}) \ {0}) \cup {Null}
  BY <1>1, <1>4, <1>5, <1>6 DEF Links
<1>8. \A e \in L \ {n} : Next_(m2, e) # Null => D[Next_(m2, e)] > D[e]
  <2>1. Next_(m, n) # Null => D[Next_(m, n)] > D[t]
    <3>1. Next_(m, n) # Null => D[Next_(m, n)] > D[n] /\ Next_(m, n) \in L
      BY <1>1 DEF Links
    <3> QED
      BY <1>1, <1>2, <3>1
  <2> QED
    BY <1>6, <2>1 DEF Links
<1>9. \A d, e \in L \ {n} : Next_(m2, d) = Next_(m2, e) /\ Next_(m2, d) # Null => d = e
  BY <1>1, <1>6 DEF Links
<1>10. \A e \in (L \ {n}) \ {0} : \E d \in L \ {n} : Next_(m2, d) = e
  <2> SUFFICES ASSUME NEW e \in (L \ {n}) \ {0} PROVE \E d \in L \ {n} : Next_(m2, d) = e
    OBVIOUS
  <2>1. PICK d \in L : Next_(m, d) = e
    BY DEF Links
  <2>2. d # t
    BY <2>1
  <2>3. CASE d = n
    BY <1>3, <1>6, <2>1, <2>3
  <2>4. CASE d # n
    BY <1>6, <2>1, <2>2, <2>4
  <2> QED
    BY <2>3, <2>4
<1>11. L \ {n} \in SUBSET Slots /\ 0 \in L \ {n} /\ m2.first = 0 /\ D \in [Slots -> Nat]
  BY <1>1 DEF Links
<1> QED
  BY <1>1, <1>7, <1>8, <1>9, <1>10, <1>11 DEF Links

LEMMA LinksWith ==
    ASSUME NEW m, NEW L, NEW D, Links(m, L, D), NEW t \in L, NEW k \in Slots, k \notin L,
           NEW m2, m2.first = m.first, Next_(m2, t) = k, Next_(m2, k) = Next_(m, t),
           \A e \in L \ {t} : Next_(m2, e) = Next_(m, e)
    PROVE  \E D2 : Links(m2, L \cup {k}, D2)
<1> DEFINE D2 == [e \in Slots |-> IF e = k THEN 2 * D[t] + 1 ELSE 2 * D[e]]
           K  == L \cup {k}
<1>1. L \subseteq Slots /\ \A e \in L : D[e] \in Nat
  BY DEF Links
<1>2. D2 \in [Slots -> Nat]
  BY <1>1 DEF Links
<1>3. D2[k] = 2 * D[t] + 1 /\ \A e \in L : D2[e] = 2 * D[e]
  BY <1>1
<1> HIDE DEF D2
<1>4. k # Null /\ k # 0
  BY SlotNumbers DEF Links
<1>5. \A e \in K : Next_(m2, e) \in (K \ {0}) \cup {Null}
  BY <1>4 DEF Links
<1>6. \A e \in K : Next_(m2, e) # Null => D2[Next_(m2, e)] > D2[e]
  <2> SUFFICES ASSUME NEW e \in K, Next_(m2, e) # Null PROVE D2[Next_(m2, e)] > D2[e]
    OBVIOUS
  <2>1. CASE e = t
    BY <1>1, <1>3, <2>1
  <2>2. CASE e = k
    <3>1. Next_(m, t) \in L /\ D[Next_(m, t)] > D[t]
      BY <2>2 DEF Links
    <3> QED
      BY <1>1, <1>3, <2>2, <3>1
  <2>3. CASE e \in L \ {t}
    <3>1. Next_(m, e) \in L /\ D[Next_(m, e)] > D[e]
      BY <2>3 DEF Links
    <3> QED
      BY <1>1, <1>3, <2>3, <3>1
  <2> QED
    BY <2>1, <2>2, <2>3
<1>7. \A d, e \in K : Next_(m2, d) = Next_(m2, e) /\ Next_(m2, d) # Null => d = e
  <2>1. \A e \in L : Next_(m, e) # k
    BY <1>4 DEF Links
  <2> QED
    BY <2>1 DEF Links
<1>8. \A e \in K \ {0} : \E d \in K : Next_(m2, d) = e
  <2> SUFFICES ASSUME NEW e \in K \ {0} PROVE \E d \in K : Next_(m2, d) = e
    OBVIOUS
  <2>1. CASE e = k
    BY <2>1
  <2>2. CASE e # k
    <3>1. PICK d \in L : Next_(m, d) = e
      BY <2>2 DEF Links
    <3> QED
      BY <3>1
  <2> QED
    BY <2>1, <2>2
<1>9. K \in SUBSET Slots /\ 0 \in K /\ m2.first = 0
  BY <1>1 DEF Links
<1>10. Links(m2, K, D2)
  BY <1>2, <1>5, <1>6, <1>7, <1>8, <1>9 DEF Links
<1> QED
  BY <1>10

LEMMA NewSlot ==
    ASSUME MaskedBuild, NEW m, NEW L, L \subseteq Slots, Marks(m, L), FreeSlots(m) # {},
           NEW k, k = InsertSlot(m)
    PROVE  k \in Slots /\ k # 0 /\ k \notin L
<1>1. /\ k \in Slots /\ k % W \in IntBits .. W - 1
      /\ m.bm[k \div W] \cap Mask("masked", k % W) = {}
  BY InsertSlotIs DEF FreeSlots, MaskedBuild
<1>2. Mask("masked", k % W) # {}
  BY <1>1, SlotParts, MaskIs
<1>3. k # 0
  <2>1. IntBits \in Nat /\ IntBits > 0 /\ W \in Nat \ {0} /\ NumWords \in Nat \ {0}
    BY Sizes
  <2>2. 0 \in 0 .. NumWords - 1 /\ 0 \in 0 .. W - 1 /\ 0 = 0 * W + 0
    BY <2>1
  <2>3. 0 % W = 0
    BY <2>2, SlotOf
  <2> QED
    BY <1>1, <2>1, <2>3
<1> QED
  BY <1>1, <1>2, <1>3 DEF Marks

LEMMA InsertMarks ==
    ASSUME MaskedBuild, NEW m, NEW L, L \subseteq Slots, Marks(m, L), FreeSlots(m) # {},
           NEW k, k = InsertSlot(m), NEW m2, DOMAIN m2.bm = 0 .. NumWords - 1,
           m2.bm[k \div W] = m.bm[k \div W] \cup Mask("masked", k % W),
           \A w \in (0 .. NumWords - 1) \ {k \div W} : m2.bm[w] = m.bm[w],
           m2.bm \in [0 .. NumWords - 1 -> SUBSET Bits]
    PROVE  Marks(m2, L \cup {k})
<1> DEFINE u == m.bm[k \div W]
           M == Mask("masked", k % W)
<1>s. /\ W \in Nat /\ IntBits \in Nat /\ IntBits >= 2 /\ W = 2 * IntBits
  BY Sizes
<1>1. /\ k \in Slots /\ k % W \in IntBits .. W - 1 /\ k \notin L
      /\ (UpperAgree(u) <=> k % W = W - 1) /\ W - 1 \notin u
  BY InsertSlotIs, NewSlot DEF FreeSlots, MaskedBuild
<1>2. /\ k % W = W - 1 => M = Upper
      /\ k % W \in IntBits .. W - 2 => M \cap Upper = {}
  <2>1. /\ k % W = W - 1 => M = Upper
        /\ k % W \in IntBits .. W - 2 => /\ M = {(k % W) - IntBits}
                                        /\ (k % W) - IntBits \in 0 .. IntBits - 2
    BY <1>1, SlotParts, MaskIs
  <2>2. \A x \in 0 .. IntBits - 2 : x \notin Upper
    BY <1>s DEF Upper
  <2> QED
    BY <2>1, <2>2
<1>3. k % W = W - 1 \/ k % W \in IntBits .. W - 2
  BY <1>1, <1>s
<1>4. UpperAgree(u \cup M) <=> UpperAgree(u)
  <2>1. CASE k % W = W - 1
    BY <1>1, <1>2, <2>1 DEF UpperAgree
  <2>2. CASE k % W \in IntBits .. W - 2
    <3>1. (u \cup M) \cap Upper = u \cap Upper /\ (Upper \subseteq u \cup M <=> Upper \subseteq u)
      BY <1>2, <2>2
    <3> QED
      BY <3>1 DEF UpperAgree
  <2> QED
    BY <1>3, <2>1, <2>2
<1> HIDE DEF u, M
<1>5. \A e \in (L \cup {k}) \ {0} :
          /\ Mask("masked", e % W) \subseteq m2.bm[e \div W]
          /\ IF UpperAgree(m2.bm[e \div W]) THEN e % W = W - 1 ELSE e % W \in IntBits .. W - 2
  <2> SUFFICES ASSUME NEW e \in (L \cup {k}) \ {0}
               PROVE  /\ Mask("masked", e % W) \subseteq m2.bm[e \div W]
                      /\ IF UpperAgree(m2.bm[e \div W]) THEN e % W = W - 1
                         ELSE e % W \in IntBits .. W - 2
    OBVIOUS
  <2>1. CASE e = k
    BY <1>1, <1>3, <1>4, <2>1 DEF u, M
  <2>2. CASE e # k
    <3>1. /\ Mask("masked", e % W) \subseteq m.bm[e \div W]
          /\ IF UpperAgree(m.bm[e \div W]) THEN e % W = W - 1 ELSE e % W \in IntBits .. W - 2
      BY <2>2 DEF Marks
    <3>2. e \in Slots /\ e \div W \in 0 .. NumWords - 1
      BY <1>1, SlotParts
    <3>3. CASE e \div W # k \div W
      BY <3>1, <3>2, <3>3
    <3>4. CASE e \div W = k \div W
      BY <1>4, <3>1, <3>4 DEF u, M
    <3> QED
      BY <3>3, <3>4
  <2> QED
    BY <2>1, <2>2
<1> QED
  BY <1>5 DEF Marks

-----------------------------------------------------------------------------
(* The operations on a map that is whole                                   *)

Entry == [base : Address, len : Address, next : Slots \cup {Null}]

Maps == [slot : [Slots -> Entry], first : Slots \cup {Null},
         bm : [0 .. NumWords - 1 -> SUBSET Bits]]

Whole(m) ==
    /\ m \in Maps
    /\ Marks(m, Listed(m))
    /\ \E D : Links(m, Listed(m), D)

Base(m, e) == m.slot[e].base
Length(m, e)  == m.slot[e].len

LEMMA WholeIs ==
    ASSUME NEW m \in Maps, NEW L, NEW D, Links(m, L, D), Marks(m, L)
    PROVE  Whole(m) /\ Listed(m) = L
<1>1. Listed(m) = L
  BY ListedIs
<1> QED
  BY <1>1 DEF Whole

LEMMA WholeHas ==
    ASSUME NEW m, Whole(m)
    PROVE  /\ m \in Maps /\ Listed(m) \subseteq Slots /\ 0 \in Listed(m) /\ m.first = 0
           /\ \A e \in Slots : /\ Base(m, e) \in Address /\ Length(m, e) \in Address
                              /\ Next_(m, e) \in Slots \cup {Null}
                              /\ m.slot[e] = [base |-> Base(m, e), len |-> Length(m, e),
                                              next |-> Next_(m, e)]
                              /\ End(m, e) = Add(Base(m, e), Length(m, e)) /\ End(m, e) \in Address
           /\ \A e \in Listed(m) : HasNext(m, e) =>
                 /\ Next_(m, e) \in Listed(m) \ {0} /\ Next_(m, e) # e
                 /\ NextBase(m, e) = Base(m, Next_(m, e))
<1>1. PICK D : Links(m, Listed(m), D)
  BY DEF Whole
<1>2. m \in Maps /\ Listed(m) \subseteq Slots /\ 0 \in Listed(m) /\ m.first = 0
  BY <1>1 DEF Whole, Links
<1>3. \A e \in Slots : m.slot[e] \in Entry
  BY <1>2 DEF Maps
<1>4. \A e \in Slots : /\ Base(m, e) \in Address /\ Length(m, e) \in Address
                       /\ Next_(m, e) \in Slots \cup {Null}
                       /\ m.slot[e] = [base |-> Base(m, e), len |-> Length(m, e),
                                       next |-> Next_(m, e)]
  BY <1>3 DEF Entry, Base, Length, Next_
<1>5. \A e \in Slots : End(m, e) = Add(Base(m, e), Length(m, e)) /\ End(m, e) \in Address
  BY <1>4, AddIs DEF End, Base, Length
<1>6. \A e \in Listed(m) : HasNext(m, e) =>
         /\ Next_(m, e) \in Listed(m) \ {0} /\ Next_(m, e) # e
         /\ NextBase(m, e) = Base(m, Next_(m, e))
  <2> SUFFICES ASSUME NEW e \in Listed(m), HasNext(m, e)
               PROVE  /\ Next_(m, e) \in Listed(m) \ {0} /\ Next_(m, e) # e
                      /\ NextBase(m, e) = Base(m, Next_(m, e))
    OBVIOUS
  <2>1. Next_(m, e) # Null
    BY DEF HasNext, Next_
  <2>2. Next_(m, e) \in Listed(m) \ {0} /\ D[Next_(m, e)] > D[e]
    BY <1>1, <2>1 DEF Links
  <2>3. D[e] \in Nat
    BY <1>1, <1>2 DEF Links
  <2> QED
    BY <2>2, <2>3 DEF NextBase, Base, Next_
<1> QED
  BY <1>2, <1>4, <1>5, <1>6

(* m2 is m with another entry in slot t.                                   *)
Sets(m2, m, t, b, l, x) ==
    /\ m2 \in Maps /\ m2.first = m.first /\ m2.bm = m.bm
    /\ Base(m2, t) = b /\ Length(m2, t) = l /\ Next_(m2, t) = x
    /\ \A e \in Slots \ {t} : m2.slot[e] = m.slot[e]

LEMMA SetSlot ==
    ASSUME NEW m \in Maps, NEW t \in Slots, NEW r \in Entry, NEW m2,
           m2 = [m EXCEPT !.slot = [m.slot EXCEPT ![t] = r]]
    PROVE  Sets(m2, m, t, r.base, r.len, r.next)
<1> DEFINE s == [m.slot EXCEPT ![t] = r]
<1>1. m.slot \in [Slots -> Entry]
  BY DEF Maps
<1>2. s \in [Slots -> Entry] /\ s[t] = r /\ \A e \in Slots \ {t} : s[e] = m.slot[e]
  BY <1>1
<1>3. m2 = [m EXCEPT !.slot = s]
  OBVIOUS
<1> HIDE DEF s
<1>4. m2 \in Maps /\ m2.slot = s /\ m2.first = m.first /\ m2.bm = m.bm
  BY <1>2, <1>3 DEF Maps
<1> QED
  BY <1>2, <1>4 DEF Sets, Base, Length, Next_

LEMMA SetField ==
    ASSUME NEW m \in Maps, NEW t \in Slots, NEW v, NEW m2
    PROVE  /\ v \in Address /\ m2 = [m EXCEPT !.slot[t].base = v] =>
                  Sets(m2, m, t, v, Length(m, t), Next_(m, t))
           /\ v \in Address /\ m2 = [m EXCEPT !.slot[t].len = v] =>
                  Sets(m2, m, t, Base(m, t), v, Next_(m, t))
           /\ v \in Slots \cup {Null} /\ m2 = [m EXCEPT !.slot[t].next = v] =>
                  Sets(m2, m, t, Base(m, t), Length(m, t), v)
<1>1. m.slot[t] \in Entry
  BY DEF Maps
<1>2. ASSUME v \in Address, m2 = [m EXCEPT !.slot[t].base = v]
      PROVE  Sets(m2, m, t, v, Length(m, t), Next_(m, t))
  <2> DEFINE r == [m.slot[t] EXCEPT !.base = v]
  <2>1. r \in Entry /\ r.base = v /\ r.len = m.slot[t].len /\ r.next = m.slot[t].next
    BY <1>1, <1>2 DEF Entry
  <2>2. m2 = [m EXCEPT !.slot = [m.slot EXCEPT ![t] = r]]
    BY <1>2 DEF Maps
  <2> HIDE DEF r
  <2> QED
    BY <2>1, <2>2, SetSlot DEF Length, Next_
<1>3. ASSUME v \in Address, m2 = [m EXCEPT !.slot[t].len = v]
      PROVE  Sets(m2, m, t, Base(m, t), v, Next_(m, t))
  <2> DEFINE r == [m.slot[t] EXCEPT !.len = v]
  <2>1. r \in Entry /\ r.base = m.slot[t].base /\ r.len = v /\ r.next = m.slot[t].next
    BY <1>1, <1>3 DEF Entry
  <2>2. m2 = [m EXCEPT !.slot = [m.slot EXCEPT ![t] = r]]
    BY <1>3 DEF Maps
  <2> HIDE DEF r
  <2> QED
    BY <2>1, <2>2, SetSlot DEF Base, Next_
<1>4. ASSUME v \in Slots \cup {Null}, m2 = [m EXCEPT !.slot[t].next = v]
      PROVE  Sets(m2, m, t, Base(m, t), Length(m, t), v)
  <2> DEFINE r == [m.slot[t] EXCEPT !.next = v]
  <2>1. r \in Entry /\ r.base = m.slot[t].base /\ r.len = m.slot[t].len /\ r.next = v
    BY <1>1, <1>4 DEF Entry
  <2>2. m2 = [m EXCEPT !.slot = [m.slot EXCEPT ![t] = r]]
    BY <1>4 DEF Maps
  <2> HIDE DEF r
  <2> QED
    BY <2>1, <2>2, SetSlot DEF Base, Length
<1> QED
  BY <1>2, <1>3, <1>4

\* What SetField says of two fields in turn.
LEMMA SetsTwice ==
    ASSUME NEW m, NEW m1, NEW m2, NEW t, NEW b, NEW l, NEW x, NEW b2, NEW l2, NEW x2,
           Sets(m1, m, t, b, l, x), Sets(m2, m1, t, b2, l2, x2)
    PROVE  Sets(m2, m, t, b2, l2, x2)
BY DEF Sets

(* An entry of the list is resized or moved.                               *)
LEMMA ResizeIs ==
    ASSUME NEW m, Whole(m), NEW t \in Listed(m), NEW b, NEW l,
           NEW m2, Sets(m2, m, t, b, l, Next_(m, t))
    PROVE  Whole(m2) /\ Listed(m2) = Listed(m)
<1>1. \A e \in Slots : Next_(m2, e) = Next_(m, e)
  BY DEF Sets, Next_
<1>2. PICK D : Links(m, Listed(m), D)
  BY DEF Whole
<1>3. Links(m2, Listed(m), D)
  BY <1>1, <1>2, LinksKept, WholeHas DEF Sets
<1>4. Marks(m2, Listed(m))
  BY DEF Marks, Whole, Sets
<1> QED
  BY <1>3, <1>4, WholeIs DEF Sets

(* Clearing the bit of an entry other than the first changes nothing.      *)
LEMMA ClearIs ==
    ASSUME MaskedBuild, NEW m, Whole(m), NEW n \in Listed(m) \ {0}
    PROVE  ClearSlot(m.bm, n) = m.bm
<1>1. n \in Slots /\ (n % W = W - 1 \/ n % W \in IntBits .. W - 2)
  BY WholeHas DEF Whole, Marks
<1>2. n % W >= IntBits
  BY <1>1, Sizes
<1> QED
  BY <1>1, <1>2, ClearsNothing

LEMMA AbsorbIs ==
    ASSUME MaskedBuild, NEW m, Whole(m), NEW t \in Listed(m), HasNext(m, t),
           NEW n, n = Next_(m, t), NEW m2, m2 = Absorb(m, t)
    PROVE  /\ Whole(m2) /\ Listed(m2) = Listed(m) \ {n} /\ n \in Listed(m) \ {0} /\ t # n
           /\ Sets(m2, m, t, Base(m, t), Add(Length(m, t), Length(m, n)), Next_(m, n))
<1>1. t \in Slots /\ m \in Maps
  BY WholeHas DEF Maps
<1>2. n \in Listed(m) \ {0} /\ n # t /\ n \in Slots /\ n # Null /\ n = m.slot[t].next
  BY WholeHas, SlotNumbers DEF Next_
<1> DEFINE l  == Add(Length(m, t), Length(m, n))
           x  == Next_(m, n)
           m1 == [m EXCEPT !.slot[t].len = l]
           m3 == [m1 EXCEPT !.slot[t].next = x]
<1>3. l \in Address /\ x \in Slots \cup {Null}
  BY <1>1, <1>2, WholeHas, AddIs
<1>4. m2 = [m EXCEPT !.slot[t].len = l, !.slot[t].next = x, !.bm = ClearSlot(m.bm, n)]
  BY <1>2 DEF Absorb, Next_, Length
<1>5. m2 = [m3 EXCEPT !.bm = ClearSlot(m.bm, n)]
  <2> HIDE DEF l, x
  <2> QED
    BY <1>4
<1>6. Sets(m1, m, t, Base(m, t), l, Next_(m, t))
  <2> HIDE DEF l
  <2> QED
    BY <1>1, <1>3, SetField
<1> HIDE DEF m1
<1>7. Base(m1, t) = Base(m, t) /\ Length(m1, t) = l /\ m1 \in Maps
  BY <1>6 DEF Sets
<1>8. Sets(m3, m1, t, Base(m, t), l, x)
  <2> HIDE DEF l, x
  <2> QED
    BY <1>1, <1>3, <1>7, SetField
<1> HIDE DEF m3, l, x
<1>9. Sets(m3, m, t, Base(m, t), l, x)
  BY <1>6, <1>8, SetsTwice
<1>10. m2 = m3
  <2>1. ClearSlot(m.bm, n) = m3.bm
    BY <1>2, <1>9, ClearIs DEF Sets
  <2>2. m3 \in Maps
    BY <1>9 DEF Sets
  <2> QED
    BY <1>5, <2>1, <2>2 DEF Maps
<1>11. Sets(m2, m, t, Base(m, t), l, x)
  BY <1>9, <1>10
<1>12. /\ Next_(m2, t) = Next_(m, n) /\ m2.first = m.first
       /\ \A e \in Slots \ {t} : Next_(m2, e) = Next_(m, e)
  BY <1>11 DEF Sets, Next_, x
<1>13. PICK D : Links(m, Listed(m), D)
  BY DEF Whole
<1>14. Listed(m) \subseteq Slots
  BY WholeHas
<1>15. Links(m2, Listed(m) \ {n}, D)
  BY <1>2, <1>12, <1>13, <1>14, LinksWithout, ZenonT(40)
<1>16. Marks(m2, Listed(m) \ {n})
  BY <1>11 DEF Marks, Whole, Sets
<1>17. m2 \in Maps
  BY <1>11 DEF Sets
<1>18. Whole(m2) /\ Listed(m2) = Listed(m) \ {n}
  BY <1>15, <1>16, <1>17, WholeIs
<1> QED
  BY <1>2, <1>11, <1>18 DEF l, x

\* m2 is m with one more entry, after entry t.
Inserted(m2, m, t, b, l) ==
    \E k \in Slots \ Listed(m) :
        /\ k # 0 /\ Whole(m2) /\ Listed(m2) = Listed(m) \cup {k}
        /\ Base(m2, k) = b /\ Length(m2, k) = l
        /\ Next_(m2, t) = k /\ Next_(m2, k) = Next_(m, t)
        /\ \A e \in Listed(m) \ {t} : Next_(m2, e) = Next_(m, e)
        /\ \A e \in Listed(m) : Base(m2, e) = Base(m, e) /\ Length(m2, e) = Length(m, e)

(* A new entry either finds a slot, and the others stay, or nothing        *)
(* happens.                                                                *)
LEMMA InsertIs ==
    ASSUME MaskedBuild, NEW m, Whole(m), NEW t \in Listed(m), NEW b \in Address, NEW l \in Address,
           NEW o, o = Insert(m, t, b, l)
    PROVE  /\ o.status = "ok" /\ o.frame = b
           /\ FreeSlots(m) = {} => o.m = m /\ o.ret = -1
           /\ FreeSlots(m) # {} => Inserted(o.m, m, t, b, l)
<1>1. CASE FreeSlots(m) = {}
  <2>1. o = Returns(m, -1, b)
    BY <1>1 DEF Insert
  <2> QED
    BY <1>1, <2>1 DEF Returns
<1>2. CASE FreeSlots(m) # {}
  <2>1. PICK k : k = InsertSlot(m)
    OBVIOUS
  <2>2. /\ m \in Maps /\ Listed(m) \subseteq Slots /\ t \in Slots
        /\ Next_(m, t) \in Slots \cup {Null} /\ Marks(m, Listed(m))
    BY WholeHas DEF Whole
  <2>3. k \in Slots /\ k # 0 /\ k \notin Listed(m) /\ k # t
    BY <1>2, <2>1, <2>2, NewSlot
  <2> DEFINE r  == [base |-> b, len |-> l, next |-> Next_(m, t)]
             m1 == [m EXCEPT !.slot = [m.slot EXCEPT ![k] = r]]
             m3 == [m1 EXCEPT !.slot[t].next = k]
             w  == k \div W
             u  == m.bm[w] \cup Mask("masked", k % W)
             m2 == [m3 EXCEPT !.bm[w] = u]
  <2>4. r \in Entry /\ r.base = b /\ r.len = l /\ r.next = Next_(m, t)
    BY <2>2 DEF Entry
  <2>5. w \in 0 .. NumWords - 1 /\ u \in SUBSET Bits
    <3>1. k % W \in 0 .. W - 1 /\ w \in 0 .. NumWords - 1
      BY <2>3, SlotParts
    <3>2. Mask("masked", k % W) \subseteq Bits
      BY <3>1, MaskIs
    <3> QED
      BY <2>2, <3>1, <3>2 DEF Maps
  <2>6. o = Returns(m2, 0, b)
    <3>1. o = Returns([m EXCEPT !.slot = [[m.slot EXCEPT ![k] = r] EXCEPT ![t].next = k],
                                !.bm[w] = @ \cup Mask(InsertShift, k % W)], 0, b)
      BY <1>2, <2>1 DEF Insert
    <3>2. [m EXCEPT !.slot = [[m.slot EXCEPT ![k] = r] EXCEPT ![t].next = k],
                    !.bm[w] = @ \cup Mask("masked", k % W)] = m2
      <4> DEFINE M == Mask("masked", k % W)
      <4>1. m1.bm = m.bm /\ m3.bm = m.bm
        <5> HIDE DEF r
        <5> QED
          BY <2>2 DEF Maps
      <4>2. [m EXCEPT !.slot = [[m.slot EXCEPT ![k] = r] EXCEPT ![t].next = k]] = m3
        <5> HIDE DEF r
        <5> QED
          BY <2>2 DEF Maps
      <4>3. [m EXCEPT !.slot = [[m.slot EXCEPT ![k] = r] EXCEPT ![t].next = k],
                      !.bm[w] = @ \cup M]
              = [m3 EXCEPT !.bm[w] = m.bm[w] \cup M]
        <5> HIDE DEF r, w, M, m3, m1
        <5> QED
          BY <2>2, <4>2 DEF Maps
      <4> QED
        BY <4>3
    <3> QED
      BY <3>1, <3>2 DEF MaskedBuild
  <2>7. Sets(m1, m, k, b, l, Next_(m, t))
    <3> HIDE DEF r
    <3>1. Sets(m1, m, k, r.base, r.len, r.next)
      BY <2>2, <2>3, <2>4, SetSlot
    <3> QED
      BY <2>4, <3>1
  <2> HIDE DEF m1
  <2>8. Sets(m3, m1, t, Base(m1, t), Length(m1, t), k)
    <3>1. m1 \in Maps
      BY <2>7 DEF Sets
    <3> QED
      BY <2>2, <2>3, <3>1, SetField
  <2> HIDE DEF m3
  <2>9. /\ m3 \in Maps /\ m3.first = m.first /\ m3.bm = m.bm
        /\ Base(m3, k) = b /\ Length(m3, k) = l /\ Next_(m3, k) = Next_(m, t)
        /\ Next_(m3, t) = k
        /\ \A e \in Listed(m) : Base(m3, e) = Base(m, e) /\ Length(m3, e) = Length(m, e)
        /\ \A e \in Listed(m) \ {t} : Next_(m3, e) = Next_(m, e)
    BY <2>2, <2>3, <2>7, <2>8 DEF Sets, Base, Length, Next_
  <2>10. /\ m2 \in Maps /\ m2.slot = m3.slot /\ m2.first = m.first
         /\ m2.bm[w] = u /\ \A v \in (0 .. NumWords - 1) \ {w} : m2.bm[v] = m.bm[v]
         /\ m2.bm \in [0 .. NumWords - 1 -> SUBSET Bits]
    <3> HIDE DEF u, w
    <3>1. m3.bm \in [0 .. NumWords - 1 -> SUBSET Bits]
      BY <2>9 DEF Maps
    <3> DEFINE c == [m3.bm EXCEPT ![w] = u]
    <3>2. c \in [0 .. NumWords - 1 -> SUBSET Bits] /\ c[w] = u
          /\ \A v \in (0 .. NumWords - 1) \ {w} : c[v] = m3.bm[v]
      BY <2>5, <3>1
    <3>3. m2 = [m3 EXCEPT !.bm = c]
      BY <2>9 DEF Maps
    <3> HIDE DEF c, m2
    <3>4. m2.bm = c /\ m2.slot = m3.slot /\ m2.first = m3.first /\ m2 \in Maps
      BY <2>9, <3>2, <3>3 DEF Maps
    <3> QED
      BY <2>9, <3>2, <3>4
  <2> HIDE DEF m2
  <2>11. Marks(m2, Listed(m) \cup {k})
    <3>1. /\ m2.bm[k \div W] = m.bm[k \div W] \cup Mask("masked", k % W)
          /\ \A v \in (0 .. NumWords - 1) \ {k \div W} : m2.bm[v] = m.bm[v]
          /\ m2.bm \in [0 .. NumWords - 1 -> SUBSET Bits] /\ DOMAIN m2.bm = 0 .. NumWords - 1
      BY <2>10 DEF u, w
    <3> QED
      BY <1>2, <2>1, <2>2, <3>1, InsertMarks
  <2>12. PICK D : Links(m, Listed(m), D)
    BY DEF Whole
  <2>13. /\ Next_(m2, t) = k /\ Next_(m2, k) = Next_(m, t)
         /\ \A e \in Listed(m) \ {t} : Next_(m2, e) = Next_(m, e)
    BY <2>9, <2>10 DEF Next_
  <2>14. PICK D2 : Links(m2, Listed(m) \cup {k}, D2)
    BY <2>3, <2>10, <2>12, <2>13, LinksWith
  <2>15. Whole(m2) /\ Listed(m2) = Listed(m) \cup {k}
    BY <2>10, <2>11, <2>14, WholeIs
  <2>16. o.m = m2 /\ o.status = "ok" /\ o.frame = b
    BY <2>6 DEF Returns
  <2>17. /\ Base(m2, k) = b /\ Length(m2, k) = l
         /\ \A e \in Listed(m) : Base(m2, e) = Base(m, e) /\ Length(m2, e) = Length(m, e)
    BY <2>9, <2>10 DEF Base, Length
  <2>18. Inserted(m2, m, t, b, l)
    BY <2>3, <2>13, <2>15, <2>17 DEF Inserted
  <2> QED
    BY <1>2, <2>16, <2>18
<1> QED
  BY <1>1, <1>2

(* The entry found for a leaves the list.                                  *)
LEMMA UnlinkIs ==
    ASSUME MaskedBuild, NEW m, Whole(m), NEW a, NEW e, e = Find(m, a), e # 0,
           NEW m2, m2 = Unlink(m, FindAt(m, a))
    PROVE  /\ Whole(m2) /\ Listed(m2) = Listed(m) \ {e}
           /\ \A d \in Slots : Base(m2, d) = Base(m, d) /\ Length(m2, d) = Length(m, d)
<1>1. PICK D : Links(m, Listed(m), D)
  BY DEF Whole
<1>2. PICK j : j = FindAt(m, a)
  OBVIOUS
<1>3. PICK p : p = Chain(m)[j - 1]
  OBVIOUS
<1>4. e \in Listed(m) /\ Chain(m)[j] = e /\ j # 0 /\ p \in Listed(m) /\ Next_(m, p) = e
  BY <1>1, <1>2, <1>3, FindIs
<1>5. m \in Maps /\ p \in Slots /\ e \in Slots /\ Next_(m, e) \in Slots \cup {Null} /\ e # Null
  BY <1>4, WholeHas, SlotNumbers
<1> DEFINE x  == Next_(m, e)
           m1 == [m EXCEPT !.slot[p].next = x]
<1>6. m2 = [m1 EXCEPT !.bm = ClearSlot(@, e)]
  BY <1>2, <1>3, <1>4 DEF Unlink
<1>7. Sets(m1, m, p, Base(m, p), Length(m, p), x)
  <2> HIDE DEF x
  <2> QED
    BY <1>5, SetField DEF x
<1> HIDE DEF m1
<1>8. m2 = m1
  <2>1. ClearSlot(m1.bm, e) = m1.bm
    BY <1>4, <1>7, ClearIs DEF Sets
  <2>2. m1 \in Maps
    BY <1>7 DEF Sets
  <2> QED
    BY <1>6, <2>1, <2>2 DEF Maps
<1>9. /\ Next_(m2, p) = Next_(m, e) /\ m2.first = m.first /\ m2 \in Maps /\ m2.bm = m.bm
      /\ \A d \in Slots \ {p} : Next_(m2, d) = Next_(m, d)
      /\ \A d \in Slots : Base(m2, d) = Base(m, d) /\ Length(m2, d) = Length(m, d)
  BY <1>5, <1>7, <1>8 DEF Sets, Next_, Base, Length
<1>10. Listed(m) \subseteq Slots
  BY WholeHas
<1>11. Links(m2, Listed(m) \ {e}, D)
  BY <1>1, <1>4, <1>5, <1>9, <1>10, LinksWithout
<1>12. Marks(m2, Listed(m) \ {e})
  BY <1>9 DEF Marks, Whole
<1> QED
  BY <1>9, <1>11, <1>12, WholeIs

-----------------------------------------------------------------------------
(* The first entry begins where page_allocator_init put it and keeps the   *)
(* pages it had then; the others begin and end above those pages.  So none *)
(* of them is handed out, and nobody can free one.                         *)
Floor == Base0 + Length0

Ranged(m) ==
    /\ Base(m, 0) = Base0
    /\ \A e \in Listed(m) \ {0} : Base(m, e) >= Floor
    /\ \A e \in Listed(m) : End(m, e) \in Floor .. Ceiling

Below(m) == \A e \in Listed(m) : m.slot[e].base + m.slot[e].len =< Ceiling

Fits(o) ==
    /\ Whole(o.m) /\ o.status \in {"ok", "fault"}
    /\ Below(o.m) =>
          /\ Ranged(o.m)
          /\ o.ret = 0 /\ o.frame # NoFrame => o.frame \in Floor .. Ceiling

LEMMA BelowIs ==
    ASSUME NEW m, Whole(m), Below(m), NEW e \in Listed(m)
    PROVE  End(m, e) = Base(m, e) + Length(m, e) /\ End(m, e) =< Ceiling
<1>1. Base(m, e) \in Address /\ Length(m, e) \in Address /\ End(m, e) = Add(Base(m, e), Length(m, e))
  BY WholeHas
<1>2. Base(m, e) + Length(m, e) =< Ceiling
  BY DEF Below, Base, Length
<1>3. Ceiling < AddrMod /\ Ceiling \in Nat /\ AddrMod \in Nat
  BY Sizes
<1>4. PICK p \in Address, q \in Address : p = Base(m, e) /\ q = Length(m, e)
  BY <1>1
<1>5. Add(p, q) = IF p + q < AddrMod THEN p + q ELSE p + q - AddrMod
  BY AddIs
<1>6. p \in Nat /\ q \in Nat /\ p + q =< Ceiling
  BY <1>2, <1>3, <1>4 DEF Address
<1>7. Add(p, q) = p + q
  BY <1>3, <1>5, <1>6
<1> QED
  BY <1>1, <1>4, <1>6, <1>7

LEMMA Numbers ==
    /\ Address = 0 .. AddrMod - 1 /\ AddrMod \in Nat \ {0} /\ Base0 \in Nat /\ Ceiling \in Nat
    /\ Ceiling < AddrMod /\ Page \in Nat \ {0} /\ Ceiling + 1 < AddrMod /\ 1 \in Address
    /\ Floor \in Nat /\ Base0 < Floor /\ Floor =< Ceiling
BY Sizes DEF Address, Floor

\* An entry of which only the size changed, before the next is looked at.
LEMMA LongerIs ==
    ASSUME NEW m, Whole(m), Ranged(m), NEW t \in Listed(m),
           NEW bytes \in Address, Ceiling + bytes < AddrMod,
           NEW m1, m1 = [m EXCEPT !.slot[t].len = Add(@, bytes)]
    PROVE  /\ Whole(m1) /\ Listed(m1) = Listed(m)
           /\ Sets(m1, m, t, Base(m, t), Add(Length(m, t), bytes), Next_(m, t))
           /\ End(m1, t) = End(m, t) + bytes /\ End(m1, t) \in Address
           /\ \A e \in Slots \ {t} : End(m1, e) = End(m, e) /\ Base(m1, e) = Base(m, e)
<1>1. t \in Slots /\ m \in Maps /\ Base(m, t) \in Address /\ Length(m, t) \in Address
      /\ End(m, t) = Add(Base(m, t), Length(m, t)) /\ End(m, t) \in Address
  BY WholeHas
<1>2. PICK l \in Address : l = Add(Length(m, t), bytes)
  BY <1>1, AddIs
<1>3. m1 = [m EXCEPT !.slot[t].len = l]
  BY <1>2 DEF Length
<1>4. Sets(m1, m, t, Base(m, t), l, Next_(m, t))
  BY <1>1, <1>3, SetField
<1>5. Whole(m1) /\ Listed(m1) = Listed(m)
  BY <1>4, ResizeIs
<1>6. End(m1, t) = Add(Base(m, t), l)
  BY <1>4 DEF Sets, End, Base, Length
<1>7. Add(Base(m, t), l) = Add(End(m, t), bytes)
  BY <1>1, <1>2, AddAdd
<1>8. End(m, t) \in Floor .. Ceiling
  BY DEF Ranged
<1>9. Add(End(m, t), bytes) = End(m, t) + bytes /\ Add(End(m, t), bytes) \in Address
  BY <1>1, <1>8, AddIs, Numbers
<1>10. \A e \in Slots \ {t} : End(m1, e) = End(m, e) /\ Base(m1, e) = Base(m, e)
  BY <1>4 DEF Sets, End, Base
<1> QED
  BY <1>2, <1>4, <1>5, <1>6, <1>7, <1>9, <1>10

LEMMA LongerFits ==
    ASSUME NEW m, Whole(m), Ranged(m), NEW t \in Listed(m),
           NEW bytes \in Address, Ceiling + bytes < AddrMod,
           NEW m1, m1 = [m EXCEPT !.slot[t].len = Add(@, bytes)], Below(m1)
    PROVE  Ranged(m1)
<1>1. /\ Whole(m1) /\ Listed(m1) = Listed(m)
      /\ Base(m1, t) = Base(m, t) /\ End(m1, t) = End(m, t) + bytes
      /\ \A e \in Slots \ {t} : End(m1, e) = End(m, e) /\ Base(m1, e) = Base(m, e)
  BY LongerIs DEF Sets
<1>2. End(m1, t) =< Ceiling
  BY <1>1, BelowIs
<1>3. End(m, t) \in Floor .. Ceiling
  BY DEF Ranged
<1>4. End(m1, t) \in Floor .. Ceiling
  BY <1>1, <1>2, <1>3, Numbers
<1>5. Listed(m) \subseteq Slots /\ 0 \in Slots
  BY WholeHas
<1> QED
  BY <1>1, <1>4, <1>5 DEF Ranged

(* When the next entry is joined, its end becomes the end.                 *)
LEMMA GrowUpFits ==
    ASSUME MaskedBuild, NEW m, Whole(m), Ranged(m), NEW t \in Listed(m),
           NEW bytes \in Address, Ceiling + bytes < AddrMod,
           NEW m2, m2 = GrowUp(m, t, bytes)
    PROVE  Whole(m2) /\ (Below(m2) => Ranged(m2))
<1>1. PICK m1 : m1 = [m EXCEPT !.slot[t].len = Add(@, bytes)]
  OBVIOUS
<1>2. m2 = IF HasNext(m1, t) /\ End(m1, t) = NextBase(m1, t) THEN Absorb(m1, t) ELSE m1
  BY <1>1 DEF GrowUp, JoinIfTouching
<1>3. /\ Whole(m1) /\ Listed(m1) = Listed(m)
      /\ Base(m1, t) = Base(m, t) /\ End(m1, t) = End(m, t) + bytes
      /\ \A e \in Slots \ {t} : End(m1, e) = End(m, e) /\ Base(m1, e) = Base(m, e)
  BY <1>1, LongerIs DEF Sets
<1>4. CASE HasNext(m1, t) /\ End(m1, t) = NextBase(m1, t)
  <2>1. PICK n : n = Next_(m1, t)
    OBVIOUS
  <2>2. m2 = Absorb(m1, t) /\ t \in Listed(m1)
    BY <1>2, <1>3, <1>4
  <2>3. /\ Whole(m2) /\ Listed(m2) = Listed(m1) \ {n} /\ n \in Listed(m1) \ {0} /\ t # n
        /\ Sets(m2, m1, t, Base(m1, t), Add(Length(m1, t), Length(m1, n)), Next_(m1, n))
    BY <1>3, <1>4, <2>1, <2>2, AbsorbIs
  <2>4. /\ t \in Slots /\ n \in Slots
        /\ Base(m1, t) \in Address /\ Length(m1, t) \in Address
        /\ Base(m1, n) \in Address /\ Length(m1, n) \in Address
        /\ End(m1, t) = Add(Base(m1, t), Length(m1, t)) /\ End(m1, n) = Add(Base(m1, n), Length(m1, n))
        /\ NextBase(m1, t) = Base(m1, n)
    BY <1>3, <1>4, <2>1, <2>2, <2>3, WholeHas
  <2>5. End(m2, t) = Add(Base(m1, t), Add(Length(m1, t), Length(m1, n)))
    BY <2>3 DEF Sets, End, Base, Length
  <2>6. End(m2, t) = Add(Add(Base(m1, t), Length(m1, t)), Length(m1, n))
    BY <2>4, <2>5, AddAdd
  <2>7. End(m2, t) = End(m1, n)
    BY <1>4, <2>4, <2>6
  <2>8. End(m1, n) = End(m, n) /\ n \in Listed(m)
    BY <1>3, <2>3, <2>4
  <2>9. /\ Base(m2, t) = Base(m, t)
        /\ \A e \in Slots \ {t} : End(m2, e) = End(m, e) /\ Base(m2, e) = Base(m, e)
    BY <1>3, <2>3 DEF Sets, End, Base
  <2>10. Listed(m) \subseteq Slots /\ 0 \in Slots
    BY WholeHas
  <2> QED
    BY <1>3, <2>3, <2>7, <2>8, <2>9, <2>10 DEF Ranged
<1>5. CASE ~(HasNext(m1, t) /\ End(m1, t) = NextBase(m1, t))
  BY <1>1, <1>2, <1>3, <1>5, LongerFits
<1> QED
  BY <1>4, <1>5

(* The next entry grows down to hold a range that touches it.              *)
LEMMA GrowDownIs ==
    ASSUME NEW m, Whole(m), NEW t \in Listed(m), NEW a \in Address, NEW bytes \in Address,
           HasNext(m, t), NextBase(m, t) = Add(a, bytes),
           NEW o, o = PlaceAfter(m, t, a, bytes), NEW n, n = Next_(m, t)
    PROVE  /\ Whole(o.m) /\ Listed(o.m) = Listed(m) /\ n \in Listed(m) \ {0} /\ n # t
           /\ Sets(o.m, m, n, a, Add(Length(m, n), bytes), Next_(m, n))
           /\ o.frame = a /\ o.ret = 0 /\ o.status = "ok"
<1>1. /\ n # t /\ n \in Listed(m) \ {0} /\ n \in Slots /\ NextBase(m, t) = Base(m, n) /\ m \in Maps
      /\ Base(m, n) \in Address /\ Length(m, n) \in Address
      /\ End(m, n) = Add(Base(m, n), Length(m, n))
  BY WholeHas
<1>2. Base(m, n) = Add(a, bytes) /\ Sub(Base(m, n), bytes) = a
  <2>1. Base(m, n) = Add(a, bytes)
    BY <1>1
  <2>2. Sub(Add(a, bytes), bytes) = a
    BY SubAdd
  <2> QED
    BY <2>1, <2>2
<1>3. PICK l \in Address : l = Add(Length(m, n), bytes)
  BY <1>1, AddIs
<1>4. PICK m1 : m1 = [m EXCEPT !.slot[n].base = a]
  OBVIOUS
<1>5. PICK m2 : m2 = [m1 EXCEPT !.slot[n].len = l]
  OBVIOUS
<1>6. o = Returns(m2, 0, a)
  <2>1. o = Returns(GrowDown(m, t, bytes), 0, a)
    BY DEF PlaceAfter
  <2>2. GrowDown(m, t, bytes) = [m EXCEPT !.slot[n].base = Sub(m.slot[n].base, bytes),
                                          !.slot[n].len = Add(m.slot[n].len, bytes)]
    BY <1>1 DEF GrowDown, Maps, Entry
  <2>3. GrowDown(m, t, bytes) = [m EXCEPT !.slot[n].base = a, !.slot[n].len = l]
    BY <1>2, <1>3, <2>2 DEF Base, Length
  <2>4. GrowDown(m, t, bytes) = m2
    BY <1>4, <1>5, <2>3
  <2> QED
    BY <2>1, <2>4
<1>7. Sets(m1, m, n, a, Length(m, n), Next_(m, n))
  BY <1>1, <1>4, SetField
<1>8. Sets(m2, m1, n, a, l, Next_(m, n))
  <2>1. m1 \in Maps /\ Base(m1, n) = a /\ Next_(m1, n) = Next_(m, n)
    BY <1>7 DEF Sets
  <2>2. Sets(m2, m1, n, Base(m1, n), l, Next_(m1, n))
    BY <1>1, <1>3, <1>5, <2>1, SetField
  <2> QED
    BY <2>1, <2>2
<1>9. Sets(m2, m, n, a, l, Next_(m, n))
  BY <1>7, <1>8, SetsTwice
<1>10. Whole(m2) /\ Listed(m2) = Listed(m)
  BY <1>1, <1>9, ResizeIs
<1>11. o.m = m2 /\ o.frame = a /\ o.ret = 0 /\ o.status = "ok"
  BY <1>6 DEF Returns
<1> QED
  BY <1>1, <1>3, <1>9, <1>10, <1>11

(* A range above the first entry is placed above it.                       *)
LEMMA PlaceAfterFits ==
    ASSUME MaskedBuild, NEW m, Whole(m), Ranged(m), NEW t \in Listed(m),
           NEW a \in Address, a >= Floor, NEW bytes \in Address,
           NEW o, o = PlaceAfter(m, t, a, bytes)
    PROVE  Fits(o)
<1>1. CASE HasNext(m, t) /\ NextBase(m, t) = Add(a, bytes)
  <2>1. PICK n : n = Next_(m, t)
    OBVIOUS
  <2>2. /\ n \in Listed(m) \ {0} /\ n \in Slots /\ NextBase(m, t) = Base(m, n)
        /\ Base(m, n) \in Address /\ Length(m, n) \in Address
        /\ End(m, n) = Add(Base(m, n), Length(m, n))
    BY <1>1, <2>1, WholeHas
  <2>3. Base(m, n) = Add(a, bytes)
    BY <1>1, <2>2
  <2>4. PICK l \in Address : l = Add(Length(m, n), bytes)
    BY <2>2, AddIs
  <2>5. PICK m2 : m2 = o.m
    OBVIOUS
  <2>10. Sets(m2, m, n, a, l, Next_(m, n))
    BY <1>1, <2>1, <2>4, <2>5, GrowDownIs
  <2>11. Whole(m2) /\ Listed(m2) = Listed(m)
    BY <1>1, <2>1, <2>5, GrowDownIs
  <2>12. End(m2, n) = End(m, n)
    <3>1. End(m2, n) = Add(a, l)
      BY <2>10 DEF Sets, End, Base, Length
    <3>2. l = Add(bytes, Length(m, n))
      BY <2>2, <2>4, Numbers DEF Add
    <3>3. Add(a, l) = Add(Add(a, bytes), Length(m, n))
      BY <2>2, <3>2, AddAdd
    <3> QED
      BY <2>2, <2>3, <3>1, <3>3
  <2>13. \A e \in Slots \ {n} : End(m2, e) = End(m, e) /\ Base(m2, e) = Base(m, e)
    BY <2>10 DEF Sets, End, Base
  <2>14. Listed(m) \subseteq Slots /\ 0 \in Slots
    BY WholeHas
  <2>15. Ranged(m2)
    BY <2>2, <2>10, <2>11, <2>12, <2>13, <2>14 DEF Ranged, Sets
  <2>16. Below(m2) => a =< Ceiling
    <3> SUFFICES ASSUME Below(m2) PROVE a =< Ceiling
      OBVIOUS
    <3>1. a + l =< Ceiling
      BY <2>2, <2>10, <2>11 DEF Below, Sets, Base, Length
    <3> QED
      BY <2>4, <3>1, Numbers
  <2>17. o.m = m2 /\ o.frame = a /\ o.status = "ok"
    BY <1>1, <2>1, <2>5, GrowDownIs
  <2> QED
    BY <2>11, <2>15, <2>16, <2>17, Numbers DEF Fits
<1>2. CASE ~(HasNext(m, t) /\ NextBase(m, t) = Add(a, bytes))
  <2>1. o = Insert(m, t, a, bytes)
    BY <1>2 DEF PlaceAfter
  <2>2. CASE FreeSlots(m) = {}
    <3>1. o.m = m /\ o.ret = -1 /\ o.status = "ok"
      BY <2>1, <2>2, InsertIs
    <3> QED
      BY <3>1 DEF Fits
  <2>3. CASE FreeSlots(m) # {}
    <3>1. o.frame = a /\ o.status = "ok"
      BY <2>1, InsertIs
    <3>2. PICK k \in Slots \ Listed(m) :
             /\ k # 0 /\ Whole(o.m) /\ Listed(o.m) = Listed(m) \cup {k}
             /\ Base(o.m, k) = a /\ Length(o.m, k) = bytes
             /\ \A e \in Listed(m) : Base(o.m, e) = Base(m, e) /\ Length(o.m, e) = Length(m, e)
      BY <2>1, <2>3, InsertIs DEF Inserted
    <3>3. \A e \in Listed(m) : End(o.m, e) = End(m, e)
      BY <3>2 DEF End, Base, Length
    <3>4. ASSUME Below(o.m) PROVE Ranged(o.m) /\ a \in Floor .. Ceiling
      <4>1. End(o.m, k) = a + bytes /\ a + bytes =< Ceiling
        BY <3>2, <3>4, BelowIs
      <4>2. End(o.m, k) \in Floor .. Ceiling /\ a \in Floor .. Ceiling
        BY <4>1, Numbers
      <4>3. 0 \in Listed(m)
        BY WholeHas
      <4> QED
        BY <3>2, <3>3, <4>2, <4>3 DEF Ranged
    <3> QED
      BY <3>1, <3>2, <3>4 DEF Fits
  <2> QED
    BY <2>2, <2>3
<1> QED
  BY <1>1, <1>2

-----------------------------------------------------------------------------
(* The allocation functions                                                *)

LEMMA OnePage == Page \in Address /\ Ceiling + Page < AddrMod
<1>1. Page \in Nat /\ Ceiling \in Nat /\ AddrMod \in Nat /\ Ceiling + Page < AddrMod
  BY Sizes
<1> QED
  BY <1>1 DEF Address

LEMMA StayFits ==
    ASSUME NEW m, Whole(m), Ranged(m), NEW o, o.m = m, o.ret # 0, o.status \in {"ok", "fault"}
    PROVE  Fits(o)
BY DEF Fits

LEMMA GrowFits ==
    ASSUME MaskedBuild, NEW m, Whole(m), Ranged(m), NEW t \in Listed(m),
           NEW bytes \in Address, Ceiling + bytes < AddrMod,
           NEW f, f = NoFrame \/ f \in Floor .. Ceiling
    PROVE  Fits(Returns(GrowUp(m, t, bytes), 0, f))
<1>1. PICK m2 : m2 = GrowUp(m, t, bytes)
  OBVIOUS
<1>2. Whole(m2) /\ (Below(m2) => Ranged(m2))
  BY <1>1, GrowUpFits
<1> QED
  BY <1>1, <1>2 DEF Fits, Returns

LEMMA FindHas ==
    ASSUME NEW m, Whole(m), Ranged(m), NEW a
    PROVE  /\ Find(m, a) \in Listed(m) /\ End(m, Find(m, a)) \in Floor .. Ceiling
           /\ FindAt(m, a) \in 0 .. Null - 1 /\ Chain(m)[FindAt(m, a)] = Find(m, a)
<1>1. PICK D : Links(m, Listed(m), D)
  BY DEF Whole
<1>2. /\ Find(m, a) \in Listed(m) /\ FindAt(m, a) \in 0 .. Null - 1
      /\ Chain(m)[FindAt(m, a)] = Find(m, a)
  BY <1>1, FindIs
<1> QED
  BY <1>2 DEF Ranged

LEMMA VirtualAllocFits ==
    ASSUME MaskedBuild, NEW m, Whole(m), Ranged(m)
    PROVE  Fits(VirtualAlloc(m))
<1>1. m.first \in Listed(m) /\ End(m, m.first) \in Floor .. Ceiling
  BY WholeHas DEF Ranged
<1>2. CASE End(m, m.first) = 0
  BY <1>1, <1>2, Numbers
<1>3. CASE End(m, m.first) # 0
  <2>1. VirtualAlloc(m) = Returns(GrowUp(m, m.first, 1), 0, End(m, m.first))
    BY <1>3 DEF VirtualAlloc
  <2> QED
    BY <1>1, <2>1, GrowFits, Numbers
<1> QED
  BY <1>2, <1>3

LEMMA AllocAtFits ==
    ASSUME MaskedBuild, NEW m, Whole(m), Ranged(m), NEW a \in Address
    PROVE  Fits(AllocAt(m, a))
<1>1. PICK t : t = Find(m, a)
  OBVIOUS
<1>2. t \in Listed(m) /\ End(m, t) \in Floor .. Ceiling
  BY <1>1, FindHas
<1>3. AllocAt(m, a) = IF End(m, t) > a THEN Returns(m, 1, a)
                      ELSE IF End(m, t) = a THEN Returns(GrowUp(m, t, Page), 0, a)
                      ELSE PlaceAfter(m, t, a, Page)
  BY <1>1 DEF AllocAt
<1>4. CASE End(m, t) > a
  BY <1>3, <1>4, StayFits DEF Returns
<1>5. CASE ~(End(m, t) > a) /\ End(m, t) = a
  BY <1>2, <1>3, <1>5, GrowFits, OnePage
<1>6. CASE ~(End(m, t) > a) /\ End(m, t) # a
  <2>1. a >= Floor
    BY <1>2, <1>6, Numbers
  <2> QED
    BY <1>2, <1>3, <1>6, <2>1, PlaceAfterFits, OnePage
<1> QED
  BY <1>4, <1>5, <1>6

LEMMA AllocAfterFits ==
    ASSUME MaskedBuild, NEW m, Whole(m), Ranged(m), NEW b \in Address
    PROVE  Fits(AllocAfter(m, b))
<1>1. PICK t : t = Find(m, b)
  OBVIOUS
<1>2. t \in Listed(m) /\ End(m, t) \in Floor .. Ceiling
  BY <1>1, FindHas
<1>3. AllocAfter(m, b) = IF End(m, t) >= b THEN Returns(GrowUp(m, t, Page), 0, End(m, t))
                         ELSE PlaceAfter(m, t, b, Page)
  BY <1>1 DEF AllocAfter
<1>4. CASE End(m, t) >= b
  BY <1>2, <1>3, <1>4, GrowFits, OnePage
<1>5. CASE ~(End(m, t) >= b)
  <2>1. b >= Floor
    BY <1>2, <1>5, Numbers
  <2> QED
    BY <1>2, <1>3, <1>5, <2>1, PlaceAfterFits, OnePage
<1> QED
  BY <1>4, <1>5

LEMMA JumpIs ==
    ASSUME NEW m, Whole(m), Ranged(m), NEW t \in Listed(m), NEW j \in Jumps
    PROVE  Add(End(m, t), j * Page) \in Address /\ Add(End(m, t), j * Page) >= Floor
<1>1. PICK x \in Address : x = j * Page /\ Ceiling + x < AddrMod
  BY Asked
<1>2. PICK y \in Address : y = End(m, t) /\ y \in Floor .. Ceiling
  BY Numbers DEF Ranged
<1>3. Add(y, x) = y + x /\ Add(y, x) \in Address
  BY <1>1, <1>2, AddIs, Numbers
<1>4. y + x >= Floor
  BY <1>1, <1>2, Numbers
<1> QED
  BY <1>1, <1>2, <1>3, <1>4

LEMMA BeyondIs ==
    ASSUME NEW m, Whole(m), Ranged(m), NEW t \in Listed(m), NEW b \in Address, NEW j \in Jumps
    PROVE  Beyond(m, t, b, j) \in Address /\ Beyond(m, t, b, j) >= Floor
<1>1. PICK f : f = Add(End(m, t), j * Page)
  OBVIOUS
<1>2. f \in Address /\ f >= Floor
  BY <1>1, JumpIs
<1>3. Beyond(m, t, b, j) = IF f < b THEN b ELSE f
  BY <1>1 DEF Beyond
<1>4. f < b => b >= Floor
  BY <1>2, Numbers
<1> QED
  BY <1>2, <1>3, <1>4

LEMMA AllocBeyondFits ==
    ASSUME MaskedBuild, NEW m, Whole(m), Ranged(m), NEW b \in Address, NEW j \in Jumps
    PROVE  Fits(AllocBeyond(m, b, j))
<1>1. PICK t : t = Find(m, b)
  OBVIOUS
<1>2. PICK f : f = Beyond(m, t, b, j)
  OBVIOUS
<1>3. t \in Listed(m) /\ f \in Address /\ f >= Floor
  BY <1>1, <1>2, FindHas, BeyondIs
<1>4. AllocBeyond(m, b, j) =
          IF j = 0 THEN AllocAfter(m, b)
          ELSE IF HasNext(m, t) /\ NextBase(m, t) =< f THEN Returns(m, 1, f)
          ELSE IF HasNext(m, t) /\ NextBase(m, t) # Add(f, Page) /\ End(m, Next_(m, t)) = f
          THEN Returns(GrowUp(m, Next_(m, t), Page), 0, f)
          ELSE PlaceAfter(m, t, f, Page)
  BY <1>1, <1>2 DEF AllocBeyond
<1>5. HasNext(m, t) => Next_(m, t) \in Listed(m) /\ End(m, Next_(m, t)) \in Floor .. Ceiling
  BY <1>3, WholeHas DEF Ranged
<1>6. Fits(AllocAfter(m, b)) /\ Fits(Returns(m, 1, f)) /\ Fits(PlaceAfter(m, t, f, Page))
  <2>1. Fits(Returns(m, 1, f))
    BY StayFits DEF Returns
  <2> QED
    BY <1>3, <2>1, AllocAfterFits, PlaceAfterFits, OnePage
<1>7. HasNext(m, t) /\ End(m, Next_(m, t)) = f => Fits(Returns(GrowUp(m, Next_(m, t), Page), 0, f))
  BY <1>5, GrowFits, OnePage
<1> QED
  BY <1>4, <1>6, <1>7

(* A walk along the list that is due to stop at its last entry stops.      *)
LEMMA WalkStops ==
    ASSUME NEW m, Whole(m), NEW i \in 0 .. Null - 1, Chain(m)[i] # Null,
           NEW ends, ends \subseteq i .. Null - 1,
           \A k \in ends : Chain(m)[k] # Null,
           \A k \in i .. Null - 1 :
               Chain(m)[k] # Null /\ ~HasNext(m, Chain(m)[k]) => k \in ends,
           NEW k, k = CHOOSE x \in ends : \A y \in ends : x =< y
    PROVE  k \in ends /\ Chain(m)[k] \in Listed(m)
<1>1. PICK c : c = Chain(m)
  OBVIOUS
<1>2. PICK D : Links(m, Listed(m), D)
  BY DEF Whole
<1>3. Walk(m, c) /\ c[Null] = Null
  BY <1>1, <1>2, ChainIs, ChainEnds
<1>4. ends # {}
  <2> DEFINE T == {x \in i .. Null : c[x] = Null}
  <2>1. Null \in T /\ T \in SUBSET Nat
    BY <1>3, SlotNumbers
  <2>2. PICK x \in T : \A y \in T : ~(y < x)
    <3> HIDE DEF T
    <3> QED
      BY <2>1, Least
  <2>3. x \in i .. Null /\ c[x] = Null /\ x # i
    BY <1>1, <2>2
  <2>4. x \in 1 .. Null /\ x - 1 \in i .. Null - 1 /\ x - 1 \in i .. Null /\ x - 1 < x
    BY <2>3, SlotNumbers
  <2>5. c[x - 1] # Null
    BY <2>2, <2>4
  <2>6. Next_(m, c[x - 1]) = Null
    BY <1>3, <2>3, <2>4, <2>5 DEF Walk
  <2> QED
    BY <1>1, <2>4, <2>5, <2>6 DEF HasNext, Next_
<1>5. ends \in SUBSET Nat /\ ends \subseteq 0 .. Null
  BY SlotNumbers
<1>6. PICK x \in ends : \A y \in ends : ~(y < x)
  BY <1>4, <1>5, Least
<1>7. \A y \in ends : x =< y
  BY <1>5, <1>6
<1>8. k \in ends
  BY <1>7
<1>9. c[k] \in Listed(m)
  <2>1. c[k] # Null
    BY <1>1, <1>8
  <2>2. \A y \in 0 .. Null : c[y] \in Listed(m) \cup {Null}
    BY <1>2, <1>3, ChainInList
  <2> QED
    BY <1>5, <1>8, <2>1, <2>2
<1> QED
  BY <1>1, <1>8, <1>9

LEMMA BeyondExWalkIs ==
    ASSUME NEW m, Whole(m), Ranged(m), NEW b \in Address, NEW j \in Jumps,
           NEW blocked \in SUBSET BeforeOthers(m), NEW w, w = BeyondExWalk(m, b, j, blocked)
    PROVE  w.t \in Listed(m) /\ w.f \in Address /\ w.f >= Floor
<1> DEFINE i == FindAt(m, b)
           ends == {x \in i .. Null - 1 : Chain(m)[x] # Null} \ blocked
           k == CHOOSE x \in ends : \A y \in ends : x =< y
<1>1. w = [t |-> Chain(m)[k], f |-> BeyondExFrame(m, b, j, k)]
  BY DEF BeyondExWalk
<1>2. i \in 0 .. Null - 1 /\ Chain(m)[i] # Null
  BY FindHas, WholeHas, SlotNumbers
<1>3. /\ ends \subseteq i .. Null - 1 /\ \A x \in ends : Chain(m)[x] # Null
      /\ \A x \in i .. Null - 1 : Chain(m)[x] # Null /\ ~HasNext(m, Chain(m)[x]) => x \in ends
  BY DEF BeforeOthers
<1> HIDE DEF i, ends
<1>4. Chain(m)[k] \in Listed(m)
  BY <1>2, <1>3, WalkStops
<1> HIDE DEF k
<1>5. /\ Beyond(m, Chain(m)[k], b, j) \in Address /\ Beyond(m, Chain(m)[k], b, j) >= Floor
      /\ Add(End(m, Chain(m)[k]), j * Page) \in Address
      /\ Add(End(m, Chain(m)[k]), j * Page) >= Floor
  BY <1>4, BeyondIs, JumpIs
<1>6. BeyondExFrame(m, b, j, k) = IF k = i THEN Beyond(m, Chain(m)[k], b, j)
                                  ELSE Add(End(m, Chain(m)[k]), j * Page)
  BY DEF BeyondExFrame, i
<1> QED
  BY <1>1, <1>4, <1>5, <1>6

LEMMA AllocBeyondExFits ==
    ASSUME MaskedBuild, NEW m, Whole(m), Ranged(m), NEW b \in Address, NEW j \in Jumps
    PROVE  Fits(AllocBeyondEx(m, b, j))
<1> DEFINE blocked == {k \in BeforeOthers(m) :
                         NextBase(m, Chain(m)[k]) =< BeyondExFrame(m, b, j, k)}
<1>1. PICK w : w = BeyondExWalk(m, b, j, blocked)
  OBVIOUS
<1>2. w.t \in Listed(m) /\ w.f \in Address /\ w.f >= Floor
  BY <1>1, BeyondExWalkIs
<1>3. AllocBeyondEx(m, b, j) = IF j = 0 THEN AllocAfter(m, b) ELSE PlaceAfter(m, w.t, w.f, Page)
  BY <1>1 DEF AllocBeyondEx
<1>4. Fits(AllocAfter(m, b)) /\ Fits(PlaceAfter(m, w.t, w.f, Page))
  BY <1>2, AllocAfterFits, PlaceAfterFits, OnePage
<1> QED
  BY <1>3, <1>4

LEMMA CountIs ==
    ASSUME NEW n \in Counts
    PROVE  n * Page \in Address /\ Ceiling + n * Page < AddrMod
BY Asked

\* A refusal, and a call for no page.
LEMMA RefusalFits ==
    ASSUME NEW m, Whole(m), Ranged(m)
    PROVE  \A f : Fits(Returns(m, -1, f)) /\ Fits(Returns(m, 1, f)) /\ Fits(Faults(m))
BY StayFits DEF Returns, Faults

LEMMA AllocMultipleFits ==
    ASSUME MaskedBuild, NEW m, Whole(m), Ranged(m), NEW n \in Counts
    PROVE  Fits(AllocMultiple(m, n))
<1>1. m.first \in Listed(m)
  BY WholeHas
<1>2. Fits(Returns(GrowUp(m, m.first, n * Page), 0, NoFrame))
  BY <1>1, CountIs, GrowFits
<1> QED
  BY <1>2, RefusalFits DEF AllocMultiple

(* The gap that page_virtual_alloc_multiple_ex compares is that of the     *)
(* first entry (memory.c:497): it may join an entry that does not touch.   *)
LEMMA AllocMultipleExFits ==
    ASSUME MaskedBuild, NEW m, Whole(m), Ranged(m), NEW n \in Counts
    PROVE  Fits(AllocMultipleEx(m, n))
<1> DEFINE ends == {x \in 0 .. Null - 1 :
                      LET e == Chain(m)[x]
                      IN  e # Null /\ ~(HasNext(m, e) /\ Add(End(m, e), n * Page) > NextBase(m, e))}
           k == CHOOSE x \in ends : \A y \in ends : x =< y
           t == Chain(m)[k]
           m1 == [m EXCEPT !.slot[t].len = Add(@, n * Page)]
           top == Add(End(m, m.first), n * Page)
<1>1. t = Chain(m)[k]
  OBVIOUS
<1>4. AllocMultipleEx(m, n) =
          IF n = 0 THEN Returns(m, -1, NoFrame)
          ELSE IF HasNext(m1, t) /\ top = NextBase(m1, t) THEN Returns(Absorb(m1, t), 0, NoFrame)
          ELSE Returns(m1, 0, NoFrame)
  BY Zenon DEF AllocMultipleEx, Null
<1> HIDE DEF t
<1>2. m1 = [m EXCEPT !.slot[t].len = Add(@, n * Page)]
  OBVIOUS
<1> HIDE DEF m1
<1>3. top = Add(End(m, m.first), n * Page)
  OBVIOUS
<1> HIDE DEF top
<1>5. t \in Listed(m)
  <2>1. /\ ends \subseteq 0 .. Null - 1 /\ \A x \in ends : Chain(m)[x] # Null
        /\ \A x \in 0 .. Null - 1 : Chain(m)[x] # Null /\ ~HasNext(m, Chain(m)[x]) => x \in ends
    OBVIOUS
  <2>2. 0 \in 0 .. Null - 1 /\ Chain(m)[0] # Null
    BY ChainIs, WholeHas, SlotNumbers DEF Walk
  <2> HIDE DEF ends
  <2> QED
    BY <1>1, <2>1, <2>2, WalkStops
<1> HIDE DEF ends, k
<1>6. /\ Whole(m1) /\ Listed(m1) = Listed(m)
      /\ Base(m1, t) = Base(m, t) /\ End(m1, t) = End(m, t) + n * Page
      /\ \A e \in Slots \ {t} : End(m1, e) = End(m, e) /\ Base(m1, e) = Base(m, e)
  BY <1>2, <1>5, CountIs, LongerIs DEF Sets
<1>7. Below(m1) => Ranged(m1)
  BY <1>2, <1>5, CountIs, LongerFits
<1>8. Fits(Returns(m1, 0, NoFrame))
  BY <1>6, <1>7 DEF Fits, Returns
<1>9. ASSUME HasNext(m1, t), top = NextBase(m1, t)
      PROVE  Fits(Returns(Absorb(m1, t), 0, NoFrame))
  <2>1. PICK h : h = Next_(m1, t)
    OBVIOUS
  <2>2. PICK m2 : m2 = Absorb(m1, t)
    OBVIOUS
  <2>3. /\ Whole(m2) /\ Listed(m2) = Listed(m1) \ {h} /\ h \in Listed(m1) \ {0} /\ t # h
        /\ Sets(m2, m1, t, Base(m1, t), Add(Length(m1, t), Length(m1, h)), Next_(m1, h))
    BY <1>5, <1>6, <1>9, <2>1, <2>2, AbsorbIs
  <2>4. /\ t \in Slots /\ h \in Slots /\ Listed(m) \subseteq Slots /\ 0 \in Listed(m) /\ 0 \in Slots
        /\ Base(m1, t) \in Address /\ Length(m1, t) \in Address
        /\ Base(m1, h) \in Address /\ Length(m1, h) \in Address
        /\ End(m1, t) = Add(Base(m1, t), Length(m1, t)) /\ End(m1, h) = Add(Base(m1, h), Length(m1, h))
        /\ NextBase(m1, t) = Base(m1, h) /\ m.first = 0
    BY <1>5, <1>6, <1>9, <2>1, <2>3, WholeHas
  <2>5. /\ Base(m2, t) = Base(m, t)
        /\ \A e \in Slots \ {t} : End(m2, e) = End(m, e) /\ Base(m2, e) = Base(m, e)
    BY <1>6, <2>3 DEF Sets, End, Base
  <2>6. ASSUME Below(m2) PROVE End(m2, t) \in Floor .. Ceiling
    <3>1. End(m2, t) = Base(m2, t) + Length(m2, t) /\ End(m2, t) =< Ceiling /\ Length(m2, t) \in Address
      BY <1>5, <1>6, <2>3, <2>4, <2>6, BelowIs, WholeHas
    <3>2. CASE t = 0
      <4>1. End(m1, t) = Base(m1, h)
        <5>1. End(m, 0) \in Floor .. Ceiling
          BY <2>4 DEF Ranged
        <5>2. Add(End(m, 0), n * Page) = End(m, 0) + n * Page
          <6>1. PICK x \in Address, y \in Address :
                    x = End(m, 0) /\ y = n * Page /\ x + y < AddrMod
            <7>1. PICK y \in Address : y = n * Page /\ Ceiling + y < AddrMod
              BY CountIs
            <7>2. PICK x \in Address : x = End(m, 0) /\ x =< Ceiling
              BY <5>1, Numbers
            <7> QED
              BY <7>1, <7>2, Numbers
          <6> QED
            BY <6>1, AddIs
        <5> QED
          BY <1>3, <1>6, <1>9, <2>4, <3>2, <5>2
      <4>2. End(m2, t) = Add(Base(m1, t), Add(Length(m1, t), Length(m1, h)))
        BY <2>3 DEF Sets, End, Base, Length
      <4>3. End(m2, t) = Add(Add(Base(m1, t), Length(m1, t)), Length(m1, h))
        BY <2>4, <4>2, AddAdd
      <4>4. End(m2, t) = End(m1, h)
        BY <2>4, <4>1, <4>3
      <4>5. End(m1, h) \in Floor .. Ceiling
        BY <1>6, <2>3, <2>4 DEF Ranged
      <4> QED
        BY <4>4, <4>5
    <3>3. CASE t # 0
      <4>1. Base(m2, t) \in Address /\ Base(m2, t) >= Floor
        BY <1>5, <1>6, <2>4, <2>5, <3>3 DEF Ranged
      <4> QED
        BY <3>1, <4>1, Numbers
    <3> QED
      BY <3>2, <3>3
  <2>7. Below(m2) => Ranged(m2)
    BY <1>6, <2>3, <2>4, <2>5, <2>6 DEF Ranged
  <2> QED
    BY <2>2, <2>3, <2>7 DEF Fits, Returns
<1> QED
  BY <1>4, <1>8, <1>9, RefusalFits

LEMMA AllocMultipleAtFits ==
    ASSUME MaskedBuild, NEW m, Whole(m), Ranged(m), NEW a \in Address, NEW n \in Counts
    PROVE  Fits(AllocMultipleAt(m, a, n))
<1>1. PICK t : t = Find(m, a)
  OBVIOUS
<1>2. t \in Listed(m) /\ End(m, t) \in Floor .. Ceiling
  BY <1>1, FindHas
<1>3. AllocMultipleAt(m, a, n) =
          IF n = 0 THEN Returns(m, -1, a)
          ELSE IF End(m, t) > a THEN Returns(m, 1, a)
          ELSE IF ~HasNext(m, t) THEN Faults(m)
          ELSE IF Add(a, n * Page) > NextBase(m, t) THEN Returns(m, 1, a)
          ELSE IF End(m, t) = a THEN Returns(GrowUp(m, t, n * Page), 0, a)
          ELSE PlaceAfter(m, t, a, n * Page)
  BY <1>1 DEF AllocMultipleAt
<1>4. End(m, t) = a => Fits(Returns(GrowUp(m, t, n * Page), 0, a))
  BY <1>2, GrowFits, CountIs
<1>5. ~(End(m, t) > a) => Fits(PlaceAfter(m, t, a, n * Page))
  <2> SUFFICES ASSUME ~(End(m, t) > a) PROVE Fits(PlaceAfter(m, t, a, n * Page))
    OBVIOUS
  <2>1. a >= Floor
    BY <1>2, Numbers
  <2> QED
    BY <1>2, <2>1, PlaceAfterFits, CountIs
<1> QED
  BY <1>3, <1>4, <1>5, RefusalFits

LEMMA AllocMultipleAfterFits ==
    ASSUME MaskedBuild, NEW m, Whole(m), Ranged(m), NEW b \in Address, NEW n \in Counts
    PROVE  Fits(AllocMultipleAfter(m, b, n))
<1>1. PICK t : t = Find(m, b)
  OBVIOUS
<1>2. t \in Listed(m) /\ End(m, t) \in Floor .. Ceiling
  BY <1>1, FindHas
<1>3. AllocMultipleAfter(m, b, n) =
          IF n = 0 THEN Returns(m, -1, NoFrame)
          ELSE IF ~(End(m, t) >= b) THEN PlaceAfter(m, t, b, n * Page)
          ELSE IF HasNext(m, t) /\ NextBase(m, t) < Add(End(m, t), n * Page)
          THEN Returns(m, 1, End(m, t))
          ELSE Returns(GrowUp(m, t, n * Page), 0, End(m, t))
  BY <1>1 DEF AllocMultipleAfter
<1>4. Fits(Returns(GrowUp(m, t, n * Page), 0, End(m, t)))
  BY <1>2, GrowFits, CountIs
<1>5. ~(End(m, t) >= b) => Fits(PlaceAfter(m, t, b, n * Page))
  <2> SUFFICES ASSUME ~(End(m, t) >= b) PROVE Fits(PlaceAfter(m, t, b, n * Page))
    OBVIOUS
  <2>1. b >= Floor
    BY <1>2, Numbers
  <2> QED
    BY <1>2, <2>1, PlaceAfterFits, CountIs
<1> QED
  BY <1>3, <1>4, <1>5, RefusalFits

LEMMA AllocMultipleAfterExFits ==
    ASSUME MaskedBuild, NEW m, Whole(m), Ranged(m), NEW b \in Address, NEW n \in Counts
    PROVE  Fits(AllocMultipleAfterEx(m, b, n))
<1> DEFINE ends == {x \in FindAt(m, b) .. Null - 1 :
                      LET e == Chain(m)[x]
                      IN  /\ e # Null /\ HasNext(m, e)
                          /\ ~(NextBase(m, e) < Add(End(m, e), n * Page))}
           k == CHOOSE x \in ends : \A y \in ends : x =< y
<1>1. PICK s : s = Find(m, b)
  OBVIOUS
<1>2. PICK t : t = Chain(m)[k]
  OBVIOUS
<1>3. AllocMultipleAfterEx(m, b, n) =
          IF n = 0 THEN Returns(m, -1, NoFrame)
          ELSE IF ~(End(m, s) >= b) THEN PlaceAfter(m, s, b, n * Page)
          ELSE IF ends = {} THEN Faults(m)
          ELSE Returns(GrowUp(m, t, n * Page), 0, End(m, t))
  BY <1>1, <1>2 DEF AllocMultipleAfterEx, Null
<1>4. s \in Listed(m) /\ End(m, s) \in Floor .. Ceiling /\ FindAt(m, b) \in 0 .. Null - 1
  BY <1>1, FindHas
<1>5. ends # {} => t \in Listed(m)
  <2> SUFFICES ASSUME ends # {} PROVE t \in Listed(m)
    OBVIOUS
  <2>1. ends \in SUBSET Nat /\ ends \subseteq 0 .. Null
    BY <1>4, SlotNumbers
  <2>2. \A x \in ends : Chain(m)[x] # Null
    OBVIOUS
  <2> HIDE DEF ends
  <2>3. PICK x \in ends : \A y \in ends : ~(y < x)
    BY <2>1, Least
  <2>4. \A y \in ends : x =< y
    BY <2>1, <2>3
  <2>5. k \in ends
    BY <2>4
  <2>6. PICK D : Links(m, Listed(m), D)
    BY DEF Whole
  <2>7. PICK c : c = Chain(m)
    OBVIOUS
  <2>8. \A y \in 0 .. Null : c[y] \in Listed(m) \cup {Null}
    BY <2>6, <2>7, ChainIs, ChainInList
  <2> HIDE DEF k
  <2> QED
    BY <1>2, <2>1, <2>2, <2>5, <2>7, <2>8
<1> HIDE DEF ends, k
<1>6. ends # {} => Fits(Returns(GrowUp(m, t, n * Page), 0, End(m, t)))
  <2> SUFFICES ASSUME ends # {} PROVE Fits(Returns(GrowUp(m, t, n * Page), 0, End(m, t)))
    OBVIOUS
  <2>1. t \in Listed(m) /\ End(m, t) \in Floor .. Ceiling
    BY <1>5 DEF Ranged
  <2> QED
    BY <2>1, GrowFits, CountIs
<1>7. ~(End(m, s) >= b) => Fits(PlaceAfter(m, s, b, n * Page))
  <2> SUFFICES ASSUME ~(End(m, s) >= b) PROVE Fits(PlaceAfter(m, s, b, n * Page))
    OBVIOUS
  <2>1. b >= Floor
    BY <1>4, Numbers
  <2> QED
    BY <1>4, <2>1, PlaceAfterFits, CountIs
<1> QED
  BY <1>3, <1>6, <1>7, RefusalFits

LEMMA AllocMultipleBeyondFits ==
    ASSUME MaskedBuild, NEW m, Whole(m), Ranged(m),
           NEW b \in Address, NEW n \in Counts, NEW j \in Jumps
    PROVE  Fits(AllocMultipleBeyond(m, b, n, j))
<1>1. PICK t : t = Find(m, b)
  OBVIOUS
<1>2. PICK f : f = Beyond(m, t, b, j)
  OBVIOUS
<1>3. t \in Listed(m) /\ f \in Address /\ f >= Floor
  BY <1>1, <1>2, FindHas, BeyondIs
<1>4. AllocMultipleBeyond(m, b, n, j) =
          IF n = 0 THEN Returns(m, -1, NoFrame)
          ELSE IF j = 0 THEN AllocMultipleAfter(m, b, n)
          ELSE IF HasNext(m, t) /\ NextBase(m, t) =< f THEN Returns(m, 1, f)
          ELSE IF HasNext(m, t) /\ NextBase(m, t) # Add(f, n * Page) /\ End(m, Next_(m, t)) = f
          THEN Returns(GrowUp(m, Next_(m, t), n * Page), 0, f)
          ELSE PlaceAfter(m, t, f, n * Page)
  BY <1>1, <1>2 DEF AllocMultipleBeyond
<1>5. HasNext(m, t) => Next_(m, t) \in Listed(m) /\ End(m, Next_(m, t)) \in Floor .. Ceiling
  BY <1>3, WholeHas DEF Ranged
<1>6. Fits(AllocMultipleAfter(m, b, n)) /\ Fits(PlaceAfter(m, t, f, n * Page))
  BY <1>3, AllocMultipleAfterFits, PlaceAfterFits, CountIs
<1>7. HasNext(m, t) /\ End(m, Next_(m, t)) = f
          => Fits(Returns(GrowUp(m, Next_(m, t), n * Page), 0, f))
  BY <1>5, GrowFits, CountIs
<1> QED
  BY <1>4, <1>6, <1>7, RefusalFits

LEMMA AllocMultipleBeyondExFits ==
    ASSUME MaskedBuild, NEW m, Whole(m), Ranged(m),
           NEW b \in Address, NEW n \in Counts, NEW j \in Jumps
    PROVE  Fits(AllocMultipleBeyondEx(m, b, n, j))
<1> DEFINE blocked == {k \in BeforeOthers(m) :
                         NextBase(m, Chain(m)[k]) < Add(BeyondExFrame(m, b, j, k), n * Page)}
<1>1. PICK w : w = BeyondExWalk(m, b, j, blocked)
  OBVIOUS
<1>2. w.t \in Listed(m) /\ w.f \in Address /\ w.f >= Floor
  BY <1>1, BeyondExWalkIs
<1>3. AllocMultipleBeyondEx(m, b, n, j) =
          IF n = 0 THEN Returns(m, -1, NoFrame)
          ELSE IF j = 0 THEN AllocMultipleAfter(m, b, n)
          ELSE PlaceAfter(m, w.t, w.f, n * Page)
  BY <1>1 DEF AllocMultipleBeyondEx
<1>4. Fits(AllocMultipleAfter(m, b, n)) /\ Fits(PlaceAfter(m, w.t, w.f, n * Page))
  BY <1>2, AllocMultipleAfterFits, PlaceAfterFits, CountIs
<1> QED
  BY <1>3, <1>4, RefusalFits

-----------------------------------------------------------------------------
(* The free functions, for pages above the base of the first entry         *)

LEMMA SplitIs ==
    ASSUME MaskedBuild, NEW m, Whole(m), Ranged(m), NEW t \in Listed(m),
           NEW a \in Floor .. Ceiling, NEW bytes \in Address, a + bytes < AddrMod,
           NEW o, o = Split(m, t, a, bytes)
    PROVE  Whole(o.m) /\ Ranged(o.m)
<1>1. /\ t \in Slots /\ m \in Maps /\ Listed(m) \subseteq Slots /\ 0 \in Listed(m)
      /\ Base(m, t) \in Address /\ Length(m, t) \in Address
      /\ End(m, t) = Add(Base(m, t), Length(m, t)) /\ a \in Address
  <2>1. t \in Slots /\ m \in Maps /\ Listed(m) \subseteq Slots /\ 0 \in Listed(m)
    BY WholeHas
  <2>2. /\ Base(m, t) \in Address /\ Length(m, t) \in Address
        /\ End(m, t) = Add(Base(m, t), Length(m, t))
    BY <2>1, WholeHas
  <2>3. a \in Address
    BY Numbers
  <2> QED
    BY <2>1, <2>2, <2>3
<1>2. PICK below \in Address : below = Sub(a, Base(m, t))
  BY <1>1, SubIs
<1>3. PICK above \in Address : above = Sub(Sub(Length(m, t), below), bytes)
  BY <1>1, <1>2, SubIs
<1>4. PICK m1 : m1 = [m EXCEPT !.slot[t].len = below]
  OBVIOUS
<1>5. o = Insert(m1, t, Add(a, bytes), above)
  BY <1>2, <1>3, <1>4 DEF Split, Base, Length
<1>6. Sets(m1, m, t, Base(m, t), below, Next_(m, t))
  BY <1>1, <1>4, SetField
<1>7. Whole(m1) /\ Listed(m1) = Listed(m)
  BY <1>6, ResizeIs
<1>8. End(m1, t) = a
  <2>1. End(m1, t) = Add(Base(m, t), below)
    BY <1>6 DEF Sets, End, Base, Length
  <2> QED
    BY <1>1, <1>2, <2>1, SubAdd
<1>9. /\ Base(m1, t) = Base(m, t)
      /\ \A e \in Slots \ {t} : End(m1, e) = End(m, e) /\ Base(m1, e) = Base(m, e)
  BY <1>6 DEF Sets, End, Base
<1>10. Ranged(m1)
  BY <1>1, <1>7, <1>8, <1>9 DEF Ranged
<1>11. Add(a, bytes) = a + bytes /\ Add(a, bytes) \in Address
  BY <1>1, AddIs, Numbers
<1>12. CASE FreeSlots(m1) = {}
  BY <1>5, <1>7, <1>10, <1>11, <1>12, InsertIs
<1>13. CASE FreeSlots(m1) # {}
  <2>1. PICK k \in Slots \ Listed(m1) :
            /\ k # 0 /\ Whole(o.m) /\ Listed(o.m) = Listed(m1) \cup {k}
            /\ Base(o.m, k) = Add(a, bytes) /\ Length(o.m, k) = above
            /\ \A e \in Listed(m1) : Base(o.m, e) = Base(m1, e) /\ Length(o.m, e) = Length(m1, e)
    <3>1. t \in Listed(m1)
      BY <1>7
    <3>2. PICK p \in Address : p = Add(a, bytes)
      BY <1>11
    <3>3. o = Insert(m1, t, p, above)
      BY <1>5, <3>2
    <3>4. Inserted(o.m, m1, t, p, above)
      BY <1>7, <1>13, <3>1, <3>3, InsertIs
    <3> QED
      BY <3>2, <3>4 DEF Inserted
  <2>2. \A e \in Listed(m1) : End(o.m, e) = End(m1, e)
    BY <2>1 DEF End, Base, Length
  <2>3. End(o.m, k) = End(m, t)
    <3>1. End(o.m, k) = Add(Add(a, bytes), above)
      BY <2>1 DEF End, Base, Length
    <3>2. Add(Add(a, bytes), Sub(Sub(Length(m, t), Sub(a, Base(m, t))), bytes))
              = Add(Base(m, t), Length(m, t))
      <4>1. PICK p \in Address, q \in Address : p = Base(m, t) /\ q = Length(m, t)
        BY <1>1
      <4>2. Add(Add(a, bytes), Sub(Sub(q, Sub(a, p)), bytes)) = Add(p, q)
        BY <1>1, SplitEnd
      <4> QED
        BY <4>1, <4>2
    <3> QED
      BY <1>1, <1>2, <1>3, <3>1, <3>2
  <2>4. End(m, t) \in Floor .. Ceiling
    BY DEF Ranged
  <2>5. a + bytes >= Floor
    BY <1>1, Numbers
  <2> QED
    BY <1>1, <1>7, <1>10, <1>11, <2>1, <2>2, <2>3, <2>4, <2>5 DEF Ranged
<1> QED
  BY <1>12, <1>13

LEMMA UnlinkFits ==
    ASSUME MaskedBuild, NEW m, Whole(m), Ranged(m), NEW a \in Floor .. Ceiling,
           NEW t, t = Find(m, a), a < End(m, t), Length(m, t) = 1,
           NEW m2, m2 = Unlink(m, FindAt(m, a))
    PROVE  Whole(m2) /\ Ranged(m2)
<1>1. t \in Listed(m) /\ 0 \in Listed(m) /\ Listed(m) \subseteq Slots
  BY FindHas, WholeHas
<1>2. t # 0
  <2> SUFFICES ASSUME t = 0 PROVE FALSE
    OBVIOUS
  <2>1. End(m, t) = Add(Base0, 1) /\ Base0 \in Address
    <3>1. End(m, t) = Add(Base(m, t), Length(m, t)) /\ Base(m, t) \in Address
      BY <1>1, WholeHas
    <3> QED
      BY <3>1 DEF Ranged
  <2>2. Base0 + 1 < AddrMod
    BY Sizes
  <2>3. Add(Base0, 1) = Base0 + 1
    BY <2>1, <2>2, AddIs, Numbers
  <2> QED
    BY <2>1, <2>3, Numbers
<1>3. /\ Whole(m2) /\ Listed(m2) = Listed(m) \ {t}
      /\ \A d \in Slots : Base(m2, d) = Base(m, d) /\ Length(m2, d) = Length(m, d)
  BY <1>2, UnlinkIs
<1>4. \A d \in Slots : End(m2, d) = End(m, d)
  BY <1>3 DEF End, Base, Length
<1> QED
  BY <1>1, <1>2, <1>3, <1>4 DEF Ranged

LEMMA VirtualFreeFits ==
    ASSUME MaskedBuild, NEW m, Whole(m), Ranged(m), NEW a \in Address, Floor =< a, a + Page < AddrMod,
           NEW o, o = VirtualFree(m, a)
    PROVE  Whole(o.m) /\ Ranged(o.m)
<1>1. PICK t : t = Find(m, a)
  OBVIOUS
<1>2. t \in Listed(m) /\ End(m, t) \in Floor .. Ceiling
  BY <1>1, FindHas
<1>3. o = IF a >= End(m, t) THEN Returns(m, -1, a)
          ELSE IF m.slot[t].len = 1 THEN Returns(Unlink(m, FindAt(m, a)), 0, a)
          ELSE Split(m, t, a, Page)
  BY <1>1 DEF VirtualFree
<1>4. CASE a >= End(m, t)
  BY <1>3, <1>4 DEF Returns
<1>5. CASE ~(a >= End(m, t))
  <2>1. a \in Floor .. Ceiling /\ a < End(m, t)
    BY <1>2, <1>5, Numbers
  <2>2. CASE m.slot[t].len = 1
    BY <1>1, <1>3, <1>5, <2>1, <2>2, UnlinkFits DEF Returns, Length
  <2>3. CASE m.slot[t].len # 1
    BY <1>2, <1>3, <1>5, <2>1, <2>3, SplitIs, OnePage
  <2> QED
    BY <2>2, <2>3
<1> QED
  BY <1>4, <1>5

LEMMA FreeRangeFits ==
    ASSUME MaskedBuild, NEW m, Whole(m), Ranged(m), NEW a \in Address, Floor =< a,
           NEW n \in Nat, a + n * Page < AddrMod, NEW o, o = FreeRange(m, a, n)
    PROVE  Whole(o.m) /\ Ranged(o.m)
<1>1. PICK t : t = Find(m, a)
  OBVIOUS
<1>2. t \in Listed(m) /\ End(m, t) \in Floor .. Ceiling
  BY <1>1, FindHas
<1>3. PICK bytes \in Address : bytes = n * Page /\ a + bytes < AddrMod
  <2>1. PICK x \in Nat : x = n * Page
    BY Numbers
  <2> QED
    BY <2>1, Numbers
<1>4. Add(a, bytes) = a + bytes
  BY <1>3, AddIs
<1>5. o = IF a + bytes >= End(m, t) THEN Returns(m, -1, a)
          ELSE IF m.slot[t].len = 1 THEN Returns(Unlink(m, FindAt(m, a)), 0, a)
          ELSE Split(m, t, a, bytes)
  BY <1>1, <1>3, <1>4 DEF FreeRange
<1>6. CASE a + bytes >= End(m, t)
  BY <1>5, <1>6 DEF Returns
<1>7. CASE ~(a + bytes >= End(m, t))
  <2>1. a \in Floor .. Ceiling /\ a < End(m, t)
    BY <1>2, <1>7, Numbers
  <2>2. CASE m.slot[t].len = 1
    BY <1>1, <1>5, <1>7, <2>1, <2>2, UnlinkFits DEF Returns, Length
  <2>3. CASE m.slot[t].len # 1
    BY <1>2, <1>3, <1>5, <1>7, <2>1, <2>3, SplitIs
  <2> QED
    BY <2>2, <2>3
<1> QED
  BY <1>6, <1>7

LEMMA FreeMultipleFits ==
    ASSUME MaskedBuild, NEW m, Whole(m), Ranged(m), NEW a \in Address, Floor =< a, a + Page < AddrMod,
           NEW n \in Nat, a + n * Page < AddrMod, NEW o, o = FreeMultiple(m, a, n)
    PROVE  Whole(o.m) /\ Ranged(o.m)
<1>1. PICK m1 : m1 = IF n = 1 THEN VirtualFree(m, a).m ELSE m
  OBVIOUS
<1>2. Whole(m1) /\ Ranged(m1)
  BY <1>1, VirtualFreeFits
<1>3. o = IF n = 0 THEN Returns(m, -1, a) ELSE FreeRange(m1, a, n)
  BY <1>1 DEF FreeMultiple
<1> QED
  BY <1>2, <1>3, FreeRangeFits DEF Returns

-----------------------------------------------------------------------------
(* The invariant                                                           *)

Held ==
    /\ own \in [Address -> Nat]
    /\ \A a \in Address : own[a] > 0 => Floor =< a /\ a + Page < AddrMod

Inv ==
    /\ Whole(vmap) /\ Ranged(vmap)
    /\ Held
    /\ status \in {"ok", "fault", "panic"}

LEMMA GainIs ==
    ASSUME Held, NEW f \in Floor .. Ceiling, NEW n \in Counts \cup {1}, own' = Gain(f, n)
    PROVE  Held'
<1>1. n \in Nat /\ n * Page \in Address /\ Ceiling + n * Page < AddrMod /\ Page \in Nat
  BY Asked, Numbers
<1> DEFINE gained == {Add(f, i * Page) : i \in 0 .. n - 1}
<1>2. \A a \in gained : a \in Address /\ Floor =< a /\ a + Page < AddrMod
  <2> SUFFICES ASSUME NEW i \in 0 .. n - 1
               PROVE  /\ Add(f, i * Page) \in Address /\ Floor =< Add(f, i * Page)
                      /\ Add(f, i * Page) + Page < AddrMod
    OBVIOUS
  <2>1. PICK x \in Nat : x = i * Page /\ x + Page =< n * Page
    <3>1. i \in Nat /\ n - i - 1 \in Nat /\ i * Page \in Nat
      BY <1>1
    <3>2. (n - i - 1) * Page \in Nat
      BY <1>1, <3>1
    <3>3. (n - i - 1) * Page = n * Page - i * Page - Page
      BY <1>1, <3>1
    <3> QED
      BY <1>1, <3>1, <3>2, <3>3
  <2>2. PICK z \in Nat : z = n * Page
    BY <1>1
  <2>3. x \in Address /\ f \in Address /\ f + x + Page < AddrMod
    <3>1. x + Page =< z /\ Ceiling + z < AddrMod
      BY <1>1, <2>1, <2>2
    <3>2. f \in Nat /\ f =< Ceiling /\ Ceiling \in Nat /\ AddrMod \in Nat /\ Page \in Nat
      BY Numbers
    <3>3. f + x + Page < AddrMod /\ x < AddrMod /\ f < AddrMod
      BY <3>1, <3>2
    <3> QED
      BY <3>2, <3>3 DEF Address
  <2>4. Add(f, x) = f + x /\ Add(f, x) \in Address
    <3>1. Add(f, x) \in Address /\ (f + x < AddrMod => Add(f, x) = f + x)
      BY <2>3, AddIs
    <3>2. f \in Nat /\ Page \in Nat /\ AddrMod \in Nat
      BY Numbers
    <3>3. f + x < AddrMod
      BY <2>3, <3>2
    <3> QED
      BY <3>1, <3>3
  <2> QED
    BY <2>1, <2>3, <2>4, Numbers
<1>3. \A a \in Address : own'[a] = own[a] + (IF a \in gained THEN 1 ELSE 0)
  BY DEF Gain
<1>4. own' \in [Address -> Nat]
  <2>1. own' = [a \in Address |-> own[a] + (IF a \in gained THEN 1 ELSE 0)]
    BY DEF Gain
  <2> HIDE DEF gained
  <2> QED
    BY <2>1 DEF Held
<1>5. \A a \in Address : own'[a] > 0 => Floor =< a /\ a + Page < AddrMod
  <2> HIDE DEF gained
  <2> QED
    BY <1>2, <1>3 DEF Held
<1> QED
  BY <1>4, <1>5 DEF Held

LEMMA AllocatesKeeps ==
    ASSUME Inv, NEW n \in Counts \cup {1}, NEW o, Fits(o), Allocates(o, n)
    PROVE  Inv'
<1>1. vmap' = o.m /\ status' = o.status /\ Below(o.m)
  BY DEF Allocates, Below
<1>2. Whole(vmap') /\ Ranged(vmap') /\ status' \in {"ok", "fault", "panic"}
  BY <1>1 DEF Fits
<1>3. Held'
  <2>1. CASE o.status = "ok" /\ o.ret = 0 /\ o.frame # NoFrame
    <3>1. o.frame \in Floor .. Ceiling
      BY <1>1, <2>1 DEF Fits
    <3>2. own' = Gain(o.frame, n)
      BY <2>1 DEF Allocates
    <3> QED
      BY <3>1, <3>2, GainIs DEF Inv
  <2>2. CASE ~(o.status = "ok" /\ o.ret = 0 /\ o.frame # NoFrame)
    <3>1. own' = own
      BY <2>2 DEF Allocates
    <3> QED
      BY <3>1 DEF Inv, Held
  <2> QED
    BY <2>1, <2>2
<1> QED
  BY <1>2, <1>3 DEF Inv

LEMMA InitMap ==
    ASSUME Init
    PROVE  /\ Whole(vmap) /\ Listed(vmap) = {0}
           /\ Base(vmap, 0) = Base0 /\ Length(vmap, 0) = Length0 /\ Next_(vmap, 0) = Null
<1>1. PICK bm \in InitBitmaps :
          vmap = [slot  |-> [k \in Slots |->
                               [base |-> IF k = 0 THEN Base0 ELSE 0,
                                len  |-> IF k = 0 THEN Length0 ELSE 0,
                                next |-> Null]],
                  first |-> 0,
                  bm    |-> bm]
  BY DEF Init
<1>2. /\ bm \in [0 .. NumWords - 1 -> SUBSET Bits]
      /\ Base0 \in Address /\ Length0 \in Address /\ 0 \in Address
  BY BoundsAssumption, VirtualAssumption, Numbers DEF Address
<1> DEFINE s == [k \in Slots |-> [base |-> IF k = 0 THEN Base0 ELSE 0,
                                  len  |-> IF k = 0 THEN Length0 ELSE 0, next |-> Null]]
           D == [k \in Slots |-> 0]
<1>3. s \in [Slots -> Entry]
  BY <1>2 DEF Entry
<1>4. vmap.slot = s /\ vmap.first = 0 /\ vmap.bm = bm /\ vmap = [slot |-> s, first |-> 0, bm |-> bm]
  BY <1>1
<1>5. /\ Base(vmap, 0) = Base0 /\ Length(vmap, 0) = Length0 /\ Next_(vmap, 0) = Null
  BY <1>4, SlotNumbers DEF Base, Length, Next_
<1> HIDE DEF s
<1>6. vmap \in Maps
  BY <1>2, <1>3, <1>4, SlotNumbers DEF Maps
<1>7. Links(vmap, {0}, D)
  BY <1>4, <1>5, SlotNumbers DEF Links
<1>8. Marks(vmap, {0})
  BY <1>2, <1>4 DEF Marks
<1>9. Whole(vmap) /\ Listed(vmap) = {0}
  BY <1>6, <1>7, <1>8, WholeIs
<1> QED
  BY <1>5, <1>9

LEMMA InitInv == ASSUME Init PROVE Inv
<1>1. /\ Whole(vmap) /\ Listed(vmap) = {0}
      /\ Base(vmap, 0) = Base0 /\ Length(vmap, 0) = Length0 /\ Next_(vmap, 0) = Null
  BY InitMap
<1>2. Base0 \in Address /\ Length0 \in Address
  BY VirtualAssumption DEF Address
<1>3. End(vmap, 0) = Base0 + Length0
  <2>1. End(vmap, 0) = Add(Base0, Length0)
    BY <1>1 DEF End, Base, Length
  <2>2. Base0 + Length0 < AddrMod
    BY Sizes
  <2> QED
    BY <1>2, <2>1, <2>2, AddIs
<1>4. Ranged(vmap)
  <2>1. Base0 + Length0 \in Floor .. Ceiling
    BY Sizes DEF Floor
  <2> QED
    BY <1>1, <1>3, <2>1 DEF Ranged
<1>5. Held /\ status \in {"ok", "fault", "panic"}
  BY DEF Init, Held
<1> QED
  BY <1>1, <1>4, <1>5 DEF Inv

LEMMA AllocateKeeps == ASSUME MaskedBuild, Inv, Allocate(Addrs) PROVE Inv'
<1>1. Whole(vmap) /\ Ranged(vmap) /\ Addrs \subseteq Address /\ 1 \in Counts \cup {1}
      /\ \A n \in Counts : n \in Counts \cup {1}
  BY VirtualAssumption DEF Inv, Address
<1>2. CASE PageVirtualAlloc
  BY <1>1, <1>2, VirtualAllocFits, AllocatesKeeps DEF PageVirtualAlloc
<1>3. CASE \E a \in Addrs : PageVirtualAllocAt(a)
  BY <1>1, <1>3, AllocAtFits, AllocatesKeeps DEF PageVirtualAllocAt
<1>4. CASE \E b \in Addrs : PageVirtualAllocAfter(b)
  BY <1>1, <1>4, AllocAfterFits, AllocatesKeeps DEF PageVirtualAllocAfter
<1>5. CASE \E b \in Addrs, j \in Jumps : PageVirtualAllocBeyond(b, j)
  BY <1>1, <1>5, AllocBeyondFits, AllocatesKeeps DEF PageVirtualAllocBeyond
<1>6. CASE \E b \in Addrs, j \in Jumps : PageVirtualAllocBeyondEx(b, j)
  BY <1>1, <1>6, AllocBeyondExFits, AllocatesKeeps DEF PageVirtualAllocBeyondEx
<1>7. CASE \E n \in Counts : PageVirtualAllocMultiple(n)
  BY <1>1, <1>7, AllocMultipleFits, AllocatesKeeps DEF PageVirtualAllocMultiple
<1>8. CASE \E n \in Counts : PageVirtualAllocMultipleEx(n)
  BY <1>1, <1>8, AllocMultipleExFits, AllocatesKeeps DEF PageVirtualAllocMultipleEx
<1>9. CASE \E a \in Addrs, n \in Counts : PageVirtualAllocMultipleAt(a, n)
  BY <1>1, <1>9, AllocMultipleAtFits, AllocatesKeeps DEF PageVirtualAllocMultipleAt
<1>10. CASE \E b \in Addrs, n \in Counts : PageVirtualAllocMultipleAfter(b, n)
  BY <1>1, <1>10, AllocMultipleAfterFits, AllocatesKeeps DEF PageVirtualAllocMultipleAfter
<1>11. CASE \E b \in Addrs, n \in Counts : PageVirtualAllocMultipleAfterEx(b, n)
  BY <1>1, <1>11, AllocMultipleAfterExFits, AllocatesKeeps DEF PageVirtualAllocMultipleAfterEx
<1>12. CASE \E b \in Addrs, n \in Counts, j \in Jumps : PageVirtualAllocMultipleBeyond(b, n, j)
  BY <1>1, <1>12, AllocMultipleBeyondFits, AllocatesKeeps DEF PageVirtualAllocMultipleBeyond
<1>13. CASE \E b \in Addrs, n \in Counts, j \in Jumps : PageVirtualAllocMultipleBeyondEx(b, n, j)
  BY <1>1, <1>13, AllocMultipleBeyondExFits, AllocatesKeeps DEF PageVirtualAllocMultipleBeyondEx
<1> QED
  BY <1>2, <1>3, <1>4, <1>5, <1>6, <1>7, <1>8, <1>9, <1>10, <1>11, <1>12, <1>13 DEF Allocate

(* Of a range that a caller holds, the last page does not wrap either.     *)
LEMMA HeldRange ==
    ASSUME Held, NEW a \in Address, Floor =< a, a + Page < AddrMod, NEW n \in Counts,
           \A p \in {Add(a, i * Page) : i \in 0 .. n - 1} : own[p] > 0
    PROVE  a + n * Page < AddrMod
<1>1. n \in Nat /\ Page \in Nat /\ AddrMod \in Nat /\ a \in Nat
  BY Asked, Numbers
<1> DEFINE T == {i \in Nat : i =< n /\ ~(a + i * Page < AddrMod)}
<1>2. T = {}
  <2> SUFFICES ASSUME T # {} PROVE FALSE
    OBVIOUS
  <2>1. T \in SUBSET Nat
    OBVIOUS
  <2>2. PICK i \in T : \A y \in T : ~(y < i)
    <3> HIDE DEF T
    <3> QED
      BY <2>1, Least
  <2>3. i \in Nat /\ i =< n /\ ~(a + i * Page < AddrMod)
    BY <2>2
  <2>4. i # 0
    <3>1. a < AddrMod /\ 0 * Page = 0
      BY <1>1, Numbers
    <3> QED
      BY <1>1, <2>3, <3>1
  <2>5. PICK h \in Nat : h = i - 1 /\ h \in 0 .. n - 1 /\ h < i
    BY <1>1, <2>3, <2>4
  <2>6. a + h * Page < AddrMod /\ h * Page \in Nat
    BY <1>1, <2>2, <2>3, <2>5
  <2>7. i * Page = h * Page + Page
    BY <1>1, <2>3, <2>5
  <2>8. PICK x \in Nat : x = h * Page
    BY <2>6
  <2>9. x \in Address /\ a + x < AddrMod
    BY <1>1, <2>6, <2>8, Numbers
  <2>10. Add(a, x) = a + x /\ a + x \in Address
    BY <1>1, <2>9, AddIs, Numbers
  <2>11. own[a + x] > 0
    BY <2>5, <2>8, <2>10
  <2>12. a + x + Page < AddrMod
    BY <2>10, <2>11 DEF Held
  <2> QED
    BY <1>1, <2>3, <2>7, <2>8, <2>12
<1>3. ~(n \in T)
  BY <1>2
<1> QED
  BY <1>1, <1>3

LEMMA FreeKeeps == ASSUME MaskedBuild, Inv, Free PROVE Inv'
<1>1. PICK a \in {p \in Address : own[p] > 0} :
          PageVirtualFree(a) \/ \E n \in Counts : PageVirtualFreeMultiple(a, n)
  BY DEF Free
<1>2. /\ Whole(vmap) /\ Ranged(vmap) /\ Held /\ a \in Address
      /\ Floor =< a /\ a + Page < AddrMod
  BY DEF Inv, Held
<1>3. CASE PageVirtualFree(a)
  <2>1. Whole(vmap') /\ Ranged(vmap')
    BY <1>2, <1>3, VirtualFreeFits DEF PageVirtualFree
  <2>2. own' = [own EXCEPT ![a] = @ - 1] /\ own[a] > 0 /\ status' = status
    BY <1>3 DEF PageVirtualFree
  <2>3. Held'
    BY <1>2, <2>2 DEF Held
  <2> QED
    BY <2>1, <2>2, <2>3 DEF Inv
<1>4. ASSUME NEW n \in Counts, PageVirtualFreeMultiple(a, n) PROVE Inv'
  <2> DEFINE pages == {Add(a, i * Page) : i \in 0 .. n - 1}
  <2>1. /\ vmap' = FreeMultiple(vmap, a, n).m /\ status' = status
        /\ \A p \in pages : own[p] > 0
        /\ own' = [p \in Address |-> own[p] - (IF p \in pages THEN 1 ELSE 0)]
    BY <1>4 DEF PageVirtualFreeMultiple
  <2>2. a + n * Page < AddrMod
    BY <1>2, <2>1, HeldRange
  <2>3. Whole(vmap') /\ Ranged(vmap')
    BY <1>2, <2>1, <2>2, Asked, FreeMultipleFits
  <2>4. Held'
    <3> HIDE DEF pages
    <3> QED
      BY <1>2, <2>1 DEF Held
  <2> QED
    BY <2>1, <2>3, <2>4 DEF Inv
<1> QED
  BY <1>1, <1>3, <1>4

LEMMA InvSafe == Inv => ListTerminates /\ FewSlotsUsed /\ TypeOK
<1> SUFFICES ASSUME Inv PROVE ListTerminates /\ FewSlotsUsed /\ TypeOK
  OBVIOUS
<1>1. PICK D : Links(vmap, Listed(vmap), D)
  BY DEF Inv, Whole
<1>2. ListTerminates
  BY <1>1, ListedIs DEF ListTerminates
<1>3. FewSlotsUsed
  BY DEF Inv, Whole, Marks, FewSlotsUsed
<1>4. TypeOK
  BY DEF Inv, Whole, Maps, Entry, Held, TypeOK
<1> QED
  BY <1>2, <1>3, <1>4

LEMMA Keeps == ASSUME MaskedBuild, Inv, [Next]_vars PROVE Inv'
<1>1. CASE Allocate(Addrs)
  BY <1>1, AllocateKeeps
<1>2. CASE Free
  BY <1>2, FreeKeeps
<1>3. CASE UNCHANGED vars
  BY <1>3 DEF vars, Inv, Held
<1> QED
  BY <1>1, <1>2, <1>3 DEF Next

LEMMA SpecInv == ASSUME MaskedBuild PROVE Spec => []Inv
<1>1. Init => Inv
  BY InitInv
<1>2. Inv /\ [Next]_vars => Inv'
  BY Keeps
<1> QED
  BY <1>1, <1>2, PTL DEF Spec

(* The map keeps its shape.                                                *)
THEOREM Types == ASSUME MaskedBuild PROVE Spec => []TypeOK
BY SpecInv, InvSafe, PTL

(* In the build with the processor's shift, no order of calls makes the    *)
(* list circular.                                                          *)
THEOREM ListEnds == ASSUME MaskedBuild PROVE Spec => []ListTerminates
BY SpecInv, InvSafe, PTL

(* However the free bitmap began, a word lends the slots that FewSlotsUsed *)
(* says and no other.                                                      *)
THEOREM FewSlots == ASSUME MaskedBuild PROVE Spec => []FewSlotsUsed
BY SpecInv, InvSafe, PTL

-----------------------------------------------------------------------------
(* Callers that look before they place                                     *)

\* What such callers pass are addresses of pages, and so is the range that
\* page_allocator_init registers (memory.c:228-229).
Paged == \A a \in Addrs \cup {Base0, Length0} : a % Page = 0

Multiple(x) == \E q \in Int : x = q * Page

LEMMA MultiplesAre ==
    /\ \A x : Multiple(x) => x \in Int
    /\ \A x, y : Multiple(x) /\ Multiple(y) => Multiple(x + y) /\ Multiple(x - y)
    /\ \A x, y : Multiple(x) /\ Multiple(y) /\ x < y => x + Page =< y
    /\ \A n \in Int : Multiple(n * Page)
<1>1. Page \in Nat \ {0}
  BY Sizes
<1>2. \A x : Multiple(x) => x \in Int
  BY <1>1 DEF Multiple
<1>3. ASSUME NEW x, NEW y, Multiple(x), Multiple(y)
      PROVE  Multiple(x + y) /\ Multiple(x - y) /\ (x < y => x + Page =< y)
  <2>1. PICK p \in Int : x = p * Page
    BY <1>3 DEF Multiple
  <2>2. PICK q \in Int : y = q * Page
    BY <1>3 DEF Multiple
  <2>3. x + y = (p + q) * Page /\ x - y = (p - q) * Page
    BY <1>1, <2>1, <2>2
  <2>4. p + q \in Int /\ p - q \in Int
    OBVIOUS
  <2>5. ASSUME x < y PROVE x + Page =< y
    <3>1. p < q
      <4> SUFFICES ASSUME q =< p PROVE FALSE
        OBVIOUS
      <4>1. (p - q) * Page >= 0
        BY <1>1
      <4> QED
        BY <1>1, <2>1, <2>2, <2>3, <2>5, <4>1
    <3>2. (q - p - 1) * Page >= 0
      BY <1>1, <3>1
    <3>3. (q - p - 1) * Page = q * Page - p * Page - Page
      BY <1>1
    <3> QED
      BY <1>1, <2>1, <2>2, <3>2, <3>3
  <2> QED
    BY <2>3, <2>4, <2>5 DEF Multiple
<1>4. \A n \in Int : Multiple(n * Page)
  BY DEF Multiple
<1> QED
  BY <1>2, <1>3, <1>4

\* Every entry ends before the next begins.
Ordered(m) ==
    \A e \in Listed(m) : /\ Length(m, e) > 0
                         /\ HasNext(m, e) => Base(m, e) + Length(m, e) =< NextBase(m, e)

OnPages(m) == \A e \in Listed(m) : Multiple(Base(m, e)) /\ Multiple(Length(m, e))

Tidy(m) == Whole(m) /\ Ranged(m) /\ Below(m) /\ Ordered(m) /\ OnPages(m)

Covered(m, x) == \E e \in Listed(m) : Base(m, e) =< x /\ x < Base(m, e) + Length(m, e)

LEMMA TidyHas ==
    ASSUME NEW m, Tidy(m), NEW e \in Listed(m)
    PROVE  /\ e \in Slots /\ Base(m, e) \in Nat /\ Length(m, e) \in Nat \ {0}
           /\ End(m, e) = Base(m, e) + Length(m, e)
           /\ Base(m, e) >= Base0 /\ Base(m, e) + Length(m, e) =< Ceiling
           /\ Multiple(Base(m, e)) /\ Multiple(Length(m, e)) /\ Multiple(End(m, e))
           /\ HasNext(m, e) => /\ Next_(m, e) \in Listed(m) \ {0} /\ Next_(m, e) # e
                               /\ NextBase(m, e) = Base(m, Next_(m, e))
                               /\ NextBase(m, e) \in Nat /\ Multiple(NextBase(m, e))
                               /\ Base(m, e) + Length(m, e) =< NextBase(m, e)
                               /\ NextBase(m, e) =< Ceiling
<1>1. Whole(m) /\ Ranged(m) /\ Below(m) /\ Ordered(m) /\ OnPages(m)
  BY DEF Tidy
<1>2. \A d \in Listed(m) :
          /\ d \in Slots /\ Base(m, d) \in Nat /\ Length(m, d) \in Nat \ {0}
          /\ End(m, d) = Base(m, d) + Length(m, d) /\ End(m, d) =< Ceiling
  <2> SUFFICES ASSUME NEW d \in Listed(m)
               PROVE  /\ d \in Slots /\ Base(m, d) \in Nat /\ Length(m, d) \in Nat \ {0}
                      /\ End(m, d) = Base(m, d) + Length(m, d) /\ End(m, d) =< Ceiling
    OBVIOUS
  <2>1. d \in Slots /\ Base(m, d) \in Address /\ Length(m, d) \in Address
    BY <1>1, WholeHas
  <2>2. End(m, d) = Base(m, d) + Length(m, d) /\ End(m, d) =< Ceiling
    BY <1>1, BelowIs
  <2>3. Length(m, d) > 0
    BY <1>1 DEF Ordered
  <2> QED
    BY <2>1, <2>2, <2>3, Numbers
<1>3. Base(m, e) >= Base0
  <2>1. e = 0 => Base(m, e) = Base0
    BY <1>1 DEF Ranged
  <2>2. e # 0 => Base(m, e) >= Floor
    BY <1>1 DEF Ranged
  <2> QED
    BY <1>2, <2>1, <2>2, Numbers
<1>4. Multiple(Base(m, e)) /\ Multiple(Length(m, e)) /\ Multiple(Base(m, e) + Length(m, e))
  BY <1>1, MultiplesAre DEF OnPages
<1>5. ASSUME HasNext(m, e)
      PROVE  /\ Next_(m, e) \in Listed(m) \ {0} /\ Next_(m, e) # e
             /\ NextBase(m, e) = Base(m, Next_(m, e))
             /\ NextBase(m, e) \in Nat /\ Multiple(NextBase(m, e))
             /\ Base(m, e) + Length(m, e) =< NextBase(m, e)
             /\ NextBase(m, e) =< Ceiling
  <2>1. PICK n : n = Next_(m, e)
    OBVIOUS
  <2>2. n \in Listed(m) \ {0} /\ n # e /\ NextBase(m, e) = Base(m, n)
    BY <1>1, <1>5, <2>1, WholeHas
  <2>3. Base(m, e) + Length(m, e) =< NextBase(m, e)
    BY <1>1, <1>5 DEF Ordered
  <2>4. Multiple(Base(m, n))
    BY <1>1, <2>2 DEF OnPages
  <2>5. Base(m, n) \in Nat /\ Base(m, n) =< Ceiling
    BY <1>2, <2>2, Numbers
  <2> QED
    BY <2>1, <2>2, <2>3, <2>4, <2>5
<1> QED
  BY <1>2, <1>3, <1>4, <1>5

LEMMA TidyIs ==
    ASSUME NEW m, Whole(m), Ranged(m), Below(m), Ordered(m), OnPages(m)
    PROVE  Tidy(m)
BY DEF Tidy

(* An entry comes before another, is its next one, or comes after that.    *)
LEMMA Neighbours ==
    ASSUME NEW m, NEW L, NEW D, Links(m, L, D), NEW t \in L, NEW e \in L, e # t
    PROVE  D[e] < D[t] \/ (Next_(m, t) # Null /\ (e = Next_(m, t) \/ D[Next_(m, t)] < D[e]))
<1>1. PICK c : c = Chain(m)
  OBVIOUS
<1>2. Walk(m, c) /\ c[Null] = Null
  BY <1>1, ChainIs, ChainEnds
<1>3. L = {c[k] : k \in 0 .. Null} \ {Null}
  BY <1>1, ListedIs DEF Listed, Null
<1>4. PICK i \in 0 .. Null : c[i] = t /\ t # Null
  BY <1>3
<1>5. PICK k \in 0 .. Null : c[k] = e /\ e # Null
  BY <1>3
<1>6. CASE k < i
  BY <1>2, <1>4, <1>5, <1>6, ChainRises
<1>7. CASE i < k
  <2>1. i + 1 \in 1 .. Null /\ i + 1 \in 0 .. Null /\ i + 1 - 1 = i
    BY <1>7, SlotNumbers
  <2>2. c[i + 1] = Next_(m, t)
    BY <1>2, <1>4, <2>1 DEF Walk
  <2>3. CASE k = i + 1
    BY <1>5, <2>2, <2>3
  <2>4. CASE i + 1 < k
    BY <1>2, <1>5, <2>1, <2>2, <2>4, ChainRises
  <2> QED
    BY <1>7, <2>3, <2>4, SlotNumbers
<1> QED
  BY <1>4, <1>5, <1>6, <1>7, SlotNumbers

(* Nothing lies between an entry and the next.                             *)
LEMMA GapIsFree ==
    ASSUME NEW m, Tidy(m), NEW t \in Listed(m), NEW e \in Listed(m)
    PROVE  \/ Base(m, e) + Length(m, e) =< Base(m, t) + Length(m, t)
           \/ HasNext(m, t) /\ NextBase(m, t) =< Base(m, e)
<1>1. PICK L : L = Listed(m)
  OBVIOUS
<1>2. PICK D0 : Links(m, L, D0)
  BY <1>1 DEF Tidy, Whole
<1> DEFINE D == [x \in Slots |-> Base(m, x)]
<1>3. D \in [Slots -> Nat] /\ \A x \in L : D[x] = Base(m, x)
  <2>1. Whole(m)
    BY DEF Tidy
  <2>3. \A x \in Slots : Base(m, x) \in Address
    BY <2>1, WholeHas
  <2>4. \A x \in Slots : Base(m, x) \in Nat
    BY <2>3, Numbers
  <2>2. L \subseteq Slots
    BY <1>2 DEF Links
  <2> QED
    BY <2>2, <2>4
<1>4. \A x \in L : (HasNext(m, x) <=> Next_(m, x) # Null)
  BY DEF HasNext, Next_
<1>5. \A x \in L : Next_(m, x) # Null =>
          /\ Next_(m, x) \in L /\ Base(m, x) < Base(m, Next_(m, x))
          /\ Base(m, x) + Length(m, x) =< Base(m, Next_(m, x))
          /\ NextBase(m, x) = Base(m, Next_(m, x))
  <2> SUFFICES ASSUME NEW x \in L, Next_(m, x) # Null
               PROVE  /\ Next_(m, x) \in L /\ Base(m, x) < Base(m, Next_(m, x))
                      /\ Base(m, x) + Length(m, x) =< Base(m, Next_(m, x))
                      /\ NextBase(m, x) = Base(m, Next_(m, x))
    OBVIOUS
  <2>1. HasNext(m, x) /\ x \in Listed(m)
    BY <1>1, <1>4
  <2>2. /\ Base(m, x) \in Nat /\ Length(m, x) \in Nat \ {0}
        /\ Next_(m, x) \in Listed(m) /\ NextBase(m, x) = Base(m, Next_(m, x)) /\ NextBase(m, x) \in Nat
        /\ Base(m, x) + Length(m, x) =< NextBase(m, x)
    BY <2>1, TidyHas
  <2>3. \A p \in Nat, q \in Nat \ {0}, r \in Nat : p + q =< r => p < r
    OBVIOUS
  <2> QED
    BY <1>1, <2>2, <2>3
<1> HIDE DEF D
<1>6. Links(m, L, D)
  <2>1. \A x \in L : Next_(m, x) # Null => D[Next_(m, x)] > D[x]
    BY <1>3, <1>5
  <2> QED
    BY <1>2, <1>3, <2>1 DEF Links
<1>7. CASE e = t
  BY <1>7, TidyHas
<1>8. CASE e # t /\ Base(m, e) < Base(m, t)
  <2>1. ~(D[t] < D[e])
    <3>1. Base(m, e) \in Nat /\ Base(m, t) \in Nat
      BY TidyHas
    <3> QED
      BY <1>1, <1>3, <1>8, <3>1
  <2>2. Next_(m, e) # Null /\ (t = Next_(m, e) \/ D[Next_(m, e)] < D[t])
    BY <1>1, <1>6, <1>8, <2>1, Neighbours
  <2>3. Base(m, Next_(m, e)) =< Base(m, t)
    <3>1. Base(m, t) \in Nat
      BY TidyHas
    <3>2. Next_(m, e) \in L /\ Next_(m, e) \in Listed(m)
      BY <1>1, <1>5, <2>2
    <3>3. Base(m, Next_(m, e)) \in Nat
      BY <3>2, TidyHas
    <3> QED
      BY <1>1, <1>3, <2>2, <3>1, <3>2, <3>3
  <2>4. Base(m, e) + Length(m, e) =< Base(m, Next_(m, e)) /\ Next_(m, e) \in Listed(m)
    BY <1>1, <1>5, <2>2
  <2>5. /\ Base(m, e) \in Nat /\ Length(m, e) \in Nat /\ Base(m, t) \in Nat /\ Length(m, t) \in Nat
        /\ Base(m, Next_(m, e)) \in Nat
    BY <2>4, TidyHas
  <2>6. \A p, q, r, s, u \in Nat : p + q =< r /\ r =< s => p + q =< s + u
    OBVIOUS
  <2> QED
    BY <2>3, <2>4, <2>5, <2>6
<1>9. CASE e # t /\ ~(Base(m, e) < Base(m, t))
  <2>1. ~(D[e] < D[t])
    BY <1>1, <1>3, <1>9
  <2>2. Next_(m, t) # Null /\ (e = Next_(m, t) \/ D[Next_(m, t)] < D[e])
    BY <1>1, <1>6, <1>9, <2>1, Neighbours
  <2>3. Next_(m, t) \in L /\ HasNext(m, t) /\ NextBase(m, t) = Base(m, Next_(m, t))
    BY <1>1, <1>4, <1>5, <2>2
  <2>4. Base(m, e) \in Nat /\ Base(m, Next_(m, t)) \in Nat
    BY <1>1, <2>3, TidyHas
  <2>5. Base(m, Next_(m, t)) =< Base(m, e)
    BY <1>1, <1>3, <2>2, <2>3, <2>4
  <2> QED
    BY <2>3, <2>5
<1> QED
  BY <1>7, <1>8, <1>9

\* What was covered still is, and the range [f, f + bytes) has become so.
Adds(m2, m, f, bytes) ==
    /\ \A x \in Nat : Covered(m, x) => Covered(m2, x)
    /\ \A x \in Nat : f =< x /\ x < f + bytes => Covered(m2, x) /\ ~Covered(m, x)

(* What lies in a gap belongs to no entry.                                 *)
LEMMA GapUncovered ==
    ASSUME NEW m, Tidy(m), NEW t \in Listed(m), NEW f \in Nat, NEW bytes \in Nat,
           End(m, t) =< f, HasNext(m, t) => f + bytes =< NextBase(m, t)
    PROVE  \A x \in Nat : f =< x /\ x < f + bytes => ~Covered(m, x)
<1> SUFFICES ASSUME NEW x \in Nat, f =< x, x < f + bytes, NEW e \in Listed(m),
                    Base(m, e) =< x, x < Base(m, e) + Length(m, e)
             PROVE  FALSE
  BY DEF Covered
<1>1. /\ Base(m, e) \in Nat /\ Length(m, e) \in Nat
      /\ Base(m, t) \in Nat /\ Length(m, t) \in Nat /\ End(m, t) = Base(m, t) + Length(m, t)
      /\ HasNext(m, t) => NextBase(m, t) \in Nat
  BY TidyHas
<1>2. CASE Base(m, e) + Length(m, e) =< Base(m, t) + Length(m, t)
  BY <1>1, <1>2
<1>3. CASE HasNext(m, t) /\ NextBase(m, t) =< Base(m, e)
  BY <1>1, <1>3
<1> QED
  BY <1>2, <1>3, GapIsFree

(* A range that ends where the next entry begins becomes part of it.       *)
LEMMA GrowDownTidy ==
    ASSUME MaskedBuild, NEW m, Tidy(m), NEW t \in Listed(m),
           NEW f \in Floor .. Ceiling, Multiple(f), End(m, t) =< f,
           NEW bytes \in Address, Multiple(bytes), Ceiling + bytes < AddrMod,
           HasNext(m, t), NextBase(m, t) = f + bytes,
           NEW o, o = PlaceAfter(m, t, f, bytes), Below(o.m), Ranged(o.m)
    PROVE  Tidy(o.m) /\ Adds(o.m, m, f, bytes)
<1>1. PICK n : n = Next_(m, t)
  OBVIOUS
<1>2. PICK m2 : m2 = o.m
  OBVIOUS
<1>3. f \in Nat /\ f \in Address /\ bytes \in Nat /\ Add(f, bytes) = f + bytes
  <2>1. f \in Nat /\ f \in Address /\ bytes \in Nat /\ f + bytes < AddrMod
    BY Numbers
  <2> QED
    BY <2>1, AddIs
<1>4. /\ Whole(m2) /\ Listed(m2) = Listed(m) /\ n \in Listed(m) \ {0} /\ n # t
      /\ Sets(m2, m, n, f, Add(Length(m, n), bytes), Next_(m, n))
  <2>1. Whole(m) /\ NextBase(m, t) = Add(f, bytes)
    BY <1>3 DEF Tidy
  <2> QED
    BY <1>1, <1>2, <1>3, <2>1, GrowDownIs
<1>5. PICK b \in Nat, l \in Nat :
          /\ b = Base(m, n) /\ l = Length(m, n) /\ l > 0 /\ b + l =< Ceiling /\ b = f + bytes
          /\ Multiple(l) /\ l \in Address
  <2>1. NextBase(m, t) = Base(m, n)
    BY <1>1, TidyHas
  <2>2. /\ Base(m, n) \in Nat /\ Length(m, n) \in Nat \ {0}
        /\ Base(m, n) + Length(m, n) =< Ceiling /\ Multiple(Length(m, n))
    BY <1>4, TidyHas
  <2>3. Length(m, n) \in Address
    BY <2>2, Numbers
  <2> QED
    BY <2>1, <2>2, <2>3
<1>6. Add(l, bytes) = l + bytes
  <2>1. l + bytes < AddrMod
    BY <1>3, <1>5, Numbers
  <2> QED
    BY <1>5, <2>1, AddIs
<1>7. /\ Base(m2, n) = f /\ Length(m2, n) = l + bytes
      /\ \A e \in Listed(m) \ {n} : Base(m2, e) = Base(m, e) /\ Length(m2, e) = Length(m, e)
      /\ \A e \in Listed(m) : Next_(m2, e) = Next_(m, e)
  <2>1. Listed(m) \subseteq Slots
    BY TidyHas
  <2>2. \A e \in Listed(m) \ {n} : m2.slot[e] = m.slot[e]
    BY <1>4, <2>1 DEF Sets
  <2> QED
    BY <1>4, <1>5, <1>6, <2>2 DEF Sets, Base, Length, Next_
<1>8. \A e \in Listed(m) : /\ Base(m2, e) =< Base(m, e)
                             /\ Base(m2, e) + Length(m2, e) = Base(m, e) + Length(m, e)
  <2> SUFFICES ASSUME NEW e \in Listed(m)
               PROVE  /\ Base(m2, e) =< Base(m, e)
                      /\ Base(m2, e) + Length(m2, e) = Base(m, e) + Length(m, e)
    OBVIOUS
  <2>1. CASE e = n
    <3>1. f =< b /\ f + (l + bytes) = b + l
      BY <1>3, <1>5
    <3> QED
      BY <1>5, <1>7, <2>1, <3>1
  <2>2. CASE e # n
    <3>1. Base(m, e) \in Nat
      BY TidyHas
    <3> QED
      BY <1>7, <2>2, <3>1
  <2> QED
    BY <2>1, <2>2
<1>9. Below(m2)
  BY <1>2
<1>10. Ordered(m2)
  <2> SUFFICES ASSUME NEW e \in Listed(m)
               PROVE  /\ Length(m2, e) > 0
                      /\ HasNext(m2, e) => Base(m2, e) + Length(m2, e) =< NextBase(m2, e)
    BY <1>4 DEF Ordered
  <2>1. /\ Base(m, e) \in Nat /\ Length(m, e) \in Nat \ {0}
        /\ HasNext(m, e) => /\ Next_(m, e) \in Listed(m) /\ Next_(m, e) # e
                            /\ NextBase(m, e) = Base(m, Next_(m, e)) /\ NextBase(m, e) \in Nat
                            /\ Base(m, e) + Length(m, e) =< NextBase(m, e)
    BY TidyHas
  <2>2. Length(m2, e) > 0
    BY <1>3, <1>5, <1>7, <2>1
  <2>3. ASSUME HasNext(m2, e) PROVE Base(m2, e) + Length(m2, e) =< NextBase(m2, e)
    <3>1. HasNext(m, e) /\ NextBase(m2, e) = Base(m2, Next_(m, e)) /\ Next_(m, e) # Null
      BY <1>7, <2>3 DEF HasNext, NextBase, Base, Next_
    <3>2. CASE Next_(m, e) = n
      <4>1. PICK D : Links(m, Listed(m), D)
        BY DEF Tidy, Whole
      <4>2. e = t
        BY <1>1, <3>1, <3>2, <4>1 DEF Links
      <4>3. Base(m2, e) + Length(m2, e) = End(m, t)
        BY <1>4, <1>7, <4>2, TidyHas
      <4> QED
        BY <1>7, <3>1, <3>2, <4>3
    <3>3. CASE Next_(m, e) # n
      <4>1. NextBase(m2, e) = NextBase(m, e)
        BY <1>7, <2>1, <3>1, <3>3
      <4> QED
        BY <1>8, <2>1, <3>1, <4>1
    <3> QED
      BY <3>2, <3>3
  <2> QED
    BY <2>2, <2>3
<1>11. OnPages(m2)
  <2>1. \A e \in Listed(m) : Multiple(Base(m, e)) /\ Multiple(Length(m, e))
    BY TidyHas
  <2>2. Multiple(l + bytes)
    BY <1>5, MultiplesAre
  <2> QED
    BY <1>4, <1>7, <2>1, <2>2 DEF OnPages
<1>12. Tidy(m2)
  BY <1>2, <1>4, <1>9, <1>10, <1>11, TidyIs
<1>13. \A x \in Nat : Covered(m, x) => Covered(m2, x)
  <2> SUFFICES ASSUME NEW x \in Nat, NEW e \in Listed(m),
                      Base(m, e) =< x, x < Base(m, e) + Length(m, e)
               PROVE  Covered(m2, x)
    BY DEF Covered
  <2>1. Base(m2, e) =< Base(m, e) /\ Base(m2, e) + Length(m2, e) = Base(m, e) + Length(m, e)
    BY <1>8
  <2>2. Base(m2, e) \in Nat
    <3>1. e = n => Base(m2, e) = f
      BY <1>7
    <3>2. e # n => Base(m2, e) = Base(m, e)
      BY <1>7
    <3>3. Base(m, e) \in Nat
      BY TidyHas
    <3> QED
      BY <1>3, <3>1, <3>2, <3>3
  <2>3. Base(m, e) \in Nat
    BY TidyHas
  <2>4. Base(m2, e) =< x /\ x < Base(m2, e) + Length(m2, e)
    BY <2>1, <2>2, <2>3
  <2> QED
    BY <1>4, <2>4 DEF Covered
<1>14. \A x \in Nat : f =< x /\ x < f + bytes => Covered(m2, x)
  <2> SUFFICES ASSUME NEW x \in Nat, f =< x, x < f + bytes PROVE Covered(m2, x)
    OBVIOUS
  <2>1. Base(m2, n) =< x /\ x < Base(m2, n) + Length(m2, n)
    BY <1>3, <1>5, <1>7
  <2> QED
    BY <1>4, <2>1 DEF Covered
<1>15. \A x \in Nat : f =< x /\ x < f + bytes => ~Covered(m, x)
  <2>1. f + bytes =< NextBase(m, t)
    BY <1>3
  <2> QED
    BY <1>3, <2>1, GapUncovered
<1> QED
  BY <1>2, <1>12, <1>13, <1>14, <1>15 DEF Adds

(* A range in a gap gets an entry of its own.                              *)
LEMMA InsertTidy ==
    ASSUME NEW m, Tidy(m), NEW t \in Listed(m),
           NEW f \in Nat, Multiple(f), End(m, t) =< f,
           NEW bytes \in Nat \ {0}, Multiple(bytes), HasNext(m, t) => f + bytes =< NextBase(m, t),
           NEW m2, Inserted(m2, m, t, f, bytes), Below(m2), Ranged(m2)
    PROVE  Tidy(m2) /\ Adds(m2, m, f, bytes)
<1>1. PICK k \in Slots \ Listed(m) :
        /\ k # 0 /\ Whole(m2) /\ Listed(m2) = Listed(m) \cup {k}
        /\ Base(m2, k) = f /\ Length(m2, k) = bytes
        /\ Next_(m2, t) = k /\ Next_(m2, k) = Next_(m, t)
        /\ \A e \in Listed(m) \ {t} : Next_(m2, e) = Next_(m, e)
        /\ \A e \in Listed(m) : Base(m2, e) = Base(m, e) /\ Length(m2, e) = Length(m, e)
  BY DEF Inserted
<1>2. \A e \in Listed(m) :
          /\ Base(m, e) \in Nat /\ Length(m, e) \in Nat \ {0}
          /\ Multiple(Base(m, e)) /\ Multiple(Length(m, e))
          /\ HasNext(m, e) => /\ Next_(m, e) \in Listed(m) /\ NextBase(m, e) = Base(m, Next_(m, e))
                              /\ Base(m, e) + Length(m, e) =< NextBase(m, e)
  BY TidyHas
<1>3. \A e \in Slots : (HasNext(m, e) <=> Next_(m, e) # Null) /\ (HasNext(m2, e) <=> Next_(m2, e) # Null)
                       /\ NextBase(m2, e) = Base(m2, Next_(m2, e))
  BY DEF HasNext, Next_, NextBase, Base
<1>4. t \in Slots /\ Listed(m) \subseteq Slots /\ End(m, t) = Base(m, t) + Length(m, t)
  BY TidyHas
<1>5. Ordered(m2)
  <2>1. Length(m2, k) > 0 /\ \A e \in Listed(m) : Length(m2, e) > 0
    BY <1>1, <1>2
  <2>2. HasNext(m2, k) => Base(m2, k) + Length(m2, k) =< NextBase(m2, k)
    <3> SUFFICES ASSUME HasNext(m2, k) PROVE Base(m2, k) + Length(m2, k) =< NextBase(m2, k)
      OBVIOUS
    <3>1. HasNext(m, t) /\ NextBase(m2, k) = Base(m2, Next_(m, t))
      BY <1>1, <1>3, <1>4
    <3>2. NextBase(m2, k) = NextBase(m, t)
      BY <1>1, <1>2, <3>1
    <3> QED
      BY <1>1, <3>1, <3>2
  <2>3. Base(m2, t) + Length(m2, t) =< NextBase(m2, t)
    <3>1. NextBase(m2, t) = f
      BY <1>1, <1>3, <1>4
    <3> QED
      BY <1>1, <1>4, <3>1
  <2>4. \A e \in Listed(m) \ {t} : HasNext(m2, e) => Base(m2, e) + Length(m2, e) =< NextBase(m2, e)
    <3> SUFFICES ASSUME NEW e \in Listed(m) \ {t}, HasNext(m2, e)
                 PROVE  Base(m2, e) + Length(m2, e) =< NextBase(m2, e)
      OBVIOUS
    <3>1. HasNext(m, e) /\ NextBase(m2, e) = Base(m2, Next_(m, e))
      BY <1>1, <1>3, <1>4
    <3>2. NextBase(m2, e) = NextBase(m, e)
      BY <1>1, <1>2, <3>1
    <3> QED
      BY <1>1, <1>2, <3>1, <3>2
  <2> QED
    BY <1>1, <2>1, <2>2, <2>3, <2>4 DEF Ordered
<1>6. OnPages(m2)
  BY <1>1, <1>2 DEF OnPages
<1>7. Tidy(m2)
  BY <1>1, <1>5, <1>6, TidyIs
<1>8. \A x \in Nat : Covered(m, x) => Covered(m2, x)
  BY <1>1 DEF Covered
<1>9. \A x \in Nat : f =< x /\ x < f + bytes => Covered(m2, x)
  BY <1>1 DEF Covered
<1>10. \A x \in Nat : f =< x /\ x < f + bytes => ~Covered(m, x)
  BY GapUncovered
<1> QED
  BY <1>7, <1>8, <1>9, <1>10 DEF Adds

\* What an outcome of a call for n pages does to a tidy map: the pages it
\* hands out were free.
Takes(o, m, n) ==
    Below(o.m) =>
        /\ Tidy(o.m)
        /\ \A x \in Nat : Covered(m, x) => Covered(o.m, x)
        /\ o.ret = 0 /\ o.frame # NoFrame => Multiple(o.frame) /\ Adds(o.m, m, o.frame, n * Page)

LEMMA StayTakes ==
    ASSUME NEW m, Tidy(m), NEW n, NEW o, o.m = m, o.ret # 0
    PROVE  Takes(o, m, n)
BY DEF Takes

LEMMA PagesIs ==
    ASSUME NEW n \in Counts \cup {1}, n # 0
    PROVE  /\ n * Page \in Address /\ n * Page \in Nat \ {0} /\ Multiple(n * Page)
           /\ Ceiling + n * Page < AddrMod
<1>1. n \in Nat \ {0} /\ n * Page \in Address /\ Ceiling + n * Page < AddrMod
  BY Asked
<1>2. n * Page \in Nat \ {0}
  <2>1. (n - 1) * Page >= 0 /\ (n - 1) * Page = n * Page - Page
    BY <1>1, Numbers
  <2>2. n * Page \in Int
    BY <1>1, Numbers
  <2> QED
    BY <2>1, <2>2, Numbers
<1>3. Multiple(n * Page)
  BY <1>1, MultiplesAre
<1> QED
  BY <1>1, <1>2, <1>3

(* A range between an entry and the next is placed there.                  *)
LEMMA PlaceTakes ==
    ASSUME MaskedBuild, NEW m, Tidy(m), NEW t \in Listed(m),
           NEW n \in Counts \cup {1}, n # 0,
           NEW f \in Address, f >= Floor, Multiple(f), End(m, t) =< f,
           f =< Ceiling /\ HasNext(m, t) => f + n * Page =< NextBase(m, t),
           NEW o, o = PlaceAfter(m, t, f, n * Page)
    PROVE  Takes(o, m, n)
<1> SUFFICES ASSUME Below(o.m)
             PROVE  /\ Tidy(o.m)
                    /\ \A x \in Nat : Covered(m, x) => Covered(o.m, x)
                    /\ o.ret = 0 /\ o.frame # NoFrame =>
                          Multiple(o.frame) /\ Adds(o.m, m, o.frame, n * Page)
  BY DEF Takes
<1>1. PICK bytes \in Address :
          /\ bytes = n * Page /\ bytes \in Nat \ {0} /\ Multiple(bytes) /\ Ceiling + bytes < AddrMod
  BY PagesIs
<1>2. Whole(m) /\ Ranged(m)
  BY DEF Tidy
<1>3. Fits(o)
  BY <1>1, <1>2, PlaceAfterFits
<1>4. Whole(o.m) /\ Ranged(o.m) /\ (o.ret = 0 /\ o.frame # NoFrame => o.frame \in Floor .. Ceiling)
  BY <1>3 DEF Fits
<1>5. f # NoFrame
  BY Numbers DEF NoFrame
<1>6. CASE HasNext(m, t) /\ NextBase(m, t) = Add(f, bytes)
  <2>1. o.frame = f /\ o.ret = 0
    BY <1>1, <1>2, <1>6, GrowDownIs
  <2>2. f \in Floor .. Ceiling
    BY <1>4, <1>5, <2>1
  <2>3. NextBase(m, t) = f + bytes
    <3>1. f \in Nat /\ f + bytes < AddrMod
      BY <1>1, <2>2, Numbers
    <3> QED
      BY <1>6, <3>1, AddIs
  <2>4. Tidy(o.m) /\ Adds(o.m, m, f, bytes)
    BY <1>1, <1>4, <1>6, <2>2, <2>3, GrowDownTidy
  <2> QED
    BY <1>1, <2>1, <2>4 DEF Adds
<1>7. CASE ~(HasNext(m, t) /\ NextBase(m, t) = Add(f, bytes))
  <2>1. o = Insert(m, t, f, bytes)
    BY <1>1, <1>7 DEF PlaceAfter
  <2>2. CASE FreeSlots(m) = {}
    <3>1. o.m = m /\ o.ret = -1
      BY <1>2, <2>1, <2>2, InsertIs
    <3> QED
      BY <3>1
  <2>3. CASE FreeSlots(m) # {}
    <3>1. o.frame = f /\ Inserted(o.m, m, t, f, bytes)
      BY <1>2, <2>1, <2>3, InsertIs
    <3>2. f =< Ceiling
      <4>1. PICK k \in Listed(o.m) : Base(o.m, k) = f /\ Length(o.m, k) = bytes
        BY <3>1 DEF Inserted
      <4>2. f + bytes =< Ceiling
        BY <4>1 DEF Below, Base, Length
      <4> QED
        BY <1>1, <4>2, Numbers
    <3>3. HasNext(m, t) => f + bytes =< NextBase(m, t)
      BY <1>1, <3>2
    <3>4. f \in Nat
      BY Numbers
    <3>5. Tidy(o.m) /\ Adds(o.m, m, f, bytes)
      BY <1>1, <1>4, <3>1, <3>3, <3>4, InsertTidy
    <3> QED
      BY <1>1, <3>1, <3>5 DEF Adds
  <2> QED
    BY <2>2, <2>3
<1> QED
  BY <1>6, <1>7

(* The first entry grows into the gap after it, and the next joins it.     *)
LEMMA LongerTidy ==
    ASSUME NEW m, Tidy(m), NEW t \in Listed(m),
           NEW bytes \in Address, bytes > 0, Multiple(bytes), Ceiling + bytes < AddrMod,
           HasNext(m, t) => End(m, t) + bytes =< NextBase(m, t),
           NEW m1, m1 = [m EXCEPT !.slot[t].len = Add(@, bytes)],
           ~HasNext(m, t) => Below(m1)
    PROVE  /\ Tidy(m1) /\ Listed(m1) = Listed(m) /\ Next_(m1, t) = Next_(m, t)
           /\ \A x \in Nat : Covered(m, x) => Covered(m1, x)
<1>1. Whole(m) /\ Ranged(m)
  BY DEF Tidy
<1>2. /\ Whole(m1) /\ Listed(m1) = Listed(m)
      /\ Sets(m1, m, t, Base(m, t), Add(Length(m, t), bytes), Next_(m, t))
  BY <1>1, LongerIs
<1>3. PICK b \in Nat, l \in Nat :
          /\ b = Base(m, t) /\ l = Length(m, t) /\ l > 0 /\ b + l =< Ceiling /\ End(m, t) = b + l
          /\ Multiple(l) /\ l \in Address
  <2>1. /\ Base(m, t) \in Nat /\ Length(m, t) \in Nat \ {0}
        /\ Base(m, t) + Length(m, t) =< Ceiling /\ Multiple(Length(m, t))
        /\ End(m, t) = Base(m, t) + Length(m, t)
    BY TidyHas
  <2>2. Length(m, t) \in Address
    BY <2>1, Numbers
  <2> QED
    BY <2>1, <2>2
<1>4. bytes \in Nat /\ Add(l, bytes) = l + bytes
  <2>1. bytes \in Nat /\ l + bytes < AddrMod
    BY <1>3, Numbers
  <2> QED
    BY <1>3, <2>1, AddIs
<1>5. /\ Listed(m) \subseteq Slots /\ t \in Slots
      /\ Base(m1, t) = b /\ Length(m1, t) = l + bytes
      /\ \A e \in Slots : Base(m1, e) = Base(m, e) /\ Next_(m1, e) = Next_(m, e)
      /\ \A e \in Slots \ {t} : Length(m1, e) = Length(m, e)
  <2>1. Listed(m) \subseteq Slots /\ t \in Slots
    BY TidyHas
  <2>2. \A e \in Slots \ {t} : m1.slot[e] = m.slot[e]
    BY <1>2 DEF Sets
  <2> QED
    BY <1>2, <1>3, <1>4, <2>1, <2>2 DEF Sets, Base, Length, Next_
<1>6. \A e \in Listed(m) :
          /\ Base(m, e) \in Nat /\ Length(m, e) \in Nat \ {0} /\ Base(m, e) + Length(m, e) =< Ceiling
          /\ Multiple(Base(m, e)) /\ Multiple(Length(m, e))
          /\ HasNext(m, e) => /\ Next_(m, e) \in Listed(m) /\ NextBase(m, e) = Base(m, Next_(m, e))
                              /\ Base(m, e) + Length(m, e) =< NextBase(m, e) /\ NextBase(m, e) =< Ceiling
  BY TidyHas
<1>7. \A e \in Listed(m) : /\ HasNext(m1, e) <=> HasNext(m, e)
                           /\ HasNext(m, e) => NextBase(m1, e) = NextBase(m, e)
  <2>1. \A e \in Listed(m) : HasNext(m1, e) <=> HasNext(m, e)
    BY <1>5 DEF HasNext, Next_
  <2>2. \A e \in Listed(m) : HasNext(m, e) => NextBase(m1, e) = Base(m1, Next_(m1, e))
    BY DEF NextBase, Base, Next_
  <2> QED
    BY <1>5, <1>6, <2>1, <2>2
<1>8. Ordered(m1)
  <2>1. \A e \in Listed(m) \ {t} :
            /\ Length(m1, e) > 0
            /\ HasNext(m1, e) => Base(m1, e) + Length(m1, e) =< NextBase(m1, e)
    BY <1>5, <1>6, <1>7
  <2>2. /\ Length(m1, t) > 0
        /\ HasNext(m1, t) => Base(m1, t) + Length(m1, t) =< NextBase(m1, t)
    <3>1. HasNext(m1, t) => HasNext(m, t) /\ NextBase(m1, t) = NextBase(m, t)
      BY <1>7
    <3>2. b + (l + bytes) = b + l + bytes /\ l + bytes > 0
      BY <1>3, <1>4
    <3> QED
      BY <1>3, <1>5, <3>1, <3>2
  <2> QED
    BY <1>2, <2>1, <2>2 DEF Ordered
<1>9. OnPages(m1)
  <2>1. Multiple(l + bytes)
    BY <1>3, MultiplesAre
  <2> QED
    BY <1>2, <1>5, <1>6, <2>1 DEF OnPages
<1>10. Below(m1)
  <2> SUFFICES ASSUME HasNext(m, t) PROVE Below(m1)
    OBVIOUS
  <2>1. \A e \in Listed(m) \ {t} : Base(m1, e) + Length(m1, e) =< Ceiling
    BY <1>5, <1>6
  <2>2. Base(m1, t) + Length(m1, t) =< Ceiling
    <3>1. NextBase(m, t) =< Ceiling /\ NextBase(m, t) \in Nat
      BY TidyHas
    <3>2. b + (l + bytes) =< Ceiling
      BY <1>3, <1>4, <3>1, Numbers
    <3> QED
      BY <1>5, <3>2
  <2> QED
    BY <1>2, <2>1, <2>2 DEF Below, Base, Length
<1>11. Ranged(m1)
  BY <1>1, <1>10, LongerFits
<1>12. Tidy(m1)
  BY <1>2, <1>8, <1>9, <1>10, <1>11, TidyIs
<1>13. \A x \in Nat : Covered(m, x) => Covered(m1, x)
  <2> SUFFICES ASSUME NEW x \in Nat, NEW e \in Listed(m),
                      Base(m, e) =< x, x < Base(m, e) + Length(m, e)
               PROVE  Base(m1, e) =< x /\ x < Base(m1, e) + Length(m1, e)
    BY <1>2 DEF Covered
  <2>1. CASE e = t
    <3>1. b =< x /\ x < b + (l + bytes)
      BY <1>3, <1>4, <2>1
    <3> QED
      BY <1>5, <2>1, <3>1
  <2>2. CASE e # t
    BY <1>5, <2>2
  <2> QED
    BY <2>1, <2>2
<1> QED
  BY <1>2, <1>5, <1>12, <1>13

LEMMA AbsorbTidy ==
    ASSUME MaskedBuild, NEW m, Tidy(m), NEW t \in Listed(m),
           HasNext(m, t), End(m, t) = NextBase(m, t), NEW m2, m2 = Absorb(m, t), Below(m2), Ranged(m2)
    PROVE  Tidy(m2) /\ \A x \in Nat : Covered(m, x) => Covered(m2, x)
<1>1. PICK n : n = Next_(m, t)
  OBVIOUS
<1>2. /\ Whole(m2) /\ Listed(m2) = Listed(m) \ {n} /\ n \in Listed(m) \ {0} /\ t # n
      /\ Sets(m2, m, t, Base(m, t), Add(Length(m, t), Length(m, n)), Next_(m, n))
  <2>1. Whole(m)
    BY DEF Tidy
  <2> QED
    BY <1>1, <2>1, AbsorbIs
<1>3. PICK b \in Nat, l \in Nat, k \in Nat :
          /\ b = Base(m, t) /\ l = Length(m, t) /\ k = Length(m, n) /\ l > 0 /\ k > 0
          /\ Base(m, n) = b + l /\ b + l + k =< Ceiling /\ Multiple(l) /\ Multiple(k)
          /\ l \in Address /\ k \in Address
  <2>1. /\ Base(m, t) \in Nat /\ Length(m, t) \in Nat \ {0} /\ Multiple(Length(m, t))
        /\ NextBase(m, t) = Base(m, n) /\ End(m, t) = Base(m, t) + Length(m, t)
        /\ Base(m, t) + Length(m, t) =< Ceiling
    BY <1>1, TidyHas
  <2>2. Length(m, n) \in Nat \ {0} /\ Multiple(Length(m, n)) /\ Base(m, n) + Length(m, n) =< Ceiling
        /\ Base(m, n) \in Nat
    BY <1>2, TidyHas
  <2>3. Length(m, t) \in Address /\ Length(m, n) \in Address
    BY <2>1, <2>2, Numbers
  <2> QED
    BY <2>1, <2>2, <2>3
<1>4. Add(l, k) = l + k
  <2>1. l + k < AddrMod
    BY <1>3, Numbers
  <2> QED
    BY <1>3, <2>1, AddIs
<1>5. /\ Listed(m) \subseteq Slots /\ t \in Slots
      /\ Base(m2, t) = b /\ Length(m2, t) = l + k /\ Next_(m2, t) = Next_(m, n)
      /\ \A e \in Slots : Base(m2, e) = Base(m, e)
      /\ \A e \in Slots \ {t} : Length(m2, e) = Length(m, e) /\ Next_(m2, e) = Next_(m, e)
  <2>1. Listed(m) \subseteq Slots /\ t \in Slots
    BY TidyHas
  <2>2. \A e \in Slots \ {t} : m2.slot[e] = m.slot[e]
    BY <1>2 DEF Sets
  <2> QED
    BY <1>2, <1>3, <1>4, <2>1, <2>2 DEF Sets, Base, Length, Next_
<1>6. \A e \in Listed(m) :
          /\ Base(m, e) \in Nat /\ Length(m, e) \in Nat \ {0}
          /\ Multiple(Base(m, e)) /\ Multiple(Length(m, e))
          /\ HasNext(m, e) => /\ Next_(m, e) \in Listed(m) /\ NextBase(m, e) = Base(m, Next_(m, e))
                              /\ Base(m, e) + Length(m, e) =< NextBase(m, e)
  BY TidyHas
<1>7. \A e \in Slots : /\ HasNext(m, e) <=> Next_(m, e) # Null
                       /\ HasNext(m2, e) <=> Next_(m2, e) # Null
                       /\ NextBase(m2, e) = Base(m2, Next_(m2, e))
  BY DEF HasNext, Next_, NextBase, Base
<1>8. Ordered(m2)
  <2>1. \A e \in Listed(m) \ {t, n} :
            /\ Length(m2, e) > 0
            /\ HasNext(m2, e) => Base(m2, e) + Length(m2, e) =< NextBase(m2, e)
    <3> SUFFICES ASSUME NEW e \in Listed(m) \ {t, n}
                 PROVE  /\ Length(m2, e) > 0
                        /\ HasNext(m2, e) => Base(m2, e) + Length(m2, e) =< NextBase(m2, e)
      OBVIOUS
    <3>1. HasNext(m2, e) => HasNext(m, e) /\ NextBase(m2, e) = NextBase(m, e)
      BY <1>5, <1>6, <1>7
    <3> QED
      BY <1>5, <1>6, <3>1
  <2>2. Length(m2, t) > 0
    BY <1>3, <1>5
  <2>3. HasNext(m2, t) => Base(m2, t) + Length(m2, t) =< NextBase(m2, t)
    <3> SUFFICES ASSUME HasNext(m2, t) PROVE Base(m2, t) + Length(m2, t) =< NextBase(m2, t)
      OBVIOUS
    <3>1. HasNext(m, n) /\ Next_(m, n) \in Slots
      BY <1>2, <1>5, <1>6, <1>7
    <3>2. NextBase(m2, t) = NextBase(m, n)
      BY <1>2, <1>5, <1>6, <1>7, <3>1
    <3>3. b + l + k =< NextBase(m, n)
      BY <1>2, <1>3, <1>6, <3>1
    <3>4. b + (l + k) = b + l + k
      BY <1>3
    <3> QED
      BY <1>5, <3>2, <3>3, <3>4
  <2> QED
    BY <1>2, <2>1, <2>2, <2>3 DEF Ordered
<1>9. OnPages(m2)
  <2>1. Multiple(l + k)
    BY <1>3, MultiplesAre
  <2> QED
    BY <1>2, <1>5, <1>6, <2>1 DEF OnPages
<1>10. Tidy(m2)
  BY <1>2, <1>8, <1>9, TidyIs
<1>11. \A x \in Nat : Covered(m, x) => Covered(m2, x)
  <2> SUFFICES ASSUME NEW x \in Nat, NEW e \in Listed(m),
                      Base(m, e) =< x, x < Base(m, e) + Length(m, e)
               PROVE  Covered(m2, x)
    BY DEF Covered
  <2>1. CASE e = t \/ e = n
    <3>1. b =< x /\ x < b + (l + k)
      BY <1>3, <2>1
    <3> QED
      BY <1>2, <1>5, <3>1 DEF Covered
  <2>2. CASE e # t /\ e # n
    BY <1>2, <1>5, <2>2 DEF Covered
  <2> QED
    BY <2>1, <2>2
<1> QED
  BY <1>10, <1>11

(* The function never sets *frame (memory.c:460), so nothing is held.      *)
LEMMA AllocMultipleTakes ==
    ASSUME MaskedBuild, NEW m, Tidy(m), NEW n \in Counts
    PROVE  Takes(AllocMultiple(m, n), m, n)
<1>1. PICK o : o = AllocMultiple(m, n)
  OBVIOUS
<1>2. PICK t : t = m.first
  OBVIOUS
<1>3. Whole(m) /\ Ranged(m) /\ t \in Listed(m)
  <2>1. Whole(m) /\ Ranged(m)
    BY DEF Tidy
  <2> QED
    BY <1>2, <2>1, WholeHas
<1>4. CASE n = 0
  <2>1. o.m = m /\ o.ret = -1
    BY <1>1, <1>4 DEF AllocMultiple, Returns
  <2> QED
    BY <1>1, <2>1, StayTakes
<1>5. CASE n # 0 /\ HasNext(m, t) /\ Add(End(m, t), n * Page) > NextBase(m, t)
  <2>1. o.m = m /\ o.ret = 1
    BY <1>1, <1>2, <1>5 DEF AllocMultiple, Returns
  <2> QED
    BY <1>1, <2>1, StayTakes
<1>6. CASE n # 0 /\ ~(HasNext(m, t) /\ Add(End(m, t), n * Page) > NextBase(m, t))
  <2>1. PICK bytes \in Address :
            /\ bytes = n * Page /\ bytes \in Nat \ {0} /\ Multiple(bytes) /\ Ceiling + bytes < AddrMod
    BY <1>6, PagesIs
  <2>2. o.m = GrowUp(m, t, bytes) /\ o.frame = NoFrame
    BY <1>1, <1>2, <1>6, <2>1 DEF AllocMultiple, Returns
  <2>3. HasNext(m, t) => End(m, t) + bytes =< NextBase(m, t)
    <3>1. End(m, t) \in Address /\ End(m, t) =< Ceiling /\ End(m, t) \in Nat
      BY <1>3, Numbers DEF Ranged
    <3>2. End(m, t) + bytes < AddrMod
      BY <2>1, <3>1, Numbers
    <3>3. Add(End(m, t), bytes) = End(m, t) + bytes
      BY <3>1, <3>2, AddIs
    <3>4. HasNext(m, t) => NextBase(m, t) \in Nat
      BY <1>3, TidyHas
    <3> QED
      BY <1>6, <2>1, <3>1, <3>3, <3>4
  <2>4. PICK m1 : m1 = [m EXCEPT !.slot[t].len = Add(@, bytes)]
    OBVIOUS
  <2>5. o.m = IF HasNext(m1, t) /\ End(m1, t) = NextBase(m1, t) THEN Absorb(m1, t) ELSE m1
    BY <2>2, <2>4 DEF GrowUp, JoinIfTouching
  <2>6. Next_(m1, t) = Next_(m, t)
    <3>1. Sets(m1, m, t, Base(m, t), Add(Length(m, t), bytes), Next_(m, t))
      BY <1>3, <2>1, <2>4, LongerIs
    <3> QED
      BY <3>1 DEF Sets
  <2>7. HasNext(m1, t) <=> HasNext(m, t)
    BY <2>6 DEF HasNext, Next_
  <2>8. ASSUME Below(o.m)
        PROVE  Tidy(o.m) /\ \A x \in Nat : Covered(m, x) => Covered(o.m, x)
    <3>1. ~HasNext(m, t) => Below(m1)
      BY <2>5, <2>7, <2>8
    <3>2. Tidy(m1) /\ Listed(m1) = Listed(m) /\ \A x \in Nat : Covered(m, x) => Covered(m1, x)
      BY <1>3, <2>1, <2>3, <2>4, <3>1, LongerTidy
    <3>3. CASE HasNext(m1, t) /\ End(m1, t) = NextBase(m1, t)
      <4>1. o.m = Absorb(m1, t) /\ t \in Listed(m1)
        BY <1>3, <2>5, <3>2, <3>3
      <4>2. Ranged(o.m)
        BY <1>3, <2>1, <2>2, <2>8, GrowUpFits
      <4>3. Tidy(o.m) /\ \A x \in Nat : Covered(m1, x) => Covered(o.m, x)
        BY <2>8, <3>2, <3>3, <4>1, <4>2, AbsorbTidy
      <4> QED
        BY <3>2, <4>3
    <3>4. CASE ~(HasNext(m1, t) /\ End(m1, t) = NextBase(m1, t))
      BY <2>5, <3>2, <3>4
    <3> QED
      BY <3>3, <3>4
  <2> QED
    BY <1>1, <2>2, <2>8 DEF Takes
<1> QED
  BY <1>4, <1>5, <1>6

\* Where the functions that leave a gap begin to look.
LEMMA JumpTidy ==
    ASSUME NEW m, Tidy(m), NEW t \in Listed(m), NEW j \in Jumps, NEW b \in Address, Multiple(b)
    PROVE  \A f \in {Beyond(m, t, b, j), Add(End(m, t), j * Page)} :
               f \in Address /\ f >= Floor /\ Multiple(f) /\ End(m, t) =< f
<1>1. Whole(m) /\ Ranged(m)
  BY DEF Tidy
<1>2. PICK x \in Address : x = j * Page /\ Ceiling + x < AddrMod /\ Multiple(x)
  <2>1. j \in Int
    BY Asked
  <2> QED
    BY <2>1, Asked, MultiplesAre
<1>3. PICK e \in Nat : e = End(m, t) /\ e =< Ceiling /\ Multiple(e)
  <2>1. End(m, t) \in Nat /\ End(m, t) =< Ceiling
    BY <1>1, Numbers DEF Ranged
  <2> QED
    BY <2>1, TidyHas
<1>4. PICK f : f = Add(e, x)
  OBVIOUS
<1>5. f = e + x /\ f \in Address /\ f >= Floor /\ Multiple(f) /\ e =< f /\ f = Add(End(m, t), j * Page)
  <2>1. e \in Address /\ e + x < AddrMod /\ x \in Nat
    BY <1>2, <1>3, Numbers
  <2>2. f = e + x
    BY <1>4, <2>1, AddIs
  <2>3. f \in Address /\ f >= Floor
    BY <1>1, <1>2, <1>3, <1>4, JumpIs
  <2> QED
    BY <1>2, <1>3, <1>4, <2>1, <2>2, <2>3, MultiplesAre
<1>6. Beyond(m, t, b, j) = IF f < b THEN b ELSE f
  BY <1>5 DEF Beyond
<1>7. f < b => e =< b /\ b >= Floor
  BY <1>3, <1>5, Numbers
<1> QED
  BY <1>3, <1>5, <1>6, <1>7

LEMMA AllocBeyondTakes ==
    ASSUME MaskedBuild, NEW m, Tidy(m), NEW b \in Address, Multiple(b), NEW j \in Jumps \ {0}
    PROVE  Takes(AllocBeyond(m, b, j), m, 1)
<1>1. PICK t : t = Find(m, b)
  OBVIOUS
<1>2. PICK f : f = Beyond(m, t, b, j)
  OBVIOUS
<1>3. t \in Listed(m)
  <2>1. Whole(m) /\ Ranged(m)
    BY DEF Tidy
  <2> QED
    BY <1>1, <2>1, FindHas
<1>4. f \in Address /\ f >= Floor /\ Multiple(f) /\ End(m, t) =< f
  BY <1>2, <1>3, JumpTidy
<1>5. PICK o : o = AllocBeyond(m, b, j)
  OBVIOUS
<1>6. o = IF HasNext(m, t) /\ NextBase(m, t) =< f THEN Returns(m, 1, f)
          ELSE IF HasNext(m, t) /\ NextBase(m, t) # Add(f, Page) /\ End(m, Next_(m, t)) = f
          THEN Returns(GrowUp(m, Next_(m, t), Page), 0, f)
          ELSE PlaceAfter(m, t, f, Page)
  BY <1>1, <1>2, <1>5 DEF AllocBeyond
<1>7. CASE HasNext(m, t) /\ NextBase(m, t) =< f
  <2>1. o.m = m /\ o.ret = 1
    BY <1>6, <1>7 DEF Returns
  <2> QED
    BY <1>5, <2>1, StayTakes
<1>8. CASE ~(HasNext(m, t) /\ NextBase(m, t) =< f)
  <2>1. HasNext(m, t) => f + Page =< NextBase(m, t) /\ End(m, Next_(m, t)) # f
    <3> SUFFICES ASSUME HasNext(m, t) PROVE f + Page =< NextBase(m, t) /\ End(m, Next_(m, t)) # f
      OBVIOUS
    <3>1. PICK n : n = Next_(m, t)
      OBVIOUS
    <3>2. n \in Listed(m) /\ NextBase(m, t) = Base(m, n) /\ Multiple(NextBase(m, t)) /\ NextBase(m, t) \in Nat
      BY <1>3, <3>1, TidyHas
    <3>3. f \in Nat /\ f < NextBase(m, t)
      BY <1>4, <1>8, <3>2, Numbers
    <3>4. End(m, n) = Base(m, n) + Length(m, n) /\ Length(m, n) \in Nat
      BY <3>2, TidyHas
    <3>5. End(m, n) # f
      BY <3>2, <3>3, <3>4
    <3> QED
      BY <1>4, <3>1, <3>2, <3>3, <3>5, MultiplesAre
  <2>2. o = PlaceAfter(m, t, f, Page)
    BY <1>6, <1>8, <2>1
  <2>3. 1 * Page = Page /\ 1 \in Counts \cup {1} /\ 1 # 0
    BY Numbers
  <2>4. o = PlaceAfter(m, t, f, 1 * Page) /\ (f =< Ceiling /\ HasNext(m, t) => f + 1 * Page =< NextBase(m, t))
    BY <2>1, <2>2, <2>3
  <2> QED
    BY <1>3, <1>4, <1>5, <2>3, <2>4, PlaceTakes
<1> QED
  BY <1>7, <1>8

(* The walk of the beyond_ex functions stops after an entry whose next one *)
(* does not block the frame.                                               *)
LEMMA WalkTidy ==
    ASSUME NEW m, Tidy(m), NEW b \in Address, Multiple(b), NEW j \in Jumps,
           NEW blocked \in SUBSET BeforeOthers(m), NEW w, w = BeyondExWalk(m, b, j, blocked)
    PROVE  /\ w.t \in Listed(m)
           /\ w.f \in Address /\ w.f >= Floor /\ Multiple(w.f) /\ End(m, w.t) =< w.f
           /\ HasNext(m, w.t) => \E k \in BeforeOthers(m) \ blocked :
                                    Chain(m)[k] = w.t /\ BeyondExFrame(m, b, j, k) = w.f
<1> DEFINE i == FindAt(m, b)
           ends == {x \in i .. Null - 1 : Chain(m)[x] # Null} \ blocked
           k == CHOOSE x \in ends : \A y \in ends : x =< y
<1>w. Whole(m) /\ Ranged(m)
  BY DEF Tidy
<1>1. w = [t |-> Chain(m)[k], f |-> BeyondExFrame(m, b, j, k)]
  BY DEF BeyondExWalk
<1>2. i \in 0 .. Null - 1 /\ Chain(m)[i] # Null
  BY <1>w, FindHas, WholeHas, SlotNumbers
<1>3. /\ ends \subseteq i .. Null - 1 /\ \A x \in ends : Chain(m)[x] # Null /\ x \notin blocked
      /\ \A x \in i .. Null - 1 : Chain(m)[x] # Null /\ ~HasNext(m, Chain(m)[x]) => x \in ends
  BY DEF BeforeOthers
<1> HIDE DEF i, ends
<1>4. k \in ends /\ Chain(m)[k] \in Listed(m)
  BY <1>w, <1>2, <1>3, WalkStops
<1> HIDE DEF k
<1>5. BeyondExFrame(m, b, j, k) \in {Beyond(m, Chain(m)[k], b, j), Add(End(m, Chain(m)[k]), j * Page)}
  BY DEF BeyondExFrame
<1>6. /\ w.f \in Address /\ w.f >= Floor /\ Multiple(w.f) /\ End(m, w.t) =< w.f
      /\ w.t \in Listed(m)
  BY <1>1, <1>4, <1>5, JumpTidy
<1>7. HasNext(m, w.t) => k \in BeforeOthers(m) \ blocked
  <2>1. k \in 0 .. Null - 1 /\ k \notin blocked /\ Chain(m)[k] # Null
    BY <1>2, <1>3, <1>4, SlotNumbers
  <2> QED
    BY <1>1, <2>1 DEF BeforeOthers
<1> QED
  BY <1>1, <1>6, <1>7

LEMMA AllocBeyondExTakes ==
    ASSUME MaskedBuild, NEW m, Tidy(m), NEW b \in Address, Multiple(b), NEW j \in Jumps \ {0}
    PROVE  Takes(AllocBeyondEx(m, b, j), m, 1)
<1> DEFINE blocked == {k \in BeforeOthers(m) :
                         NextBase(m, Chain(m)[k]) =< BeyondExFrame(m, b, j, k)}
<1>1. PICK w : w = BeyondExWalk(m, b, j, blocked)
  OBVIOUS
<1>2. AllocBeyondEx(m, b, j) = PlaceAfter(m, w.t, w.f, Page)
  BY <1>1 DEF AllocBeyondEx
<1>3. blocked \in SUBSET BeforeOthers(m) /\ \A k \in BeforeOthers(m) \ blocked :
          ~(NextBase(m, Chain(m)[k]) =< BeyondExFrame(m, b, j, k))
  OBVIOUS
<1> HIDE DEF blocked
<1>4. /\ w.t \in Listed(m) /\ w.f \in Address /\ w.f >= Floor /\ Multiple(w.f) /\ End(m, w.t) =< w.f
      /\ HasNext(m, w.t) => ~(NextBase(m, w.t) =< w.f)
  BY <1>1, <1>3, WalkTidy
<1>5. HasNext(m, w.t) => w.f + Page =< NextBase(m, w.t)
  <2> SUFFICES ASSUME HasNext(m, w.t) PROVE w.f + Page =< NextBase(m, w.t)
    OBVIOUS
  <2>1. NextBase(m, w.t) \in Nat /\ Multiple(NextBase(m, w.t))
    BY <1>4, TidyHas
  <2>2. w.f \in Nat /\ w.f < NextBase(m, w.t)
    BY <1>4, <2>1, Numbers
  <2> QED
    BY <1>4, <2>1, <2>2, MultiplesAre
<1>6. 1 * Page = Page /\ 1 \in Counts \cup {1} /\ 1 # 0
  BY Numbers
<1>7. /\ AllocBeyondEx(m, b, j) = PlaceAfter(m, w.t, w.f, 1 * Page)
      /\ w.f =< Ceiling /\ HasNext(m, w.t) => w.f + 1 * Page =< NextBase(m, w.t)
  BY <1>2, <1>5, <1>6
<1> QED
  BY <1>4, <1>6, <1>7, PlaceTakes

LEMMA AllocMultipleBeyondExTakes ==
    ASSUME MaskedBuild, NEW m, Tidy(m), NEW b \in Address, Multiple(b), NEW n \in Counts,
           NEW j \in Jumps \ {0}
    PROVE  Takes(AllocMultipleBeyondEx(m, b, n, j), m, n)
<1>1. CASE n = 0
  <2>1. PICK o : o = AllocMultipleBeyondEx(m, b, n, j)
    OBVIOUS
  <2>2. o.m = m /\ o.ret = -1
    BY <1>1, <2>1 DEF AllocMultipleBeyondEx, Returns
  <2> QED
    BY <2>1, <2>2, StayTakes
<1>2. CASE n # 0
  <2> DEFINE blocked == {k \in BeforeOthers(m) :
                           NextBase(m, Chain(m)[k]) < Add(BeyondExFrame(m, b, j, k), n * Page)}
  <2>1. PICK w : w = BeyondExWalk(m, b, j, blocked)
    OBVIOUS
  <2>2. AllocMultipleBeyondEx(m, b, n, j) = PlaceAfter(m, w.t, w.f, n * Page)
    BY <1>2, <2>1 DEF AllocMultipleBeyondEx
  <2>3. blocked \in SUBSET BeforeOthers(m) /\ \A k \in BeforeOthers(m) \ blocked :
            ~(NextBase(m, Chain(m)[k]) < Add(BeyondExFrame(m, b, j, k), n * Page))
    OBVIOUS
  <2> HIDE DEF blocked
  <2>4. /\ w.t \in Listed(m) /\ w.f \in Address /\ w.f >= Floor /\ Multiple(w.f) /\ End(m, w.t) =< w.f
        /\ HasNext(m, w.t) => ~(NextBase(m, w.t) < Add(w.f, n * Page))
    BY <2>1, <2>3, WalkTidy
  <2>5. ASSUME w.f =< Ceiling, HasNext(m, w.t) PROVE w.f + n * Page =< NextBase(m, w.t)
    <3>1. NextBase(m, w.t) \in Nat
      BY <2>4, <2>5, TidyHas
    <3>2. PICK bytes \in Address : bytes = n * Page /\ Ceiling + bytes < AddrMod /\ bytes \in Nat
      BY <1>2, PagesIs
    <3>3. w.f \in Nat /\ w.f + bytes < AddrMod
      BY <2>4, <2>5, <3>2, Numbers
    <3>4. Add(w.f, bytes) = w.f + bytes
      BY <2>4, <3>3, AddIs
    <3> QED
      BY <2>4, <2>5, <3>1, <3>2, <3>3, <3>4
  <2> QED
    BY <1>2, <2>2, <2>4, <2>5, PlaceTakes
<1> QED
  BY <1>1, <1>2

(* The addresses that are passed, and the first range.                     *)
LEMMA PagedIs == ASSUME Paged PROVE \A a \in Addrs \cup {Base0, Length0} : a \in Address /\ Multiple(a)
<1> SUFFICES ASSUME NEW a \in Addrs \cup {Base0, Length0} PROVE a \in Address /\ Multiple(a)
  OBVIOUS
<1>1. a \in Address /\ a % Page = 0
  BY VirtualAssumption DEF Paged, Address
<1>2. a \in Nat /\ Page \in Nat \ {0}
  BY <1>1, Numbers
<1>3. a \div Page \in Int /\ a = Page * (a \div Page) + (a % Page)
  BY <1>2, Divides
<1>4. a = (a \div Page) * Page
  BY <1>1, <1>2, <1>3
<1> QED
  BY <1>1, <1>3, <1>4 DEF Multiple

\* Every page that is held has one holder and lies in an entry.
Lent ==
    \A a \in Address : own[a] > 0 =>
        /\ own[a] = 1 /\ Multiple(a)
        /\ \A i \in 0 .. Page - 1 : Covered(vmap, a + i)

CheckedInv == Inv /\ Tidy(vmap) /\ Lent

LEMMA InitChecked == ASSUME Paged, Init PROVE CheckedInv
<1>1. Inv
  BY InitInv
<1>2. Listed(vmap) = {0} /\ Base(vmap, 0) = Base0 /\ Length(vmap, 0) = Length0 /\ ~HasNext(vmap, 0)
  <2>1. Listed(vmap) = {0} /\ Base(vmap, 0) = Base0 /\ Length(vmap, 0) = Length0 /\ Next_(vmap, 0) = Null
    BY InitMap
  <2> QED
    BY <2>1 DEF HasNext, Next_
<1>3. Below(vmap)
  BY <1>2, Sizes DEF Below, Base, Length
<1>4. Ordered(vmap)
  BY <1>2, Sizes DEF Ordered
<1>5. OnPages(vmap)
  BY <1>2, PagedIs DEF OnPages
<1>6. Tidy(vmap)
  BY <1>1, <1>3, <1>4, <1>5 DEF Inv, Tidy
<1>7. Lent
  BY DEF Init, Lent
<1> QED
  BY <1>1, <1>6, <1>7 DEF CheckedInv

(* Pages that were free, and lie in entries now, have one holder each.     *)
LEMMA GainLends ==
    ASSUME Held, Lent, NEW f \in Floor .. Ceiling, NEW n \in Counts \cup {1}, Multiple(f),
           own' = Gain(f, n), Adds(vmap', vmap, f, n * Page)
    PROVE  Lent'
<1>1. n \in Nat /\ n * Page \in Address /\ Ceiling + n * Page < AddrMod /\ Page \in Nat \ {0}
  BY Asked, Numbers
<1> DEFINE gained == {Add(f, i * Page) : i \in 0 .. n - 1}
<1>2. \A a \in gained : a \in Nat /\ Multiple(a) /\ f =< a /\ a + Page =< f + n * Page
  <2> SUFFICES ASSUME NEW i \in 0 .. n - 1
               PROVE  /\ Add(f, i * Page) \in Nat /\ Multiple(Add(f, i * Page))
                      /\ f =< Add(f, i * Page) /\ Add(f, i * Page) + Page =< f + n * Page
    OBVIOUS
  <2>1. PICK x \in Nat, z \in Nat : x = i * Page /\ z = n * Page /\ x + Page =< z
    <3>1. i \in Nat /\ n - i - 1 \in Nat /\ i * Page \in Nat /\ n * Page \in Nat
      BY <1>1
    <3>2. (n - i - 1) * Page \in Nat
      BY <1>1, <3>1
    <3>3. (n - i - 1) * Page = n * Page - i * Page - Page
      BY <1>1, <3>1
    <3> QED
      BY <1>1, <3>1, <3>2, <3>3
  <2>2. f \in Nat /\ f =< Ceiling /\ f \in Address /\ x \in Address /\ f + x < AddrMod
    BY <1>1, <2>1, Numbers
  <2>3. Add(f, x) = f + x
    BY <2>2, AddIs
  <2>4. Multiple(f + x)
    <3>1. i \in Int
      OBVIOUS
    <3> QED
      BY <2>1, <3>1, MultiplesAre
  <2> QED
    BY <1>1, <2>1, <2>2, <2>3, <2>4
<1>3. \A a \in Address : own'[a] = own[a] + (IF a \in gained THEN 1 ELSE 0)
  BY DEF Gain
<1> HIDE DEF gained
<1> SUFFICES ASSUME NEW a \in Address, own'[a] > 0
             PROVE  /\ own'[a] = 1 /\ Multiple(a)
                    /\ \A i \in 0 .. Page - 1 : Covered(vmap', a + i)
  BY DEF Lent
<1>4. own[a] \in Nat /\ a \in Nat
  BY Numbers DEF Held
<1>5. CASE a \in gained
  <2>1. Multiple(a) /\ f =< a /\ a + Page =< f + n * Page
    BY <1>2, <1>5
  <2>2. PICK z \in Nat : z = n * Page
    BY <1>1, Numbers
  <2>3. \A i \in 0 .. Page - 1 : a + i \in Nat /\ f =< a + i /\ a + i < f + z
    BY <1>1, <1>4, <2>1, <2>2
  <2>4. \A i \in 0 .. Page - 1 : Covered(vmap', a + i) /\ ~Covered(vmap, a + i)
    BY <2>2, <2>3 DEF Adds
  <2>5. 0 \in 0 .. Page - 1
    BY <1>1
  <2>6. ~(own[a] > 0)
    BY <2>4, <2>5 DEF Lent
  <2>7. own'[a] = 1
    BY <1>3, <1>4, <1>5, <2>6
  <2> QED
    BY <2>1, <2>4, <2>7
<1>6. CASE a \notin gained
  <2>1. own'[a] = own[a]
    BY <1>3, <1>4, <1>6
  <2>2. own[a] = 1 /\ Multiple(a) /\ \A i \in 0 .. Page - 1 : Covered(vmap, a + i)
    BY <2>1 DEF Lent
  <2>3. \A i \in 0 .. Page - 1 : a + i \in Nat
    BY <1>1, <1>4
  <2> QED
    BY <2>1, <2>2, <2>3 DEF Adds
<1> QED
  BY <1>5, <1>6

LEMMA AllocatesLends ==
    ASSUME CheckedInv, NEW n \in Counts \cup {1}, NEW o, Fits(o), Takes(o, vmap, n), Allocates(o, n)
    PROVE  CheckedInv'
<1>1. Inv /\ Tidy(vmap) /\ Lent /\ Held
  BY DEF CheckedInv, Inv
<1>2. Inv'
  BY <1>1, AllocatesKeeps
<1>3. vmap' = o.m /\ Below(o.m)
  BY DEF Allocates, Below
<1>4. /\ Tidy(vmap')
      /\ \A x \in Nat : Covered(vmap, x) => Covered(vmap', x)
      /\ o.ret = 0 /\ o.frame # NoFrame => Multiple(o.frame) /\ Adds(vmap', vmap, o.frame, n * Page)
  BY <1>3 DEF Takes
<1>5. Lent'
  <2>1. CASE o.status = "ok" /\ o.ret = 0 /\ o.frame # NoFrame
    <3>1. o.frame \in Floor .. Ceiling
      BY <1>3, <2>1 DEF Fits
    <3>2. own' = Gain(o.frame, n)
      BY <2>1 DEF Allocates
    <3> QED
      BY <1>1, <1>4, <2>1, <3>1, <3>2, GainLends
  <2>2. CASE ~(o.status = "ok" /\ o.ret = 0 /\ o.frame # NoFrame)
    <3>1. own' = own
      BY <2>2 DEF Allocates
    <3>2. \A a \in Address, i \in 0 .. Page - 1 : a + i \in Nat
      BY Numbers
    <3> QED
      BY <1>1, <1>4, <3>1, <3>2 DEF Lent
  <2> QED
    BY <2>1, <2>2
<1> QED
  BY <1>2, <1>4, <1>5 DEF CheckedInv

LEMMA CheckedKeeps == ASSUME MaskedBuild, Paged, CheckedInv, AllocateChecked(Addrs) PROVE CheckedInv'
<1>1. Tidy(vmap) /\ Whole(vmap) /\ Ranged(vmap)
  BY DEF CheckedInv, Inv
<1>2. /\ \A b \in Addrs : b \in Address /\ Multiple(b)
      /\ 1 \in Counts \cup {1} /\ \A n \in Counts : n \in Counts \cup {1}
      /\ \A j \in Jumps \ {0} : j \in Jumps
  BY PagedIs
<1>3. ASSUME NEW b \in Addrs, NEW j \in Jumps \ {0}, PageVirtualAllocBeyond(b, j) PROVE CheckedInv'
  BY <1>1, <1>2, <1>3, AllocBeyondFits, AllocBeyondTakes, AllocatesLends DEF PageVirtualAllocBeyond
<1>4. ASSUME NEW b \in Addrs, NEW j \in Jumps \ {0}, PageVirtualAllocBeyondEx(b, j) PROVE CheckedInv'
  BY <1>1, <1>2, <1>4, AllocBeyondExFits, AllocBeyondExTakes, AllocatesLends DEF PageVirtualAllocBeyondEx
<1>5. ASSUME NEW n \in Counts, PageVirtualAllocMultiple(n) PROVE CheckedInv'
  BY <1>1, <1>2, <1>5, AllocMultipleFits, AllocMultipleTakes, AllocatesLends DEF PageVirtualAllocMultiple
<1>6. ASSUME NEW b \in Addrs, NEW n \in Counts, NEW j \in Jumps \ {0}, PageVirtualAllocMultipleBeyondEx(b, n, j)
      PROVE  CheckedInv'
  BY <1>1, <1>2, <1>6, AllocMultipleBeyondExFits, AllocMultipleBeyondExTakes, AllocatesLends
     DEF PageVirtualAllocMultipleBeyondEx
<1> QED
  BY <1>3, <1>4, <1>5, <1>6 DEF AllocateChecked

LEMMA CheckedSafe == ASSUME CheckedInv PROVE Sorted /\ NoSharedPage /\ OwnedCovered
<1>1. Tidy(vmap) /\ Lent
  BY DEF CheckedInv
<1>2. Sorted
  BY <1>1 DEF Sorted, Tidy, Ordered, Base, Length
<1>3. NoSharedPage
  <2> SUFFICES ASSUME NEW a \in Address, own[a] > 0
               PROVE  own[a] = 1 /\ \A b \in Address : (own[b] > 0 /\ b # a) => ~Meet(a, 1, b, 1)
    BY DEF NoSharedPage
  <2>1. own[a] = 1 /\ Multiple(a)
    BY <1>1 DEF Lent
  <2>2. ASSUME NEW b \in Address, own[b] > 0, b # a PROVE ~Meet(a, 1, b, 1)
    <3>1. Multiple(b)
      BY <1>1, <2>2 DEF Lent
    <3>2. a \in Nat /\ b \in Nat /\ 1 * Page = Page /\ Page \in Nat
      BY Numbers
    <3>3. (a < b => a + Page =< b) /\ (b < a => b + Page =< a)
      BY <2>1, <3>1, MultiplesAre
    <3>4. a + Page =< b \/ b + Page =< a
      BY <2>2, <3>2, <3>3
    <3> QED
      BY <3>2, <3>4 DEF Meet
  <2> QED
    BY <2>1, <2>2
<1>4. OwnedCovered
  <2> SUFFICES ASSUME NEW a \in Address, own[a] > 0, NEW i \in 0 .. Page - 1 PROVE InEntry(a + i)
    BY DEF OwnedCovered
  <2>1. Covered(vmap, a + i)
    BY <1>1 DEF Lent
  <2> QED
    BY <2>1 DEF Covered, InEntry, Entries, Base, Length
<1> QED
  BY <1>2, <1>3, <1>4

\* What holds while the callers keep to those functions.
MCInv == callers = "checked" => CheckedInv

LEMMA MCSpecInv == ASSUME MaskedBuild, Paged PROVE MCSpec => []MCInv
<1>1. MCInit => MCInv
  BY InitChecked DEF MCInit, MCInv
<1>2. MCInv /\ [MCNext]_<<vars, callers>> => MCInv'
  <2> SUFFICES ASSUME MCInv, [MCNext]_<<vars, callers>>, callers' = "checked" PROVE CheckedInv'
    BY DEF MCInv
  <2>1. CASE UNCHANGED <<vars, callers>>
    <3>1. CheckedInv
      BY <2>1 DEF MCInv
    <3> QED
      BY <2>1, <3>1 DEF vars, CheckedInv, Inv, Held, Lent
  <2>2. CASE MCNext
    <3>1. callers = "checked" /\ AllocateChecked(Addrs)
      BY <2>2 DEF MCNext
    <3> QED
      BY <3>1, CheckedKeeps DEF MCInv
  <2> QED
    BY <2>1, <2>2
<1> QED
  BY <1>1, <1>2, PTL DEF MCSpec

LEMMA MCInvSafe == MCInv => SortedIfChecked /\ NotSharedIfChecked /\ CoveredIfChecked
BY CheckedSafe DEF MCInv, SortedIfChecked, NotSharedIfChecked, CoveredIfChecked

(* Callers that look before they place leave every entry below the next,   *)
(* so a lookup (memory.c:336-338), which stops at the first entry above an *)
(* address, has seen all that could hold it.                               *)
THEOREM CheckedSorted == ASSUME MaskedBuild, Paged PROVE MCSpec => []SortedIfChecked
BY MCSpecInv, MCInvSafe, PTL

(* No two of them are handed pages with a common byte: the comparisons     *)
(* with the next entry (memory.c:425, 459, 479) leave only ranges in a gap.*)
THEOREM CheckedApart == ASSUME MaskedBuild, Paged PROVE MCSpec => []NotSharedIfChecked
BY MCSpecInv, MCInvSafe, PTL

(* What they were handed stays in the map, and is not taken for free.      *)
THEOREM CheckedCovered == ASSUME MaskedBuild, Paged PROVE MCSpec => []CoveredIfChecked
BY MCSpecInv, MCInvSafe, PTL
=============================================================================
