-------------------------- MODULE BootMapping_proofs --------------------------
(***************************************************************************)
(* For every firmware whose tables are as FirmwareOK says, every kernel    *)
(* file and tables of every size: the moved tables translate as before,    *)
(* and the kernel's segments are at their addresses.                       *)
(*                                                                         *)
(* What init_virtual_mapping makes is a function of the firmware, so the   *)
(* invariant says what map_page has added to it.                           *)
(***************************************************************************)
EXTENDS BootMapping, FiniteSetTheorems, WellFoundedInduction, TLAPS

-----------------------------------------------------------------------------
(* Arithmetic *)

(* A set of natural numbers has a least member.                            *)
LEMMA Least ==
    ASSUME NEW T \in SUBSET Nat, T # {}
    PROVE  \E x \in T : \A y \in T : ~(y < x)
<1> DEFINE R == OpToRel(<, Nat)
<1>1. IsWellFoundedOn(R, Nat)
  BY NatLessThanWellFounded, Zenon
<1>2. \A x, y \in Nat : y < x => <<y, x>> \in R
  BY DEF OpToRel
<1> HIDE DEF R
<1>3. PICK x \in T : \A y \in T : ~(<<y, x>> \in R)
  BY <1>1, WFMin
<1> QED
  BY <1>2, <1>3

LEMMA LeastIsMin ==
    ASSUME NEW T \in SUBSET Nat, T # {}
    PROVE  Min(T) \in T /\ \A y \in T : Min(T) =< y
<1>1. PICK x \in T : \A y \in T : ~(y < x)
  BY Least
<1>2. x \in T /\ \A y \in T : x =< y
  BY <1>1
<1> QED
  BY <1>2 DEF Min

LEMMA GreatestIsMax ==
    ASSUME NEW n \in Nat, NEW T \in SUBSET (0 .. n), T # {}
    PROVE  Max(T) \in T /\ \A y \in T : Max(T) >= y
<1> DEFINE B == {x \in Nat : \A y \in T : y =< x}
<1>1. n \in B
  OBVIOUS
<1>2. PICK x \in B : \A y \in B : ~(y < x)
  BY <1>1, Least
<1>3. x \in T
  <2> SUFFICES ASSUME x \notin T PROVE FALSE
    OBVIOUS
  <2>1. \A y \in T : y < x
    BY <1>2
  <2>2. x # 0
    <3>1. PICK y : y \in T
      OBVIOUS
    <3>2. y \in 0 .. n /\ y < x
      BY <2>1, <3>1
    <3> QED
      BY <3>2
  <2>3. x - 1 \in B
    BY <1>2, <2>1, <2>2
  <2> QED
    BY <1>2, <2>3
<1>4. \A y \in T : x >= y
  BY <1>2
<1> QED
  BY <1>3, <1>4 DEF Max

LEMMA Divides ==
    \A x \in Nat, d \in Nat \ {0} :
        x \div d \in Nat /\ x % d \in 0 .. d - 1 /\ x = d * (x \div d) + (x % d)
OBVIOUS

LEMMA Grows == \A x, y \in Nat, d \in Nat : x =< y => d * x =< d * y
OBVIOUS

\* x is q times d and r.
Parts(d, q, r, x) == x = d * q + r

(* There is one quotient and one remainder.                                *)
LEMMA Quotient ==
    ASSUME NEW d \in Nat \ {0}, NEW q \in Nat, NEW r \in 0 .. d - 1, NEW x, Parts(d, q, r, x)
    PROVE  x \div d = q /\ x % d = r
<1>1. d * q \in Nat /\ x \in Nat /\ x = d * q + r
  BY DEF Parts
<1>2. PICK p \in Nat : p = x \div d
  BY <1>1, Divides
<1>3. PICK t \in 0 .. d - 1 : t = x % d
  BY <1>1, Divides
<1>4. x = d * p + t
  BY <1>1, <1>2, <1>3, Divides
<1>5. \A y, z \in Nat : y < z => d * y + d =< d * z
  <2> SUFFICES ASSUME NEW y \in Nat, NEW z \in Nat, y < z PROVE d * y + d =< d * z
    OBVIOUS
  <2>1. d * (z - y - 1) >= 0
    OBVIOUS
  <2> QED
    BY <2>1
<1>6. d * p \in Nat
  BY <1>2
<1>7. p = q
  BY <1>4, <1>5, <1>6, <1>1
<1> QED
  BY <1>1, <1>2, <1>3, <1>4, <1>7

\* y is x and s times d.
Moved(x, s, d, y) == y = x + s * d

LEMMA Shifted ==
    ASSUME NEW x \in Nat, NEW s \in Nat, NEW d \in Nat \ {0}, NEW y, Moved(x, s, d, y)
    PROVE  y \div d = x \div d + s /\ y % d = x % d
<1>1. PICK q \in Nat, r \in 0 .. d - 1 : q = x \div d /\ r = x % d /\ x = d * q + r
  BY Divides
<1>2. y = d * (q + s) + r /\ q + s \in Nat
  BY <1>1 DEF Moved
<1>3. PICK p \in Nat : p = q + s
  BY <1>1
<1>4. Parts(d, p, r, y)
  BY <1>2, <1>3 DEF Parts
<1>5. y \div d = p /\ y % d = r
  BY <1>1, <1>4, Quotient
<1> QED
  BY <1>1, <1>3, <1>5

LEMMA Nested ==
    ASSUME NEW x \in Nat, NEW a \in Nat \ {0}, NEW b \in Nat \ {0}
    PROVE  (x \div a) \div b = x \div (a * b)
<1>1. PICK q \in Nat, r \in 0 .. a - 1 : q = x \div a /\ x = a * q + r
  BY Divides
<1>2. PICK s \in Nat, t \in 0 .. b - 1 : s = q \div b /\ q = b * s + t
  BY Divides
<1>3. x = (a * b) * s + (a * t + r)
  BY <1>1, <1>2, SMTT(30)
<1>4. a * t + r \in Nat /\ a * t + r < a * b
  <2>1. t + 1 =< b /\ t + 1 \in Nat
    BY <1>2
  <2>2. a * (t + 1) =< a * b
    BY <2>1, Grows
  <2>3. a * (t + 1) = a * t + a /\ a * t \in Nat /\ a * b \in Nat
    OBVIOUS
  <2> QED
    BY <2>2, <2>3
<1>5. a * b \in Nat \ {0}
  BY <1>4
<1>6. a * t + r \in 0 .. (a * b) - 1
  BY <1>4, <1>5
<1>7. x \div (a * b) = s
  <2>1. Parts(a * b, s, a * t + r, x)
    BY <1>3 DEF Parts
  <2> QED
    BY <1>5, <1>6, <2>1, Quotient
<1> QED
  BY <1>1, <1>2, <1>7

-----------------------------------------------------------------------------
(* The indices of a page *)

LEMMA Positive ==
    /\ N \in Nat \ {0} /\ N * N \in Nat \ {0} /\ N * N * N \in Nat \ {0}
    /\ PageUnits \in Nat \ {0} /\ LastFrame \in Nat
<1>1. N \in Nat \ {0} /\ PageUnits \in Nat \ {0} /\ LastFrame \in Nat
  BY BootAssumption
<1>2. \A x, y \in Nat \ {0} : x * y \in Nat \ {0}
  OBVIOUS
<1> QED
  BY <1>1, <1>2

LEMMA InTable == ASSUME NEW n \in Nat PROVE \A l \in 1 .. 4 : IndexOf(n)[l] \in Idx
<1>1. \A x \in Nat : x % N \in Idx
  BY Positive DEF Idx
<1>2. n \div (N * N * N) \in Nat /\ n \div (N * N) \in Nat /\ n \div N \in Nat
  BY Positive, Divides
<1> QED
  BY <1>1, <1>2 DEF IndexOf

(* The top index of a page in the first k entries' part.                   *)
LEMMA LowIndex ==
    ASSUME NEW k \in Nat, k =< N, NEW n \in 0 .. k * N * N * N - 1
    PROVE  n \in Nat /\ n \div (N * N * N) \in 0 .. k - 1 /\ IndexOf(n)[1] = n \div (N * N * N)
<1>1. PICK c \in Nat \ {0} : c = N * N * N
  BY Positive
<1>2. k * N * N * N = c * k
  <2>1. N \in Nat /\ N * N \in Nat
    BY Positive
  <2>2. \A x, y \in Nat : x * y * y * y = (y * y * y) * x
    OBVIOUS
  <2> QED
    BY <1>1, <2>1, <2>2
<1>3. n \in Nat /\ n < c * k
  BY <1>1, <1>2
<1>4. PICK q \in Nat, r \in 0 .. c - 1 : q = n \div c /\ n = c * q + r
  BY <1>3, Divides, ZenonT(60)
<1>5. q < k
  <2> SUFFICES ASSUME k =< q PROVE FALSE
    BY <1>4
  <2>1. c * k =< c * q /\ c * k \in Nat /\ c * q \in Nat
    BY <1>1, <1>4, Grows
  <2> QED
    BY <1>3, <1>4, <2>1
<1>6. q % N = q
  BY <1>5, Positive
<1> QED
  BY <1>1, <1>3, <1>4, <1>5, <1>6 DEF IndexOf

(* A page in the mirror has the top index s later, and the others.         *)
LEMMA MirrorIndex ==
    ASSUME NEW n \in Nat, NEW s \in Nat, (n \div (N * N * N)) + s < N
    PROVE  IndexOf(n + s * N * N * N) =
             <<(n \div (N * N * N)) + s, IndexOf(n)[2], IndexOf(n)[3], IndexOf(n)[4]>>
<1>1. PICK c \in Nat \ {0} : c = N * N * N
  BY Positive
<1>2. PICK e \in Nat \ {0} : e = N * N
  BY Positive
<1>3. PICK x \in Nat : x = n + s * N * N * N
  BY Positive
<1>4. PICK u \in Nat, w \in Nat : u = s * N /\ w = s * e /\ w = u * N
  <2>1. N \in Nat
    BY Positive
  <2>2. \A y, z \in Nat : z * y \in Nat /\ z * (y * y) = (z * y) * y
    OBVIOUS
  <2> QED
    BY <1>2, <2>1, <2>2
<1>5. Moved(n, s, c, x) /\ Moved(n, u, e, x) /\ Moved(n, w, N, x)
  <2>1. N \in Nat
    BY Positive
  <2>2. \A z, y \in Nat : /\ z * y * y * y = z * (y * y * y)
                          /\ z * y * y * y = (z * y) * (y * y)
                          /\ z * y * y * y = (z * (y * y)) * y
    OBVIOUS
  <2> QED
    BY <1>1, <1>2, <1>3, <1>4, <2>1, <2>2 DEF Moved
<1>6. x \div c = n \div c + s
  BY ONLY <1>1, <1>3, <1>5, Shifted, n \in Nat, s \in Nat
<1>7. x \div e = n \div e + u /\ n \div e \in Nat
  <2>1. n \div e \in Nat /\ e \in Nat \ {0}
    BY <1>2, Divides
  <2>2. Moved(n, u, e, x)
    BY <1>5
  <2>3. u \in Nat
    BY <1>4
  <2> QED
    BY ONLY <2>1, <2>2, <2>3, Shifted, n \in Nat
<1>8. x \div N = n \div N + w /\ x % N = n % N /\ n \div N \in Nat
  <2>1. n \div N \in Nat /\ N \in Nat \ {0}
    BY Divides, Positive
  <2> QED
    BY ONLY <1>3, <1>4, <1>5, <2>1, Shifted, n \in Nat
<1>9. (x \div e) % N = (n \div e) % N
  <2>1. Moved(n \div e, s, N, n \div e + u)
    BY <1>4, <1>7 DEF Moved
  <2> QED
    BY ONLY <1>7, <2>1, Shifted, Positive, s \in Nat
<1>10. (x \div N) % N = (n \div N) % N
  <2>1. Moved(n \div N, u, N, n \div N + w)
    BY <1>4, <1>8 DEF Moved
  <2> QED
    BY ONLY <1>4, <1>8, <2>1, Shifted, Positive
<1>11. (x \div c) % N = n \div c + s
  <2>1. n \div c \in Nat
    BY <1>1, Divides
  <2> QED
    BY <1>1, <1>6, <2>1, Positive
<1> QED
  BY <1>1, <1>2, <1>3, <1>8, <1>9, <1>10, <1>11 DEF IndexOf

\* The pages of the last top-level entry.
KernelPages == {n \in Nat : n >= (N - 1) * (N * N * N) /\ n < N * (N * N * N)}

LEMMA KernelIndex ==
    ASSUME NEW n \in KernelPages
    PROVE  n \in Nat /\ n \div (N * N * N) = N - 1 /\ IndexOf(n)[1] = N - 1
<1>1. PICK c \in Nat \ {0} : c = N * N * N
  BY Positive
<1>2. n \in Nat /\ n >= (N - 1) * c /\ n < N * c
  BY <1>1 DEF KernelPages
<1>3. (N - 1) * c = c * (N - 1) /\ N * c = c * (N - 1) + c /\ N - 1 \in Nat /\ c * (N - 1) \in Nat
  BY <1>1, Positive
<1>4. n - c * (N - 1) \in 0 .. c - 1
  BY <1>2, <1>3, <1>1
<1>5. Parts(c, N - 1, n - c * (N - 1), n)
  BY <1>2, <1>3 DEF Parts
<1>6. n \div c = N - 1
  BY <1>1, <1>3, <1>4, <1>5, Quotient
<1>7. (N - 1) % N = N - 1
  BY <1>3, Positive
<1> QED
  BY <1>1, <1>2, <1>6, <1>7 DEF IndexOf

(* Two pages of the kernel's part that have the same indices are one.      *)
LEMMA KernelUnique ==
    ASSUME NEW n \in KernelPages, NEW k \in KernelPages,
           IndexOf(n)[2] = IndexOf(k)[2], IndexOf(n)[3] = IndexOf(k)[3], IndexOf(n)[4] = IndexOf(k)[4]
    PROVE  n = k
<1>1. /\ n \in Nat /\ k \in Nat
      /\ n \div (N * N * N) = N - 1 /\ k \div (N * N * N) = N - 1
  BY KernelIndex
<1>2. \A x \in Nat : /\ (x \div N) \div N = x \div (N * N)
                     /\ (x \div (N * N)) \div N = x \div (N * N * N)
                     /\ x \div N \in Nat /\ x \div (N * N) \in Nat
  BY Positive, Nested, Divides, ZenonT(60)
<1>3. \A x \in Nat : x = N * (x \div N) + (x % N)
  BY Positive, Divides
<1>4. /\ (n \div (N * N)) % N = (k \div (N * N)) % N
      /\ (n \div N) % N = (k \div N) % N
      /\ n % N = k % N
  BY DEF IndexOf
<1>5. n \div (N * N) = k \div (N * N)
  <2>1. n \div (N * N) = N * (N - 1) + ((n \div (N * N)) % N)
    BY <1>1, <1>2, <1>3
  <2>2. k \div (N * N) = N * (N - 1) + ((k \div (N * N)) % N)
    BY <1>1, <1>2, <1>3
  <2> QED
    BY <1>4, <2>1, <2>2
<1>6. n \div N = k \div N
  <2>1. n \div N = N * (n \div (N * N)) + ((n \div N) % N)
    BY <1>1, <1>2, <1>3
  <2>2. k \div N = N * (k \div (N * N)) + ((k \div N) % N)
    BY <1>1, <1>2, <1>3
  <2> QED
    BY <1>4, <1>5, <2>1, <2>2
<1>7. n = N * (n \div N) + (n % N) /\ k = N * (k \div N) + (k % N)
  BY <1>1, <1>3
<1> QED
  BY <1>4, <1>6, <1>7
-----------------------------------------------------------------------------
(* The descriptors *)

\* The tables of the upper three levels.
Upper(m, r) == {r} \cup Pdps(m, r) \cup Pds(m, r)

Src(fw)    == Source(fw.mmap, fw.cr3)
Place(fw)  == Min(Places(fw.mmap, Src(fw).pages))
Dst(fw)    == fw.mmap[Place(fw)].start
Limit(fw)  == Dst(fw) + Src(fw).pages
Ready(fw)  == Above(fw.mmap, fw.cr3) # {} /\ Places(fw.mmap, Src(fw).pages) # {}

LEMMA Machine ==
    ASSUME NEW fw \in Firmwares
    PROVE  /\ fw.mem \in [Frames -> [Idx -> Entry]]
           /\ fw.image \in Nat
           /\ fw.mmap \in Seq(Descriptors) /\ Len(fw.mmap) \in Nat
           /\ \A i \in 1 .. Len(fw.mmap) : fw.mmap[i] \in Descriptors
           /\ \A i, j \in 1 .. Len(fw.mmap) :
                 i < j => fw.mmap[i].start + fw.mmap[i].pages =< fw.mmap[j].start
           /\ \A i \in 1 .. Len(fw.mmap) : Region(fw.mmap[i]) \subseteq Frames
           /\ \E i \in 1 .. Len(fw.mmap) :
                 Upper(fw.mem, fw.cr3) \subseteq Region(fw.mmap[i]) /\ fw.mmap[i].type = "boot"
           /\ fw.cr3 \in Frames /\ fw.cr3 \in Nat
           /\ Upper(fw.mem, fw.cr3) \subseteq Frames
<1>1. FirmwareOK(fw)
  BY BootAssumption
<1>2. \E i \in 1 .. Len(fw.mmap) :
        Upper(fw.mem, fw.cr3) \subseteq Region(fw.mmap[i]) /\ fw.mmap[i].type = "boot"
  BY <1>1, SMTT(30) DEF FirmwareOK, Upper
<1>3. \A i \in 1 .. Len(fw.mmap) : Region(fw.mmap[i]) \subseteq Frames
  BY <1>1, SMTT(30) DEF FirmwareOK
<1>4. fw.cr3 \in Frames /\ fw.cr3 \in Nat /\ Upper(fw.mem, fw.cr3) \subseteq Frames
  BY <1>2, <1>3 DEF Upper, Frames
<1>5. fw.mmap \in Seq(Descriptors)
  BY <1>1 DEF FirmwareOK
<1>6. Len(fw.mmap) \in Nat /\ \A i \in 1 .. Len(fw.mmap) : fw.mmap[i] \in Descriptors
  BY <1>5
<1> QED
  BY <1>1, <1>2, <1>3, <1>4, <1>5, <1>6 DEF FirmwareOK

(* The first descriptor above the tables is the one after theirs.          *)
LEMMA SourceIs ==
    ASSUME NEW fw \in Firmwares, Above(fw.mmap, fw.cr3) # {}
    PROVE  \E i \in 1 .. Len(fw.mmap) :
               /\ Src(fw) = fw.mmap[i] /\ fw.mmap[i].type = "boot"
               /\ Upper(fw.mem, fw.cr3) \subseteq Region(fw.mmap[i])
<1> DEFINE map == fw.mmap  A == Above(fw.mmap, fw.cr3)
<1>1. PICK i \in 1 .. Len(map) : map[i].type = "boot" /\ Upper(fw.mem, fw.cr3) \subseteq Region(map[i])
  BY Machine
<1>2. Len(map) \in Nat /\ fw.cr3 \in Nat
  BY Machine
<1>3. \A j \in 1 .. Len(map) : map[j].start \in Nat /\ map[j].pages \in Nat
  <2>1. \A k \in 1 .. Len(map) : map[k] \in Descriptors
    BY Machine
  <2>2. \A e \in Descriptors : e.start \in Nat /\ e.pages \in Nat /\ e.start \in Frames
    BY DEF Descriptors, Frames
  <2> QED
    BY <2>1, <2>2
<1>4. fw.cr3 \in map[i].start .. map[i].start + map[i].pages - 1
  BY <1>1 DEF Upper, Region
<1>5. \A j \in 1 .. Len(map) : i < j => map[j].start > fw.cr3
  <2>1. \A j \in 1 .. Len(map) : i < j => map[i].start + map[i].pages =< map[j].start
    BY Machine
  <2>2. fw.cr3 < map[i].start + map[i].pages
    BY <1>2, <1>3, <1>4
  <2> QED
    BY <1>2, <1>3, <2>1, <2>2, SMTT(30)
<1>6. \A j \in 1 .. Len(map) : j =< i => ~(map[j].start > fw.cr3)
  <2> SUFFICES ASSUME NEW j \in 1 .. Len(map), j =< i PROVE ~(map[j].start > fw.cr3)
    OBVIOUS
  <2>1. CASE j = i
    BY <1>2, <1>3, <1>4, <2>1
  <2>2. CASE j < i
    <3>1. map[j].start + map[j].pages =< map[i].start
      BY <2>2, Machine
    <3> QED
      BY <1>2, <1>3, <1>4, <3>1
  <2> QED
    BY <1>2, <2>1, <2>2
<1>7. A = {j \in 1 .. Len(map) : i < j}
  BY <1>2, <1>5, <1>6 DEF Above
<1>8. A \in SUBSET Nat /\ A # {}
  BY <1>7
<1>9. Min(A) \in A /\ \A y \in A : Min(A) =< y
  BY <1>8, LeastIsMin
<1>10. i + 1 \in A
  BY <1>1, <1>2, <1>7, <1>8
<1> PICK k \in Nat : k = Min(A)
  BY <1>8, <1>9
<1> PICK e \in Nat : e = i + 1
  OBVIOUS
<1>11. k = i + 1
  <2>1. k \in A /\ k =< e
    BY <1>9, <1>10
  <2>2. i < k
    BY <1>7, <2>1
  <2> QED
    BY <2>1, <2>2
<1>12. Min(A) - 1 = i
  BY <1>1, <1>11
<1> QED
  BY <1>1, <1>12 DEF Src, Source

\* Pages s .. s + n - 1, those of the tables, and d .. d + n - 1, of their copy.
Apart(s, n, d) ==
    /\ s \in Nat /\ n \in Nat \ {0} /\ d \in Nat
    /\ s .. s + n - 1 \subseteq Frames /\ d .. d + n - 1 \subseteq Frames
    /\ s + n =< d \/ d + n =< s

(* The copy goes to a free descriptor that is large enough, hence to       *)
(* another one than that of the tables.                                    *)
LEMMA PlaceIs ==
    ASSUME NEW fw \in Firmwares, Ready(fw)
    PROVE  /\ Upper(fw.mem, fw.cr3) \subseteq Src(fw).start .. Src(fw).start + Src(fw).pages - 1
           /\ Apart(Src(fw).start, Src(fw).pages, Dst(fw))
           /\ Place(fw) \in 1 .. Len(fw.mmap) /\ fw.mmap[Place(fw)].type = "free"
           /\ Dst(fw) .. Limit(fw) - 1 \subseteq Region(fw.mmap[Place(fw)])
           /\ Dst(fw) \in Frames
<1> DEFINE map == fw.mmap  P == Places(fw.mmap, Src(fw).pages)
<1>1. PICK i \in 1 .. Len(map) : /\ Src(fw) = map[i] /\ map[i].type = "boot"
                                 /\ Upper(fw.mem, fw.cr3) \subseteq Region(map[i])
  BY SourceIs DEF Ready
<1>2. P \in SUBSET Nat /\ P # {}
  BY DEF Ready, Places
<1>3. Place(fw) \in P
  BY <1>2, LeastIsMin DEF Place
<1> PICK j : j = Place(fw)
  OBVIOUS
<1>4. j \in 1 .. Len(map) /\ map[j].pages >= map[i].pages /\ map[j].type = "free"
  BY <1>1, <1>3 DEF Places
<1>5. \A k \in 1 .. Len(map) : map[k].start \in Nat /\ map[k].pages \in Nat /\ map[k].start \in Frames
  <2>1. \A k \in 1 .. Len(map) : map[k] \in Descriptors
    BY Machine
  <2>2. \A e \in Descriptors : e.start \in Nat /\ e.pages \in Nat /\ e.start \in Frames
    BY DEF Descriptors, Frames
  <2> QED
    BY <2>1, <2>2
<1>6. PICK s \in Nat, n \in Nat, d \in Nat, room \in Nat :
        s = map[i].start /\ n = map[i].pages /\ d = map[j].start /\ room = map[j].pages
  BY <1>4, <1>5
<1>7. n # 0
  <2>1. fw.cr3 \in s .. s + n - 1
    BY <1>1, <1>6 DEF Upper, Region
  <2> QED
    BY <2>1
<1>8. n =< room
  BY <1>4, <1>6
<1>9. Region(map[i]) = s .. s + n - 1 /\ Region(map[j]) = d .. d + room - 1
  BY <1>6 DEF Region
<1>10. \A f \in d .. d + n - 1 : f \in d .. d + room - 1
  BY <1>8
<1>11. s + n =< d \/ d + n =< s
  <2>1. i # j
    BY <1>1, <1>4
  <2>2. Len(map) \in Nat
    BY Machine
  <2>3. i < j \/ j < i
    BY <1>4, <2>1, <2>2
  <2>4. i < j => s + n =< d
    BY <1>4, <1>6, Machine
  <2>5. j < i => d + room =< s
    BY <1>4, <1>6, Machine
  <2> QED
    BY <1>8, <2>3, <2>4, <2>5
<1>12. Apart(s, n, d) /\ d .. d + n - 1 \subseteq Region(map[j])
  <2>1. Region(map[i]) \subseteq Frames /\ Region(map[j]) \subseteq Frames
    BY <1>4, Machine
  <2> QED
    BY <1>7, <1>9, <1>10, <1>11, <2>1 DEF Apart
<1>13. Src(fw).start = s /\ Src(fw).pages = n /\ Dst(fw) = d /\ Limit(fw) = d + n
  BY <1>1, <1>6 DEF Dst, Limit
<1>14. Upper(fw.mem, fw.cr3) \subseteq s .. s + n - 1
  BY <1>1, <1>9
<1> QED
  BY <1>4, <1>5, <1>6, <1>12, <1>13, <1>14

-----------------------------------------------------------------------------
(* The copy *)

Memories == [Frames -> [Idx -> Entry]]

\* Entry e is g with its address moved by k.
Alike(e, g, k) == e.p = g.p /\ e.big = g.big /\ e.addr = g.addr + k

\* The levels of the tables are disjoint.
Levels(m, r) ==
    /\ r \notin Pdps(m, r) /\ r \notin Pds(m, r)
    /\ \A t \in Pdps(m, r) : t \notin Pds(m, r)

\* Nothing but pages d .. e - 1 differs.
Outside(x, m, d, e) == \A f \in Frames : f \notin d .. e - 1 => x[f] = m[f]

\* The second and third level, moved by k.
LowerMoved(x, m, r, k) ==
    /\ \A t \in Pdps(m, r), i \in Idx :
         Alike(x[t + k][i], m[t][i], IF m[t][i].p /\ ~m[t][i].big THEN k ELSE 0)
    /\ \A t \in Pds(m, r), i \in Idx : Alike(x[t + k][i], m[t][i], 0)

\* The top level, moved by k.
TopMoved(x, m, r, k) ==
    \A i \in Idx : /\ x[r + k][i].p = m[r][i].p
                   /\ m[r][i].p => x[r + k][i].addr = m[r][i].addr + k

(* A tree has no table on two levels.                                      *)
LEMMA TreeLevels == ASSUME NEW fw \in Firmwares PROVE Levels(fw.mem, fw.cr3)
<1> DEFINE m == fw.mem  r == fw.cr3
<1>1. /\ \A l \in Links(m, r) : EntryAt(m, l).addr # r
      /\ \A k, l \in Links(m, r) : EntryAt(m, k).addr = EntryAt(m, l).addr => k = l
  BY BootAssumption DEF FirmwareOK
<1>2. ASSUME NEW t \in Pdps(m, r)
      PROVE  \E i \in Idx : <<r, i>> \in Links(m, r) /\ m[r][i].addr = t
  <2>1. PICK i \in Idx : m[r][i].p /\ m[r][i].addr = t
    BY DEF Pdps, Present
  <2> QED
    BY <2>1 DEF Links, Present
<1>3. ASSUME NEW t \in Pds(m, r)
      PROVE  \E u \in Pdps(m, r), i \in Idx : <<u, i>> \in Links(m, r) /\ m[u][i].addr = t
  <2>1. PICK u \in Pdps(m, r) : t \in Below(m, u)
    BY DEF Pds
  <2>2. PICK i \in Idx : m[u][i].p /\ ~m[u][i].big /\ m[u][i].addr = t
    BY <2>1 DEF Below, Present
  <2>3. <<u, i>> \in Links(m, r)
    BY <2>2 DEF Links, EntryAt
  <2> QED
    BY <2>2, <2>3
<1>4. \A u, i : EntryAt(m, <<u, i>>) = m[u][i]
  BY DEF EntryAt
<1> HIDE DEF m, r
<1>5. r \notin Pdps(m, r)
  <2> SUFFICES ASSUME r \in Pdps(m, r) PROVE FALSE
    OBVIOUS
  <2>1. PICK i \in Idx : <<r, i>> \in Links(m, r) /\ m[r][i].addr = r
    BY <1>2
  <2>2. EntryAt(m, <<r, i>>).addr = r
    BY <1>4, <2>1
  <2> QED
    BY <1>1, <2>1, <2>2
<1>6. r \notin Pds(m, r)
  <2> SUFFICES ASSUME r \in Pds(m, r) PROVE FALSE
    OBVIOUS
  <2>1. PICK u \in Pdps(m, r), i \in Idx : <<u, i>> \in Links(m, r) /\ m[u][i].addr = r
    BY <1>3
  <2>2. EntryAt(m, <<u, i>>).addr = r
    BY <1>4, <2>1
  <2> QED
    BY <1>1, <2>1, <2>2
<1>7. ASSUME NEW t \in Pdps(m, r), t \in Pds(m, r) PROVE FALSE
  <2>1. PICK i \in Idx : <<r, i>> \in Links(m, r) /\ m[r][i].addr = t
    BY <1>2
  <2>2. PICK u \in Pdps(m, r), j \in Idx : <<u, j>> \in Links(m, r) /\ m[u][j].addr = t
    BY <1>3, <1>7
  <2>3. <<r, i>> = <<u, j>>
    BY <1>1, <1>4, <2>1, <2>2
  <2>4. r = u
    BY <2>3
  <2> QED
    BY <1>5, <2>4
<1> QED
  BY <1>5, <1>6, <1>7, SMTT(30) DEF Levels, m, r

LEMMA CopyHas ==
    ASSUME NEW m \in Memories, NEW src, NEW d, Apart(src.start, src.pages, d),
           NEW k, k = d - src.start
    PROVE  /\ Copied(m, src, d) \in Memories
           /\ Outside(Copied(m, src, d), m, d, d + src.pages)
           /\ \A t \in src.start .. src.start + src.pages - 1 :
                /\ t + k \in d .. d + src.pages - 1 /\ t + k \in Frames
                /\ Copied(m, src, d)[t + k] = m[t]
<1>1. PICK s \in Nat, n \in Nat : s = src.start /\ n = src.pages
  BY DEF Apart
<1>2. /\ d \in Nat /\ k = d - s /\ Apart(s, n, d)
      /\ \A f \in s .. s + n - 1 : f \in Frames
      /\ \A f \in d .. d + n - 1 : f \in Frames
  BY <1>1 DEF Apart
<1>3. \A f \in Frames : f \in Nat
  BY DEF Frames
<1>4. Copied(m, src, d) = [f \in Frames |-> IF f \in d .. d + n - 1 THEN m[f - d + s] ELSE m[f]]
  BY <1>1 DEF Copied
<1>5. \A f \in d .. d + n - 1 : f - d + s \in s .. s + n - 1
  BY <1>2
<1>6. Copied(m, src, d) \in Memories
  <2> SUFFICES ASSUME NEW f \in Frames
               PROVE  (IF f \in d .. d + n - 1 THEN m[f - d + s] ELSE m[f]) \in [Idx -> Entry]
    BY <1>4 DEF Memories
  <2>1. CASE f \in d .. d + n - 1
    <3>1. f - d + s \in Frames
      BY <1>2, <1>5, <2>1
    <3> QED
      BY <2>1, <3>1 DEF Memories
  <2>2. CASE f \notin d .. d + n - 1
    BY <2>2 DEF Memories
  <2> QED
    BY <2>1, <2>2
<1>7. Outside(Copied(m, src, d), m, d, d + n)
  <2>1. \A f \in Frames : f \notin d .. d + n - 1 => Copied(m, src, d)[f] = m[f]
    BY <1>4
  <2> QED
    BY <1>2, <2>1 DEF Outside
<1>8. ASSUME NEW t \in s .. s + n - 1
      PROVE  /\ t + k \in d .. d + n - 1 /\ t + k \in Frames
             /\ Copied(m, src, d)[t + k] = m[t]
  <2>1. t + k \in d .. d + n - 1
    BY <1>2
  <2>2. (t + k) - d + s = t
    BY <1>2
  <2> QED
    BY <1>2, <1>4, <2>1, <2>2
<1> QED
  BY <1>1, <1>6, <1>7, <1>8

(* The address of an entry is moved, nothing else of it is.                *)
LEMMA EntryMoved ==
    ASSUME NEW e \in Entry, NEW k \in Int, e.addr + k \in Nat
    PROVE  [e EXCEPT !.addr = @ + k] \in Entry /\ Alike([e EXCEPT !.addr = @ + k], e, k)
BY DEF Entry, Alike

LEMMA EntrySame == ASSUME NEW e \in Entry PROVE Alike(e, e, 0)
BY DEF Entry, Alike

\* What the copying of Apart tables gives, for a top-level table r.
Copies(m, r, src, d, k) ==
    /\ Apart(src.start, src.pages, d) /\ k = d - src.start
    /\ \A t \in Upper(m, r) : t \in src.start .. src.start + src.pages - 1
    /\ Levels(m, r)

LEMMA TablesCopied ==
    ASSUME NEW m \in Memories, NEW r, NEW src, NEW d, NEW k, Copies(m, r, src, d, k)
    PROVE  /\ k \in Int
           /\ \A t \in Upper(m, r) :
                /\ t \in Nat /\ t \in Frames /\ t + k \in d .. d + src.pages - 1
                /\ t + k \in Nat /\ t + k \in Frames
                /\ Copied(m, src, d)[t + k] = m[t]
           /\ Pdps(Copied(m, src, d), r + k) = Pdps(m, r)
<1>1. /\ src.start \in Nat /\ src.pages \in Nat /\ d \in Nat /\ k = d - src.start
      /\ \A f \in src.start .. src.start + src.pages - 1 : f \in Frames
      /\ \A t \in Upper(m, r) : t \in src.start .. src.start + src.pages - 1
  BY DEF Copies, Apart
<1>2. ASSUME NEW t \in Upper(m, r)
      PROVE  /\ t \in Nat /\ t \in Frames /\ t + k \in d .. d + src.pages - 1
             /\ t + k \in Nat /\ t + k \in Frames
             /\ Copied(m, src, d)[t + k] = m[t]
  <2>1. t + k \in d .. d + src.pages - 1 /\ t + k \in Frames /\ Copied(m, src, d)[t + k] = m[t]
    BY <1>1, CopyHas DEF Copies
  <2> QED
    BY <1>1, <2>1 DEF Frames
<1>3. Copied(m, src, d)[r + k] = m[r]
  BY <1>2 DEF Upper
<1>4. Pdps(Copied(m, src, d), r + k) = Pdps(m, r)
  BY <1>3 DEF Pdps
<1>5. k \in Int
  BY <1>1
<1> QED
  BY <1>2, <1>4, <1>5

LEMMA RelocatedHas ==
    ASSUME NEW m \in Memories, NEW r, NEW src, NEW d, NEW k, Copies(m, r, src, d, k),
           NEW x, x = Relocated(Copied(m, src, d), r + k, k)
    PROVE  /\ x \in Memories
           /\ Outside(x, m, d, d + src.pages)
           /\ TopMoved(x, m, r, k)
           /\ LowerMoved(x, m, r, k)
<1> DEFINE c == Copied(m, src, d)
           P == {f + k : f \in Pdps(m, r)}
           Goes(f, i) == c[f][i].p /\ (f = r + k \/ (f \in P /\ ~c[f][i].big))
<1>1. c \in Memories /\ Outside(c, m, d, d + src.pages)
  BY CopyHas DEF Copies
<1>2. /\ k \in Int /\ r \in Upper(m, r)
      /\ \A t \in Pdps(m, r) : t \in Upper(m, r)
      /\ \A t \in Pds(m, r) : t \in Upper(m, r)
  BY TablesCopied DEF Upper
<1>3. \A t \in Upper(m, r) : /\ t \in Nat /\ t \in Frames /\ t + k \in d .. d + src.pages - 1
                            /\ t + k \in Nat /\ t + k \in Frames /\ c[t + k] = m[t]
  BY TablesCopied
<1>4. /\ r \notin Pdps(m, r) /\ r \notin Pds(m, r)
      /\ \A t \in Pdps(m, r) : t \notin Pds(m, r)
  BY DEF Copies, Levels
<1>5. x = [f \in Frames |-> [i \in Idx |->
             IF Goes(f, i) THEN [c[f][i] EXCEPT !.addr = @ + k] ELSE c[f][i]]]
  BY TablesCopied DEF Relocated
<1>6. \A f \in Frames, i \in Idx : c[f][i] \in Entry
  BY <1>1 DEF Memories
<1>7. \A i \in Idx : m[r][i].p => m[r][i].addr \in Pdps(m, r)
  BY DEF Pdps, Present
<1>8. \A t \in Pdps(m, r), i \in Idx : m[t][i].p /\ ~m[t][i].big => m[t][i].addr \in Pds(m, r)
  BY DEF Pds, Below, Present
<1>9. ASSUME NEW f \in Frames, NEW i \in Idx, Goes(f, i)
      PROVE  c[f][i].addr + k \in Nat
  <2>1. CASE f = r + k
    BY <1>2, <1>3, <1>7, <1>9, <2>1
  <2>2. CASE f # r + k
    <3>1. PICK t \in Pdps(m, r) : f = t + k
      BY <1>9, <2>2
    <3>2. c[f] = m[t] /\ m[t][i].p /\ ~m[t][i].big
      BY <1>2, <1>3, <1>9, <2>2, <3>1
    <3> QED
      BY <1>2, <1>3, <1>8, <3>2
  <2> QED
    BY <2>1, <2>2
<1> HIDE DEF c
<1>10. \A f \in Frames, i \in Idx :
         x[f][i] \in Entry /\ Alike(x[f][i], c[f][i], IF Goes(f, i) THEN k ELSE 0)
  <2> SUFFICES ASSUME NEW f \in Frames, NEW i \in Idx
               PROVE  x[f][i] \in Entry /\ Alike(x[f][i], c[f][i], IF Goes(f, i) THEN k ELSE 0)
    OBVIOUS
  <2>1. x[f][i] = IF Goes(f, i) THEN [c[f][i] EXCEPT !.addr = @ + k] ELSE c[f][i]
    BY <1>5
  <2>2. CASE Goes(f, i)
    BY <1>2, <1>6, <1>9, <2>1, <2>2, EntryMoved
  <2>3. CASE ~Goes(f, i)
    BY <1>6, <2>1, <2>3, EntrySame
  <2> QED
    BY <2>2, <2>3
<1>11. x \in Memories
  <2>1. \A f \in Frames : x[f] \in [Idx -> Entry]
    <3> SUFFICES ASSUME NEW f \in Frames PROVE x[f] \in [Idx -> Entry]
      OBVIOUS
    <3>1. x[f] = [i \in Idx |-> IF Goes(f, i) THEN [c[f][i] EXCEPT !.addr = @ + k] ELSE c[f][i]]
      BY <1>5
    <3>2. \A i \in Idx : x[f][i] \in Entry
      BY <1>10
    <3> HIDE DEF Goes
    <3> QED
      BY <3>1, <3>2
  <2>2. x = [f \in Frames |-> x[f]]
    BY <1>5
  <2> QED
    BY <2>1, <2>2 DEF Memories
<1>12. Outside(x, m, d, d + src.pages)
  <2> SUFFICES ASSUME NEW f \in Frames, f \notin d .. (d + src.pages) - 1 PROVE x[f] = m[f]
    BY DEF Outside
  <2>1. c[f] = m[f]
    BY <1>1 DEF Outside
  <2>2. f # r + k /\ f \notin P
    <3>1. d \in Nat /\ src.pages \in Nat
      BY DEF Copies, Apart
    <3> QED
      BY <1>2, <1>3, <3>1
  <2>3. \A i \in Idx : ~Goes(f, i)
    BY <2>2
  <2>4. x[f] = [i \in Idx |-> c[f][i]]
    BY <1>5, <2>3
  <2>5. c[f] = [i \in Idx |-> c[f][i]]
    BY <1>1 DEF Memories
  <2> QED
    BY <2>1, <2>4, <2>5
<1>13. TopMoved(x, m, r, k)
  <2> SUFFICES ASSUME NEW i \in Idx
               PROVE  /\ x[r + k][i].p = m[r][i].p
                      /\ m[r][i].p => x[r + k][i].addr = m[r][i].addr + k
    BY DEF TopMoved
  <2>1. r + k \in Frames /\ c[r + k] = m[r]
    BY <1>2, <1>3
  <2>2. Goes(r + k, i) <=> m[r][i].p
    BY <2>1
  <2> HIDE DEF Goes
  <2>3. Alike(x[r + k][i], m[r][i], IF Goes(r + k, i) THEN k ELSE 0)
    BY <1>10, <2>1
  <2> QED
    BY <2>2, <2>3 DEF Alike
<1>14. ASSUME NEW t \in Pdps(m, r), NEW i \in Idx
       PROVE  Alike(x[t + k][i], m[t][i], IF m[t][i].p /\ ~m[t][i].big THEN k ELSE 0)
  <2>1. t + k \in Frames /\ c[t + k] = m[t] /\ t + k \in P
    BY <1>2, <1>3
  <2>2. t # r /\ t \in Nat /\ r \in Nat
    BY <1>2, <1>3, <1>4
  <2>3. t + k # r + k
    BY <1>2, <2>2
  <2>4. Goes(t + k, i) <=> m[t][i].p /\ ~m[t][i].big
    BY <2>1, <2>3
  <2> HIDE DEF Goes
  <2>5. Alike(x[t + k][i], m[t][i], IF Goes(t + k, i) THEN k ELSE 0)
    BY <1>10, <2>1
  <2> QED
    BY <2>4, <2>5
<1>15. ASSUME NEW t \in Pds(m, r), NEW i \in Idx
       PROVE  Alike(x[t + k][i], m[t][i], 0)
  <2>1. t + k \in Frames /\ c[t + k] = m[t]
    BY <1>2, <1>3
  <2>2. t # r /\ t \in Nat /\ r \in Nat /\ t \notin Pdps(m, r)
    BY <1>2, <1>3, <1>4
  <2>3. t + k # r + k
    BY <1>2, <2>2
  <2>4. t + k \notin P
    <3> SUFFICES ASSUME NEW u \in Pdps(m, r), t + k = u + k PROVE FALSE
      OBVIOUS
    <3>1. u \in Nat
      BY <1>2, <1>3
    <3>2. t = u
      BY <1>2, <2>2, <3>1
    <3> QED
      BY <2>2, <3>2
  <2>5. ~Goes(t + k, i)
    BY <2>3, <2>4
  <2> HIDE DEF Goes
  <2>6. Alike(x[t + k][i], m[t][i], IF Goes(t + k, i) THEN k ELSE 0)
    BY <1>10, <2>1
  <2> QED
    BY <2>5, <2>6
<1> QED
  BY <1>11, <1>12, <1>13, <1>14, <1>15 DEF LowerMoved

\* The copy of m: whose tables x has, moved by k.
MovedTo(x, m, r, k) == x \in Memories /\ TopMoved(x, m, r, k) /\ LowerMoved(x, m, r, k)

LEMMA MovedTables ==
    ASSUME NEW m \in Memories, NEW r, NEW src, NEW d, NEW k, Copies(m, r, src, d, k),
           NEW x, MovedTo(x, m, r, k)
    PROVE  /\ \A t \in Upper(m, r) : Present(x[t + k]) = Present(m[t])
           /\ Pdps(x, r + k) = {t + k : t \in Pdps(m, r)}
           /\ Pds(x, r + k) = {t + k : t \in Pds(m, r)}
<1>1. /\ \A i \in Idx : /\ x[r + k][i].p = m[r][i].p
                        /\ m[r][i].p => x[r + k][i].addr = m[r][i].addr + k
      /\ \A t \in Pdps(m, r), i \in Idx :
           Alike(x[t + k][i], m[t][i], IF m[t][i].p /\ ~m[t][i].big THEN k ELSE 0)
      /\ \A t \in Pds(m, r), i \in Idx : Alike(x[t + k][i], m[t][i], 0)
  BY DEF MovedTo, TopMoved, LowerMoved
<1>2. \A t \in Upper(m, r) : Present(x[t + k]) = Present(m[t])
  BY <1>1 DEF Upper, Alike, Present
<1>3. Pdps(x, r + k) = {t + k : t \in Pdps(m, r)}
  <2>1. Present(x[r + k]) = Present(m[r])
    BY <1>2 DEF Upper
  <2>2. \A i \in Present(m[r]) : x[r + k][i].addr = m[r][i].addr + k
    BY <1>1 DEF Present
  <2> QED
    BY <2>1, <2>2 DEF Pdps
<1>4. ASSUME NEW t \in Pdps(m, r) PROVE Below(x, t + k) = {u + k : u \in Below(m, t)}
  <2>1. Present(x[t + k]) = Present(m[t])
    BY <1>2 DEF Upper
  <2>2. \A i \in Present(m[t]) : x[t + k][i].big = m[t][i].big
    BY <1>1 DEF Alike, Present
  <2>3. {j \in Present(x[t + k]) : ~x[t + k][j].big} = {j \in Present(m[t]) : ~m[t][j].big}
    BY <2>1, <2>2
  <2>4. \A i \in {j \in Present(m[t]) : ~m[t][j].big} : x[t + k][i].addr = m[t][i].addr + k
    BY <1>1 DEF Alike, Present
  <2> QED
    BY <2>3, <2>4 DEF Below
<1>5. Pds(x, r + k) = {t + k : t \in Pds(m, r)}
  <2>1. ASSUME NEW f \in Pds(x, r + k) PROVE f \in {t + k : t \in Pds(m, r)}
    <3>1. PICK t \in Pdps(m, r) : f \in Below(x, t + k)
      BY <1>3, <2>1 DEF Pds
    <3>2. PICK u \in Below(m, t) : f = u + k
      BY <1>4, <3>1
    <3>3. u \in Pds(m, r)
      BY <3>1, <3>2 DEF Pds
    <3> QED
      BY <3>2, <3>3
  <2>2. ASSUME NEW u \in Pds(m, r) PROVE u + k \in Pds(x, r + k)
    <3>1. PICK t \in Pdps(m, r) : u \in Below(m, t)
      BY DEF Pds
    <3>2. u + k \in Below(x, t + k) /\ t + k \in Pdps(x, r + k)
      BY <1>3, <1>4, <3>1
    <3> QED
      BY <3>2 DEF Pds
  <2> QED
    BY <2>1, <2>2
<1> QED
  BY <1>2, <1>3, <1>5

(* If no table is empty, the page after highest_addr is after all tables.  *)
LEMMA HighestIs ==
    ASSUME NEW m \in Memories, NEW r, NEW src, NEW d, NEW k, Copies(m, r, src, d, k),
           NEW x, MovedTo(x, m, r, k), \A t \in Upper(m, r) : Present(m[t]) # {}
    PROVE  /\ Highest(x, r + k) \in d .. d + src.pages - 1
           /\ \A t \in Upper(m, r) : t + k =< Highest(x, r + k)
<1> DEFINE T == {f \in {r + k} \cup Pdps(x, r + k) \cup Pds(x, r + k) : Present(x[f]) # {}}
<1>1. \A t \in Upper(m, r) : t + k \in d .. d + src.pages - 1 /\ t + k \in Frames
  BY TablesCopied
<1>2. T = {t + k : t \in Upper(m, r)}
  <2>1. {r + k} \cup Pdps(x, r + k) \cup Pds(x, r + k) = {t + k : t \in Upper(m, r)}
    BY MovedTables DEF Upper
  <2>2. \A t \in Upper(m, r) : Present(x[t + k]) # {}
    BY MovedTables
  <2> QED
    BY <2>1, <2>2
<1>3. T \in SUBSET (0 .. LastFrame) /\ T # {}
  <2>1. r + k \in T
    BY <1>2 DEF Upper
  <2> QED
    BY <1>1, <1>2, <2>1 DEF Frames
<1>4. Max(T) \in T /\ \A y \in T : Max(T) >= y
  BY <1>3, GreatestIsMax, Positive
<1>5. Highest(x, r + k) = Max(T)
  BY DEF Highest
<1> HIDE DEF T
<1>6. PICK h \in Nat : h = Max(T)
  <2>1. Max(T) \in 0 .. LastFrame
    BY <1>3, <1>4
  <2> QED
    BY <2>1
<1>7. \A t \in Upper(m, r) : t + k =< h
  <2> SUFFICES ASSUME NEW t \in Upper(m, r) PROVE t + k =< h
    OBVIOUS
  <2>1. t + k \in T
    BY <1>2
  <2>2. t + k \in Nat
    BY <1>1 DEF Frames
  <2>3. h >= t + k
    BY <1>4, <1>6, <2>1
  <2> QED
    BY <2>2, <2>3
<1>8. h \in d .. d + src.pages - 1
  BY <1>1, <1>2, <1>4, <1>6
<1> QED
  BY <1>5, <1>6, <1>7, <1>8

LEMMA EntryWritable ==
    ASSUME NEW e \in Entry
    PROVE  [e EXCEPT !.w = TRUE] \in Entry /\ Alike([e EXCEPT !.w = TRUE], e, 0)
<1> DEFINE g == [e EXCEPT !.w = TRUE]
<1>1. g \in Entry
  BY DEF Entry
<1>2. g.p = e.p /\ g.big = e.big /\ g.addr = e.addr
  BY DEF Entry
<1>3. e.addr \in Nat
  BY DEF Entry
<1> QED
  BY <1>1, <1>2, <1>3 DEF Alike

Writable(x, a, v, y) == y = [x EXCEPT ![a][v].w = TRUE]

LEMMA WritableIs ==
    ASSUME NEW x \in Memories, NEW a \in Frames, NEW v \in Idx, NEW y, Writable(x, a, v, y)
    PROVE  /\ y \in Memories
           /\ \A f \in Frames : f # a => y[f] = x[f]
           /\ \A f \in Frames, i \in Idx : Alike(y[f][i], x[f][i], 0)
<1>1. x[a] \in [Idx -> Entry] /\ x[a][v] \in Entry
  BY DEF Memories
<1>2. y = [f \in Frames |-> IF f = a THEN [x[a] EXCEPT ![v].w = TRUE] ELSE x[f]]
  BY DEF Memories, Writable
<1>3. [x[a] EXCEPT ![v].w = TRUE] = [i \in Idx |-> IF i = v THEN [x[a][v] EXCEPT !.w = TRUE] ELSE x[a][i]]
  BY <1>1
<1>4. [x[a][v] EXCEPT !.w = TRUE] \in Entry /\ Alike([x[a][v] EXCEPT !.w = TRUE], x[a][v], 0)
  BY <1>1, EntryWritable
<1>5. [x[a] EXCEPT ![v].w = TRUE] \in [Idx -> Entry]
  BY <1>1, <1>3, <1>4
<1>6. \A f \in Frames : f # a => y[f] = x[f]
  BY <1>2
<1>7. y[a] = [x[a] EXCEPT ![v].w = TRUE]
  BY <1>2
<1>8. y \in Memories
  BY <1>2, <1>5 DEF Memories
<1>9. \A f \in Frames, i \in Idx : Alike(y[f][i], x[f][i], 0)
  <2> SUFFICES ASSUME NEW f \in Frames, NEW i \in Idx PROVE Alike(y[f][i], x[f][i], 0)
    OBVIOUS
  <2>1. x[f][i] \in Entry
    BY DEF Memories
  <2>2. CASE f = a /\ i = v
    BY <1>3, <1>4, <1>7, <2>2
  <2>3. CASE f = a /\ i # v
    BY <1>3, <1>7, <2>1, <2>3, EntrySame
  <2>4. CASE f # a
    BY <1>6, <2>1, <2>4, EntrySame
  <2> QED
    BY <2>2, <2>3, <2>4
<1> QED
  BY <1>6, <1>8, <1>9

-----------------------------------------------------------------------------
(* What init_virtual_mapping makes of a machine *)

Delta(fw)     == Dst(fw) - Src(fw).start
Root(fw)      == fw.cr3 + Delta(fw)
Relocation(fw) == Relocated(Copied(fw.mem, Src(fw), Dst(fw)), Root(fw), Delta(fw))
Made(fw)      == Mirrored(MadeWritable(Relocation(fw), Root(fw), fw.cr3), Root(fw))
First(fw)     == Highest(Relocation(fw), Root(fw)) + 1
Count(fw)     == Cardinality(Present(fw.mem[fw.cr3]))
Mirror(fw)    == N - 1 - Count(fw)

\* The top level: the firmware's entries, those again as a mirror, no others.
TopMirrored(z, fw) ==
    /\ \A i \in 0 .. Count(fw) - 1 :
         /\ z[Root(fw)][i].p /\ z[Root(fw)][i].addr = fw.mem[fw.cr3][i].addr + Delta(fw)
         /\ z[Root(fw)][i + Mirror(fw)].p
         /\ z[Root(fw)][i + Mirror(fw)].addr = fw.mem[fw.cr3][i].addr + Delta(fw)
    /\ \A j \in Idx : z[Root(fw)][j].p => j \in 0 .. Count(fw) - 1 \/ j \in Mirror(fw) .. N - 2

LEMMA Counted ==
    ASSUME NEW fw \in Firmwares
    PROVE  /\ Count(fw) \in Nat /\ Count(fw) > 0 /\ 2 * Count(fw) < N
           /\ Present(fw.mem[fw.cr3]) = 0 .. Count(fw) - 1
<1>1. /\ Present(fw.mem[fw.cr3]) = 0 .. Count(fw) - 1
      /\ Count(fw) > 0 /\ 2 * Count(fw) < N
  BY BootAssumption DEF FirmwareOK, Count
<1>2. IsFiniteSet(Idx)
  BY Positive, FS_Interval DEF Idx
<1>3. IsFiniteSet(Present(fw.mem[fw.cr3]))
  BY <1>2, FS_Subset DEF Present
<1> QED
  BY <1>1, <1>3, FS_CardinalityType DEF Count

LEMMA FirmwareCopies ==
    ASSUME NEW fw \in Firmwares, Ready(fw)
    PROVE  Copies(fw.mem, fw.cr3, Src(fw), Dst(fw), Delta(fw)) /\ fw.mem \in Memories
BY PlaceIs, TreeLevels, Machine DEF Copies, Delta, Memories

(* The firmware maps its own tables, not in a page of 1 GiB.               *)
LEMMA Covered ==
    ASSUME NEW fw \in Firmwares
    PROVE  LET v   == IndexOf(fw.cr3)
               pdp == fw.mem[fw.cr3][v[1]].addr
           IN  /\ v[1] \in Idx /\ v[2] \in Idx /\ v[3] \in Idx
               /\ pdp \in Pdps(fw.mem, fw.cr3) /\ fw.mem[pdp][v[2]].addr \in Pds(fw.mem, fw.cr3)
               /\ fw.mem[fw.cr3][v[1]].p /\ fw.mem[pdp][v[2]].p /\ ~fw.mem[pdp][v[2]].big
<1>1. PICK m, r, v : m = fw.mem /\ r = fw.cr3 /\ v = IndexOf(fw.cr3)
  OBVIOUS
<1>2. r \in Nat /\ v[1] \in Idx /\ v[2] \in Idx /\ v[3] \in Idx
  BY <1>1, Machine, InTable
<1>3. Translate(m, r, r) = r /\ ~m[m[r][v[1]].addr][v[2]].big
  BY <1>1, BootAssumption DEF FirmwareOK
<1>4. m[r][v[1]].p /\ m[m[r][v[1]].addr][v[2]].p
  <2> SUFFICES ASSUME ~(m[r][v[1]].p /\ m[m[r][v[1]].addr][v[2]].p) PROVE FALSE
    OBVIOUS
  <2>1. Translate(m, r, r) = -1
    BY <1>1 DEF Translate, Unmapped
  <2> QED
    BY <1>2, <1>3, <2>1
<1>5. PICK pdp : pdp = m[r][v[1]].addr
  OBVIOUS
<1>6. pdp \in Pdps(m, r)
  BY <1>2, <1>4, <1>5 DEF Pdps, Present
<1>7. PICK pd : pd = m[pdp][v[2]].addr
  OBVIOUS
<1>8. pd \in Pds(m, r)
  <2>1. v[2] \in Present(m[pdp]) /\ ~m[pdp][v[2]].big
    BY <1>2, <1>3, <1>4, <1>5 DEF Present
  <2>2. pd \in Below(m, pdp)
    BY <1>7, <2>1 DEF Below
  <2> QED
    BY <1>6, <2>2 DEF Pds
<1> QED
  BY <1>1, <1>2, <1>3, <1>4, <1>5, <1>6, <1>7, <1>8

LEMMA AlikeTwice ==
    ASSUME NEW g, NEW e, NEW h, NEW k \in Int, g.addr \in Int, Alike(h, e, 0), Alike(e, g, k)
    PROVE  Alike(h, g, k)
BY DEF Alike

LEMMA RelocationHas ==
    ASSUME NEW fw \in Firmwares, Ready(fw)
    PROVE  /\ MovedTo(Relocation(fw), fw.mem, fw.cr3, Delta(fw))
           /\ Outside(Relocation(fw), fw.mem, Dst(fw), Limit(fw))
<1>1. Copies(fw.mem, fw.cr3, Src(fw), Dst(fw), Delta(fw)) /\ fw.mem \in Memories
  BY FirmwareCopies
<1> QED
  BY <1>1, RelocatedHas DEF MovedTo, Relocation, Root, Limit

LEMMA FirstIs ==
    ASSUME NEW fw \in Firmwares, Ready(fw)
    PROVE  /\ First(fw) \in Nat /\ Dst(fw) \in Nat /\ Limit(fw) \in Nat
           /\ Dst(fw) < First(fw) /\ First(fw) =< Limit(fw)
           /\ \A t \in Upper(fw.mem, fw.cr3) : t + Delta(fw) < First(fw)
<1>1. Copies(fw.mem, fw.cr3, Src(fw), Dst(fw), Delta(fw)) /\ fw.mem \in Memories
  BY FirmwareCopies
<1>2. \A t \in Upper(fw.mem, fw.cr3) : Present(fw.mem[t]) # {}
  BY BootAssumption DEF FirmwareOK, Upper
<1>3. PICK h : h = Highest(Relocation(fw), Root(fw))
  OBVIOUS
<1>4. /\ h \in Dst(fw) .. Dst(fw) + Src(fw).pages - 1
      /\ \A t \in Upper(fw.mem, fw.cr3) : t + Delta(fw) =< h
  BY <1>1, <1>2, <1>3, RelocationHas, HighestIs DEF Root
<1>5. Dst(fw) \in Nat /\ Src(fw).pages \in Nat
  BY <1>1 DEF Copies, Apart
<1>6. \A t \in Upper(fw.mem, fw.cr3) : t + Delta(fw) \in Nat
  BY <1>1, TablesCopied
<1> QED
  BY <1>3, <1>4, <1>5, <1>6 DEF First, Limit

(* Making the entry for the old tables writable changes no address.        *)
LEMMA WritableHas ==
    ASSUME NEW fw \in Firmwares, Ready(fw), NEW y, y = MadeWritable(Relocation(fw), Root(fw), fw.cr3)
    PROVE  MovedTo(y, fw.mem, fw.cr3, Delta(fw)) /\ Outside(y, fw.mem, Dst(fw), Limit(fw))
<1>1. PICK m, r, k, x, v : /\ m = fw.mem /\ r = fw.cr3 /\ k = Delta(fw) /\ x = Relocation(fw)
                           /\ v = IndexOf(fw.cr3)
  OBVIOUS
<1>2. PICK pdp, pd : pdp = m[r][v[1]].addr /\ pd = m[pdp][v[2]].addr
  OBVIOUS
<1>3. /\ v[1] \in Idx /\ v[2] \in Idx /\ v[3] \in Idx
      /\ pdp \in Pdps(m, r) /\ pd \in Pds(m, r)
      /\ m[r][v[1]].p /\ m[pdp][v[2]].p /\ ~m[pdp][v[2]].big
  BY <1>1, <1>2, Covered
<1>4. Copies(m, r, Src(fw), Dst(fw), k) /\ m \in Memories
  BY <1>1, FirmwareCopies
<1>5. /\ k \in Int
      /\ \A t \in Upper(m, r) : /\ t \in Nat /\ t \in Frames
                               /\ t + k \in Dst(fw) .. Dst(fw) + Src(fw).pages - 1
                               /\ t + k \in Nat /\ t + k \in Frames
  BY <1>4, TablesCopied
<1>6. MovedTo(x, m, r, k) /\ Outside(x, m, Dst(fw), Limit(fw))
  BY <1>1, RelocationHas
<1>7. x[r + k][v[1]].addr = pdp + k
  BY <1>2, <1>3, <1>6 DEF MovedTo, TopMoved
<1>8. x[pdp + k][v[2]].addr = pd + k
  BY <1>2, <1>3, <1>6 DEF MovedTo, LowerMoved, Alike
<1>9. Writable(x, pd + k, v[3], y)
  BY <1>1, <1>7, <1>8 DEF MadeWritable, Root, Writable
<1>10. /\ r \in Upper(m, r) /\ pd \in Upper(m, r)
       /\ \A t \in Pdps(m, r) : t \in Upper(m, r)
       /\ \A t \in Pds(m, r) : t \in Upper(m, r)
  BY <1>3 DEF Upper
<1>11. /\ y \in Memories
       /\ \A f \in Frames : f # pd + k => y[f] = x[f]
       /\ \A f \in Frames, i \in Idx : Alike(y[f][i], x[f][i], 0)
  BY <1>3, <1>5, <1>6, <1>9, <1>10, WritableIs DEF MovedTo
<1>12. Outside(y, m, Dst(fw), Limit(fw))
  <2>1. pd + k \in Dst(fw) .. Limit(fw) - 1
    <3>1. Dst(fw) \in Nat /\ Src(fw).pages \in Nat
      BY <1>4 DEF Copies, Apart
    <3> QED
      BY <1>5, <1>10, <3>1 DEF Limit
  <2> QED
    BY <1>6, <1>11, <2>1 DEF Outside
<1>13. TopMoved(y, m, r, k)
  <2>1. \A i \in Idx : Alike(y[r + k][i], x[r + k][i], 0)
    BY <1>5, <1>10, <1>11
  <2>2. \A i \in Idx : m[r][i] \in Entry
    BY <1>4, <1>5, <1>10 DEF Memories
  <2>3. \A i \in Idx : m[r][i].addr \in Nat
    BY <2>2 DEF Entry
  <2> QED
    BY <1>5, <1>6, <2>1, <2>3 DEF MovedTo, TopMoved, Alike
<1>14. ASSUME NEW t \in Upper(m, r), NEW i \in Idx
       PROVE  Alike(y[t + k][i], x[t + k][i], 0) /\ m[t][i].addr \in Int
  <2>1. m[t][i] \in Entry
    BY <1>4, <1>5 DEF Memories
  <2> QED
    BY <1>5, <1>11, <2>1 DEF Entry
<1>15. LowerMoved(y, m, r, k)
  <2>1. ASSUME NEW t \in Pdps(m, r), NEW i \in Idx
        PROVE  Alike(y[t + k][i], m[t][i], IF m[t][i].p /\ ~m[t][i].big THEN k ELSE 0)
    <3>1. Alike(x[t + k][i], m[t][i], IF m[t][i].p /\ ~m[t][i].big THEN k ELSE 0)
      BY <1>6 DEF MovedTo, LowerMoved
    <3>2. (IF m[t][i].p /\ ~m[t][i].big THEN k ELSE 0) \in Int
      BY <1>5
    <3> QED
      BY <1>10, <1>14, <3>1, <3>2, AlikeTwice
  <2>2. ASSUME NEW t \in Pds(m, r), NEW i \in Idx
        PROVE  Alike(y[t + k][i], m[t][i], 0)
    <3>1. Alike(x[t + k][i], m[t][i], 0)
      BY <1>6 DEF MovedTo, LowerMoved
    <3> QED
      BY <1>10, <1>14, <3>1, AlikeTwice
  <2> QED
    BY <2>1, <2>2 DEF LowerMoved
<1> QED
  BY <1>1, <1>11, <1>12, <1>13, <1>15 DEF MovedTo

(* The count of the copy is that of the firmware's top level.              *)
LEMMA MirrorIs ==
    ASSUME NEW fw \in Firmwares, Ready(fw), NEW y, MovedTo(y, fw.mem, fw.cr3, Delta(fw))
    PROVE  Cardinality(Present(y[Root(fw)])) = Count(fw) /\ MirrorStart(y, Root(fw)) = Mirror(fw)
<1>1. Present(y[Root(fw)]) = Present(fw.mem[fw.cr3])
  BY FirmwareCopies, MovedTables DEF Root, Upper
<1> QED
  BY <1>1 DEF Count, MirrorStart, Mirror

LEMMA MadeHas ==
    ASSUME NEW fw \in Firmwares, Ready(fw)
    PROVE  /\ Made(fw) \in Memories
           /\ Outside(Made(fw), fw.mem, Dst(fw), Limit(fw))
           /\ LowerMoved(Made(fw), fw.mem, fw.cr3, Delta(fw))
           /\ TopMirrored(Made(fw), fw)
<1>1. PICK y, z, g : /\ y = MadeWritable(Relocation(fw), Root(fw), fw.cr3) /\ z = Made(fw)
                     /\ g = Root(fw)
  OBVIOUS
<1>2. PICK m, r, k : m = fw.mem /\ r = fw.cr3 /\ k = Delta(fw)
  OBVIOUS
<1>3. MovedTo(y, m, r, k) /\ Outside(y, m, Dst(fw), Limit(fw)) /\ g = r + k
  BY <1>1, <1>2, WritableHas DEF Root
<1>4. PICK n \in Nat, s \in Nat : n = Count(fw) /\ s = Mirror(fw) /\ n > 0 /\ s = (N - 1) - n /\ n =< s
  BY Counted, Positive DEF Mirror
<1>5. Cardinality(Present(y[g])) = n /\ MirrorStart(y, g) = s
  BY <1>1, <1>2, <1>3, <1>4, MirrorIs
<1>6. /\ Copies(m, r, Src(fw), Dst(fw), k) /\ m \in Memories
      /\ y \in Memories /\ N \in Nat
  BY <1>2, <1>3, FirmwareCopies, Positive DEF MovedTo
<1>7. /\ k \in Int
      /\ \A t \in Upper(m, r) : /\ t \in Nat /\ t + k \in Dst(fw) .. Dst(fw) + Src(fw).pages - 1
                               /\ t + k \in Nat /\ t + k \in Frames
  BY <1>6, TablesCopied
<1>8. /\ r \in Upper(m, r)
      /\ \A t \in Pdps(m, r) : t \in Upper(m, r)
      /\ \A t \in Pds(m, r) : t \in Upper(m, r)
  BY DEF Upper
<1>9. g \in Frames
  BY <1>3, <1>7, <1>8
<1>10. z = [y EXCEPT ![g] = [i \in Idx |-> IF i \in s .. s + n - 1 THEN To(y[g][i - s].addr) ELSE y[g][i]]]
  BY <1>1, <1>5 DEF Made, Mirrored
<1>11. \A i \in Idx : /\ y[g][i].p = m[r][i].p
                      /\ m[r][i].p => y[g][i].addr = m[r][i].addr + k
                      /\ y[g][i] \in Entry
  BY <1>3, <1>6, <1>9 DEF MovedTo, TopMoved, Memories
<1>12. \A i \in Idx : m[r][i].p <=> i \in 0 .. n - 1
  BY <1>2, <1>4, Counted DEF Present
<1>13. /\ \A f \in Frames : f # g => z[f] = y[f]
       /\ \A i \in Idx : z[g][i] = IF i \in s .. s + n - 1 THEN To(y[g][i - s].addr) ELSE y[g][i]
       /\ z = [f \in Frames |-> z[f]] /\ z[g] = [i \in Idx |-> z[g][i]]
  BY <1>6, <1>9, <1>10 DEF Memories
<1>14. ASSUME NEW i \in 0 .. n - 1
       PROVE  /\ i \in Idx /\ i + s \in Idx /\ i + s \in s .. s + n - 1 /\ (i + s) - s = i /\ i \notin s .. s + n - 1
              /\ y[g][i].p /\ y[g][i].addr = m[r][i].addr + k /\ y[g][i].addr \in Nat
              /\ z[g][i] = y[g][i] /\ z[g][i + s] = To(y[g][i].addr)
  <2>1. /\ i \in Idx /\ i + s \in Idx /\ i + s \in s .. s + n - 1 /\ (i + s) - s = i /\ i \notin s .. s + n - 1
    BY <1>4, <1>6 DEF Idx
  <2>2. y[g][i].p /\ y[g][i].addr = m[r][i].addr + k
    BY <1>11, <1>12, <2>1
  <2>3. y[g][i] \in Entry
    BY <1>11, <2>1
  <2>4. z[g][i] = y[g][i] /\ z[g][i + s] = To(y[g][i].addr)
    BY <1>13, <2>1
  <2> QED
    BY <2>1, <2>2, <2>3, <2>4 DEF Entry
<1>15. ASSUME NEW j \in Idx, j \in s .. s + n - 1
       PROVE  j - s \in 0 .. n - 1 /\ (j - s) + s = j
  BY <1>4, <1>15
<1>16. \A a \in Nat : To(a) \in Entry /\ To(a).p /\ To(a).addr = a
  BY DEF To, Entry
<1>17. z \in Memories
  <2>1. \A j \in Idx : z[g][j] \in Entry
    <3> SUFFICES ASSUME NEW j \in Idx PROVE z[g][j] \in Entry
      OBVIOUS
    <3>1. CASE j \in s .. s + n - 1
      BY <1>14, <1>15, <1>16, <3>1
    <3>2. CASE j \notin s .. s + n - 1
      BY <1>11, <1>13, <3>2
    <3> QED
      BY <3>1, <3>2
  <2>2. z[g] \in [Idx -> Entry]
    BY <1>13, <2>1
  <2>3. \A f \in Frames : z[f] \in [Idx -> Entry]
    BY <1>6, <1>13, <2>2 DEF Memories
  <2> QED
    BY <1>13, <2>3 DEF Memories
<1>18. Outside(z, m, Dst(fw), Limit(fw))
  <2>1. g \in Dst(fw) .. Limit(fw) - 1
    <3>1. Dst(fw) \in Nat /\ Src(fw).pages \in Nat
      BY <1>6 DEF Copies, Apart
    <3> QED
      BY <1>3, <1>7, <1>8, <3>1 DEF Limit
  <2> QED
    BY <1>3, <1>13, <2>1 DEF Outside
<1>19. \A t \in Upper(m, r) : t # r => z[t + k] = y[t + k]
  <2> SUFFICES ASSUME NEW t \in Upper(m, r), t # r PROVE z[t + k] = y[t + k]
    OBVIOUS
  <2>1. t \in Nat /\ r \in Nat /\ k \in Int /\ t + k \in Frames
    BY <1>7, <1>8
  <2>2. t + k # g
    BY <1>3, <2>1
  <2> QED
    BY <1>13, <2>1, <2>2
<1>20. LowerMoved(z, m, r, k)
  <2>1. \A t \in Pdps(m, r) : t # r
    BY <1>6 DEF Copies, Levels
  <2>2. \A t \in Pds(m, r) : t # r
    BY <1>6 DEF Copies, Levels
  <2>3. \A t \in Pdps(m, r) : z[t + k] = y[t + k]
    BY <1>8, <1>19, <2>1
  <2>4. \A t \in Pds(m, r) : z[t + k] = y[t + k]
    BY <1>8, <1>19, <2>2
  <2> QED
    BY <1>3, <2>3, <2>4 DEF MovedTo, LowerMoved
<1>21. ASSUME NEW j \in Idx, z[g][j].p, j \notin 0 .. n - 1
       PROVE  j \in s .. N - 2
  <2>1. CASE j \in s .. s + n - 1
    <3>1. s + n - 1 = N - 2
      BY <1>4, <1>6
    <3> QED
      BY <2>1, <3>1
  <2>2. CASE j \notin s .. s + n - 1
    <3>1. z[g][j] = y[g][j]
      BY <1>13, <2>2
    <3> QED
      BY <1>11, <1>12, <1>21, <3>1
  <2> QED
    BY <2>1, <2>2
<1>22. \A i \in 0 .. n - 1 :
         /\ z[g][i].p /\ z[g][i].addr = m[r][i].addr + k
         /\ z[g][i + s].p /\ z[g][i + s].addr = m[r][i].addr + k
  BY <1>14, <1>16
<1>23. TopMirrored(z, fw)
  BY <1>1, <1>2, <1>4, <1>21, <1>22 DEF TopMirrored
<1> QED
  BY <1>1, <1>2, <1>17, <1>18, <1>20, <1>23

-----------------------------------------------------------------------------
(* What map_page has added to it *)

\* A new table is called by the indices that lead to it from the last
\* top-level entry, with its level.
Third      == [l |-> 3, b |-> 0, c |-> 0]
Second(b)  == [l |-> 2, b |-> b, c |-> 0]
Bottom(b, c) == [l |-> 1, b |-> b, c |-> c]

NewTables(fw, nxt) == First(fw) .. nxt - 1

\* Address a is that of a new table called x.
LeadsTo(fw, nxt, lab, a, x) == a \in NewTables(fw, nxt) /\ lab[a] = x

\* All that was there is, but for the last top-level entry.
Kept(m, fw, nxt) ==
    /\ \A f \in Frames : f \notin NewTables(fw, nxt) /\ f # Root(fw) => m[f] = Made(fw)[f]
    /\ \A i \in Idx : i # N - 1 => m[Root(fw)][i] = Made(fw)[Root(fw)][i]

Labelled(m, fw, nxt, lab) ==
    /\ m[Root(fw)][N - 1].p => LeadsTo(fw, nxt, lab, m[Root(fw)][N - 1].addr, Third)
    /\ \A f \in NewTables(fw, nxt), i \in Idx :
         lab[f] = Third /\ m[f][i].p =>
             ~m[f][i].big /\ LeadsTo(fw, nxt, lab, m[f][i].addr, Second(i))
    /\ \A f \in NewTables(fw, nxt), i, b \in Idx :
         lab[f] = Second(b) /\ m[f][i].p =>
             ~m[f][i].big /\ LeadsTo(fw, nxt, lab, m[f][i].addr, Bottom(b, i))

\* As long as no page beyond the copy was taken.
Grown(m, fw, nxt) ==
    /\ m \in Memories
    /\ nxt \in Nat /\ First(fw) =< nxt /\ nxt =< Limit(fw)
    /\ Kept(m, fw, nxt)
    /\ \E lab : Labelled(m, fw, nxt, lab)

LEMMA MadeIsGrown == ASSUME NEW fw \in Firmwares, Ready(fw) PROVE Grown(Made(fw), fw, First(fw))
<1>1. Made(fw) \in Memories /\ TopMirrored(Made(fw), fw)
  BY MadeHas
<1>2. /\ First(fw) \in Nat /\ First(fw) =< Limit(fw)
      /\ \A f \in NewTables(fw, First(fw)) : FALSE
  BY FirstIs DEF NewTables
<1>3. ~Made(fw)[Root(fw)][N - 1].p
  <2>1. N - 1 \in Idx /\ N \in Nat
    BY Positive DEF Idx
  <2>2. Count(fw) \in Nat /\ 2 * Count(fw) < N
    BY Counted
  <2>3. N - 1 \notin 0 .. Count(fw) - 1 /\ N - 1 \notin Mirror(fw) .. N - 2
    BY <2>1, <2>2
  <2> QED
    BY <1>1, <2>1, <2>3 DEF TopMirrored
<1>4. Kept(Made(fw), fw, First(fw))
  BY DEF Kept
<1>5. Labelled(Made(fw), fw, First(fw), 0)
  BY <1>2, <1>3 DEF Labelled
<1> QED
  BY <1>1, <1>2, <1>4, <1>5 DEF Grown

(* Where the tables are.                                                   *)
LEMMA TablesAt ==
    ASSUME NEW fw \in Firmwares, Ready(fw)
    PROVE  /\ Delta(fw) \in Int
           /\ \A t \in Upper(fw.mem, fw.cr3) :
                /\ t \in Nat /\ t \in Frames /\ t + Delta(fw) \in Frames /\ t + Delta(fw) \in Nat
                /\ t + Delta(fw) >= Dst(fw) /\ t + Delta(fw) < First(fw)
           /\ Root(fw) \in Frames /\ Root(fw) >= Dst(fw) /\ Root(fw) < First(fw)
           /\ \A t \in Pdps(fw.mem, fw.cr3) : t + Delta(fw) # Root(fw) /\ t \in Upper(fw.mem, fw.cr3)
           /\ \A t \in Pds(fw.mem, fw.cr3) : t + Delta(fw) # Root(fw) /\ t \in Upper(fw.mem, fw.cr3)
           /\ \A t \in Pts(fw.mem, fw.cr3) : t \in Frames /\ t \notin Dst(fw) .. Limit(fw) - 1
           /\ \A f \in Dst(fw) .. Limit(fw) - 1 : f \in Frames
           /\ Dst(fw) \in Nat /\ Limit(fw) \in Nat
<1>1. PICK m, r, k, d, p : m = fw.mem /\ r = fw.cr3 /\ k = Delta(fw) /\ d = Dst(fw) /\ p = Src(fw).pages
  OBVIOUS
<1>2. Copies(m, r, Src(fw), d, k) /\ m \in Memories
  BY <1>1, FirmwareCopies
<1>3. /\ k \in Int
      /\ \A t \in Upper(m, r) : /\ t \in Nat /\ t \in Frames /\ t + k \in d .. d + p - 1
                               /\ t + k \in Nat /\ t + k \in Frames
  BY <1>1, <1>2, TablesCopied
<1>4. d \in Nat /\ p \in Nat /\ Limit(fw) = d + p /\ \A f \in d .. d + p - 1 : f \in Frames
  BY <1>1, <1>2 DEF Copies, Apart, Limit
<1>5. \A t \in Upper(m, r) : t + k >= d /\ t + k < First(fw)
  BY <1>1, <1>3, <1>4, FirstIs
<1>6. /\ r \in Upper(m, r)
      /\ \A t \in Pdps(m, r) : t \in Upper(m, r) /\ t # r
      /\ \A t \in Pds(m, r) : t \in Upper(m, r) /\ t # r
  BY <1>2 DEF Upper, Copies, Levels
<1>7. Root(fw) = r + k
  BY <1>1 DEF Root
<1>8. \A t \in Upper(m, r) : t # r => t + k # r + k
  BY <1>3, <1>6
<1>9. \A t \in Pts(m, r) : t \in Frames /\ t \notin d .. Limit(fw) - 1
  <2> SUFFICES ASSUME NEW t \in Pts(m, r) PROVE t \in Frames /\ t \notin d .. Limit(fw) - 1
    BY SMTT(30)
  <2>1. /\ t \in Frames
        /\ \A i \in 1 .. Len(fw.mmap) : fw.mmap[i].type = "free" => t \notin Region(fw.mmap[i])
    BY <1>1, BootAssumption DEF FirmwareOK
  <2>2. t \notin Region(fw.mmap[Place(fw)])
    BY <2>1, PlaceIs
  <2> QED
    BY <1>1, <2>1, <2>2, PlaceIs
<1> QED
  BY <1>1, <1>3, <1>4, <1>5, <1>6, <1>7, <1>8, <1>9

(* What of the moved tables is left alone.                                 *)
LEMMA GrownHas ==
    ASSUME NEW fw \in Firmwares, Ready(fw), NEW m, NEW nxt, Grown(m, fw, nxt)
    PROVE  /\ Outside(m, fw.mem, Dst(fw), Limit(fw))
           /\ LowerMoved(m, fw.mem, fw.cr3, Delta(fw))
           /\ \A i \in Idx : i # N - 1 => m[Root(fw)][i] = Made(fw)[Root(fw)][i]
<1>1. PICK z, fm, r, k, d, e, g :
        /\ z = Made(fw) /\ fm = fw.mem /\ r = fw.cr3 /\ k = Delta(fw) /\ d = Dst(fw)
        /\ e = Limit(fw) /\ g = Root(fw)
  OBVIOUS
<1>2. PICK w : w = First(fw)
  OBVIOUS
<1>3. /\ Outside(z, fm, d, e) /\ LowerMoved(z, fm, r, k)
  BY <1>1, MadeHas
<1>4. /\ w \in Nat /\ nxt \in Nat /\ w =< nxt /\ nxt =< e /\ d \in Nat /\ e \in Nat /\ d < w
      /\ \A f \in Frames : f \notin w .. nxt - 1 /\ f # g => m[f] = z[f]
      /\ \A i \in Idx : i # N - 1 => m[g][i] = z[g][i]
  BY <1>1, <1>2, FirstIs DEF Grown, Kept, NewTables
<1>5. /\ g \in Frames /\ g >= d /\ g < w
      /\ \A t \in Upper(fm, r) : t + k \in Frames /\ t + k \in Nat /\ t + k < w
      /\ \A t \in Pdps(fm, r) : t + k # g /\ t \in Upper(fm, r)
      /\ \A t \in Pds(fm, r) : t + k # g /\ t \in Upper(fm, r)
  BY <1>1, <1>2, TablesAt
<1>6. Outside(m, fm, d, e)
  <2> SUFFICES ASSUME NEW f \in Frames, f \notin d .. e - 1 PROVE m[f] = fm[f]
    BY DEF Outside
  <2>1. f \in Nat
    BY DEF Frames
  <2>2. f \notin w .. nxt - 1 /\ f # g
    BY <1>4, <1>5, <2>1
  <2>3. m[f] = z[f]
    BY <1>4, <2>2
  <2> QED
    BY <1>3, <2>3 DEF Outside
<1>7. \A t \in Upper(fm, r) : t + k # g => m[t + k] = z[t + k]
  <2> SUFFICES ASSUME NEW t \in Upper(fm, r), t + k # g PROVE m[t + k] = z[t + k]
    OBVIOUS
  <2>1. t + k \notin w .. nxt - 1
    BY <1>4, <1>5
  <2> QED
    BY <1>4, <1>5, <2>1
<1>8. LowerMoved(m, fm, r, k)
  BY <1>3, <1>5, <1>7 DEF LowerMoved
<1> QED
  BY <1>1, <1>4, <1>6, <1>8

\* Translate, by the four indices of a page.
WalkOf(m, r, a, b, c, d) ==
    LET e4 == m[r][a]
        e3 == m[e4.addr][b]
        e2 == m[e3.addr][c]
        e1 == m[e2.addr][d]
    IN  IF ~(e4.p /\ e3.p) THEN Unmapped
        ELSE IF e3.big THEN e3.addr + c * N + d
        ELSE IF ~e2.p THEN Unmapped
        ELSE IF e2.big THEN e2.addr + d
        ELSE IF e1.p THEN e1.addr ELSE Unmapped

LEMMA TranslateWalks ==
    ASSUME NEW m, NEW r, NEW n
    PROVE  Translate(m, r, n) =
             WalkOf(m, r, IndexOf(n)[1], IndexOf(n)[2], IndexOf(n)[3], IndexOf(n)[4])
BY DEF Translate, WalkOf

(* The moved tables translate as the firmware's, in both places.           *)
LEMMA WalksAlike ==
    ASSUME NEW fw \in Firmwares, Ready(fw), NEW m, NEW nxt, Grown(m, fw, nxt),
           NEW a \in 0 .. Count(fw) - 1, NEW j \in {a, a + Mirror(fw)},
           NEW b \in Idx, NEW c \in Idx, NEW d \in Idx
    PROVE  WalkOf(m, Root(fw), j, b, c, d) = WalkOf(fw.mem, fw.cr3, a, b, c, d)
<1>1. PICK fm, r, k, g : fm = fw.mem /\ r = fw.cr3 /\ k = Delta(fw) /\ g = Root(fw)
  OBVIOUS
<1>2. /\ Outside(m, fm, Dst(fw), Limit(fw))
      /\ LowerMoved(m, fm, r, k)
      /\ \A i \in Idx : i # N - 1 => m[g][i] = Made(fw)[g][i]
  BY <1>1, GrownHas
<1>3. /\ k \in Int /\ r \in Upper(fm, r)
      /\ \A t \in Upper(fm, r) : t \in Frames
      /\ \A t \in Pdps(fm, r) : t \in Upper(fm, r)
      /\ \A t \in Pds(fm, r) : t \in Upper(fm, r)
      /\ \A t \in Pts(fm, r) : t \in Frames /\ t \notin Dst(fw) .. Limit(fw) - 1
  BY <1>1, TablesAt DEF Upper
<1>4. \A f \in Frames, i \in Idx : fm[f][i].addr \in Nat
  <2>1. \A f \in Frames, i \in Idx : fm[f][i] \in Entry
    BY <1>1, Machine
  <2> QED
    BY <2>1 DEF Entry
<1>5. a \in Idx /\ j \in Idx /\ j # N - 1
  <2>1. Count(fw) \in Nat /\ 2 * Count(fw) < N /\ N \in Nat
    BY Counted, Positive
  <2> QED
    BY <2>1 DEF Idx, Mirror
<1>6. fm[r][a].p
  BY <1>1, <1>5, Counted DEF Present
<1>7. m[g][j].p /\ m[g][j].addr = fm[r][a].addr + k
  <2>1. TopMirrored(Made(fw), fw)
    BY MadeHas
  <2>2. Made(fw)[g][j].p /\ Made(fw)[g][j].addr = fm[r][a].addr + k
    BY <1>1, <2>1 DEF TopMirrored
  <2> QED
    BY <1>2, <1>5, <2>2
<1>8. PICK t3 : t3 = fm[r][a].addr
  OBVIOUS
<1>9. t3 \in Pdps(fm, r)
  BY <1>5, <1>6, <1>8 DEF Pdps, Present
<1>10. Alike(m[t3 + k][b], fm[t3][b], IF fm[t3][b].p /\ ~fm[t3][b].big THEN k ELSE 0)
  BY <1>2, <1>9 DEF LowerMoved
<1>11. fm[t3][b].addr \in Nat
  BY <1>3, <1>4, <1>9
<1>12. CASE ~fm[t3][b].p
  <2>1. ~m[t3 + k][b].p
    BY <1>10, <1>12 DEF Alike
  <2>2. WalkOf(fm, r, a, b, c, d) = Unmapped
    BY <1>8, <1>12, ZenonT(60) DEF WalkOf
  <2>3. WalkOf(m, g, j, b, c, d) = Unmapped
    BY <1>7, <1>8, <2>1, ZenonT(60) DEF WalkOf
  <2> QED
    BY <1>1, <2>2, <2>3
<1>13. CASE fm[t3][b].p /\ fm[t3][b].big
  <2>1. m[t3 + k][b].p /\ m[t3 + k][b].big /\ m[t3 + k][b].addr = fm[t3][b].addr
    BY <1>10, <1>11, <1>13 DEF Alike
  <2> QED
    BY <1>1, <1>6, <1>7, <1>8, <1>13, <2>1, ZenonT(60) DEF WalkOf
<1>14. CASE fm[t3][b].p /\ ~fm[t3][b].big
  <2>1. PICK t2 : t2 = fm[t3][b].addr
    OBVIOUS
  <2>2. t2 \in Pds(fm, r)
    BY <1>9, <1>14, <2>1 DEF Pds, Below, Present
  <2>3. m[t3 + k][b].p /\ ~m[t3 + k][b].big /\ m[t3 + k][b].addr = t2 + k
    BY <1>10, <1>14, <2>1 DEF Alike
  <2>4. Alike(m[t2 + k][c], fm[t2][c], 0) /\ fm[t2][c].addr \in Nat
    BY <1>2, <1>3, <1>4, <2>2 DEF LowerMoved
  <2>5. m[t2 + k][c].p = fm[t2][c].p /\ m[t2 + k][c].big = fm[t2][c].big /\ m[t2 + k][c].addr = fm[t2][c].addr
    BY <2>4 DEF Alike
  <2>6. /\ WalkOf(fm, r, a, b, c, d) =
             IF ~fm[t2][c].p THEN Unmapped
             ELSE IF fm[t2][c].big THEN fm[t2][c].addr + d
             ELSE IF fm[fm[t2][c].addr][d].p THEN fm[fm[t2][c].addr][d].addr ELSE Unmapped
        /\ WalkOf(m, g, j, b, c, d) =
             IF ~fm[t2][c].p THEN Unmapped
             ELSE IF fm[t2][c].big THEN fm[t2][c].addr + d
             ELSE IF m[fm[t2][c].addr][d].p THEN m[fm[t2][c].addr][d].addr ELSE Unmapped
    BY <1>6, <1>7, <1>8, <1>14, <2>1, <2>3, <2>5, ZenonT(60) DEF WalkOf
  <2>7. CASE fm[t2][c].p /\ ~fm[t2][c].big
    <3>1. fm[t2][c].addr \in Pts(fm, r)
      BY <2>2, <2>7 DEF Pts, Below, Present
    <3>2. m[fm[t2][c].addr] = fm[fm[t2][c].addr]
      BY <1>2, <1>3, <3>1 DEF Outside
    <3> QED
      BY <1>1, <2>6, <3>2
  <2> QED
    BY <1>1, <2>6, <2>7
<1> QED
  BY <1>12, <1>13, <1>14

\* The tables but those of the last level that the firmware made.
Used(m, fw) ==
    {Root(fw)} \cup Pdps(m, Root(fw)) \cup Pds(m, Root(fw))
               \cup (Pts(m, Root(fw)) \ Pts(fw.mem, fw.cr3))

(* The walk of all tables finds copies and new ones.                       *)
LEMMA TablesInside ==
    ASSUME NEW fw \in Firmwares, Ready(fw), NEW m, NEW nxt, Grown(m, fw, nxt)
    PROVE  \A f \in Used(m, fw) : f \in Nat /\ Dst(fw) =< f /\ f < nxt
<1>1. PICK fm, r, k, g : fm = fw.mem /\ r = fw.cr3 /\ k = Delta(fw) /\ g = Root(fw)
  OBVIOUS
<1> DEFINE Here(f) == f \in Nat /\ Dst(fw) =< f /\ f < nxt
           New == NewTables(fw, nxt)
<1>2. /\ LowerMoved(m, fm, r, k)
      /\ \A i \in Idx : i # N - 1 => m[g][i] = Made(fw)[g][i]
  BY <1>1, GrownHas
<1>3. PICK lab : Labelled(m, fw, nxt, lab)
  BY DEF Grown
<1>4. /\ Dst(fw) \in Nat /\ First(fw) \in Nat /\ nxt \in Nat /\ First(fw) =< nxt /\ Dst(fw) < First(fw)
      /\ \A t \in Upper(fm, r) : t + k \in Nat /\ t + k >= Dst(fw) /\ t + k < First(fw)
      /\ g \in Frames /\ g >= Dst(fw) /\ g < First(fw)
      /\ \A t \in Pdps(fm, r) : t \in Upper(fm, r)
      /\ \A t \in Pds(fm, r) : t \in Upper(fm, r)
  BY <1>1, TablesAt, FirstIs DEF Grown
<1>5. \A t \in Upper(fm, r) : Here(t + k)
  BY <1>4
<1>6. \A f \in New : Here(f)
  BY <1>4 DEF NewTables
<1>7. Here(g)
  BY <1>4 DEF Frames
<1>8. \A f \in Pdps(m, g) : (\E t \in Pdps(fm, r) : f = t + k) \/ (f \in New /\ lab[f] = Third)
  <2> SUFFICES ASSUME NEW j \in Idx, m[g][j].p
               PROVE  \/ \E t \in Pdps(fm, r) : m[g][j].addr = t + k
                      \/ m[g][j].addr \in New /\ lab[m[g][j].addr] = Third
    BY DEF Pdps, Present
  <2>1. CASE j = N - 1
    BY <1>1, <1>3, <2>1 DEF Labelled, LeadsTo
  <2>2. CASE j # N - 1
    <3>1. m[g][j] = Made(fw)[g][j]
      BY <1>2, <2>2
    <3>2. TopMirrored(Made(fw), fw)
      BY MadeHas
    <3>3. PICK n \in Nat, s \in Nat : n = Count(fw) /\ s = Mirror(fw) /\ n > 0 /\ s = (N - 1) - n /\ n =< s
      BY Counted, Positive DEF Mirror
    <3>4. j \in 0 .. n - 1 \/ j \in s .. N - 2
      BY <1>1, <3>1, <3>2, <3>3 DEF TopMirrored
    <3>5. N \in Nat
      BY Positive
    <3>6. PICK i \in 0 .. n - 1 : j = i \/ j = i + s
      <4>1. CASE j \in 0 .. n - 1
        BY <4>1
      <4>2. CASE j \in s .. N - 2
        <5>1. j - s \in 0 .. n - 1 /\ j = (j - s) + s
          BY <3>3, <3>5, <4>2
        <5> QED
          BY <5>1
      <4> QED
        BY <3>4, <4>1, <4>2
    <3>7. m[g][j].addr = fm[r][i].addr + k
      BY <1>1, <3>1, <3>2, <3>3, <3>6 DEF TopMirrored
    <3>8. i \in Present(fm[r])
      BY <1>1, <3>3, Counted
    <3> QED
      BY <3>7, <3>8 DEF Pdps
  <2> QED
    BY <2>1, <2>2
<1>9. \A f \in Pds(m, g) : (\E t \in Pds(fm, r) : f = t + k) \/ (f \in New /\ \E b \in Idx : lab[f] = Second(b))
  <2> SUFFICES ASSUME NEW u \in Pdps(m, g), NEW j \in Idx, m[u][j].p, ~m[u][j].big
               PROVE  \/ \E t \in Pds(fm, r) : m[u][j].addr = t + k
                      \/ m[u][j].addr \in New /\ \E b \in Idx : lab[m[u][j].addr] = Second(b)
    BY DEF Pds, Below, Present
  <2>1. CASE \E t \in Pdps(fm, r) : u = t + k
    <3>1. PICK t \in Pdps(fm, r) : u = t + k
      BY <2>1
    <3>2. Alike(m[u][j], fm[t][j], IF fm[t][j].p /\ ~fm[t][j].big THEN k ELSE 0)
      BY <1>2, <3>1 DEF LowerMoved
    <3>3. fm[t][j].p /\ ~fm[t][j].big /\ m[u][j].addr = fm[t][j].addr + k
      BY <3>2 DEF Alike
    <3>4. fm[t][j].addr \in Pds(fm, r)
      BY <3>1, <3>3 DEF Pds, Below, Present
    <3> QED
      BY <3>3, <3>4
  <2>2. CASE u \in New /\ lab[u] = Third
    BY <1>3, <2>2 DEF Labelled, LeadsTo
  <2> QED
    BY <1>8, <2>1, <2>2
<1>10. \A f \in Pts(m, g) : f \in Pts(fm, r) \/ f \in New
  <2> SUFFICES ASSUME NEW u \in Pds(m, g), NEW j \in Idx, m[u][j].p, ~m[u][j].big
               PROVE  m[u][j].addr \in Pts(fm, r) \/ m[u][j].addr \in New
    BY DEF Pts, Below, Present
  <2>1. CASE \E t \in Pds(fm, r) : u = t + k
    <3>1. PICK t \in Pds(fm, r) : u = t + k
      BY <2>1
    <3>2. Alike(m[u][j], fm[t][j], 0)
      BY <1>2, <3>1 DEF LowerMoved
    <3>3. fm[t][j] \in Entry
      <4>1. t \in Frames
        BY <1>1, <3>1, TablesAt
      <4> QED
        BY <1>1, <4>1, Machine
    <3>4. fm[t][j].p /\ ~fm[t][j].big /\ m[u][j].addr = fm[t][j].addr
      BY <3>2, <3>3 DEF Alike, Entry
    <3>5. fm[t][j].addr \in Pts(fm, r)
      BY <3>1, <3>4 DEF Pts, Below, Present
    <3> QED
      BY <3>4, <3>5
  <2>2. CASE u \in New /\ \E b \in Idx : lab[u] = Second(b)
    BY <1>3, <2>2 DEF Labelled, LeadsTo
  <2> QED
    BY <1>9, <2>1, <2>2
<1> HIDE DEF Here, New
<1>11. \A f \in Pdps(m, g) : Here(f)
  BY <1>4, <1>5, <1>6, <1>8
<1>12. \A f \in Pds(m, g) : Here(f)
  BY <1>4, <1>5, <1>6, <1>9
<1>13. \A f \in Pts(m, g) \ Pts(fm, r) : Here(f)
  BY <1>6, <1>10
<1>14. \A f \in Used(m, fw) : Here(f)
  BY <1>1, <1>7, <1>11, <1>12, <1>13 DEF Used
<1> QED
  BY <1>14 DEF Here

-----------------------------------------------------------------------------
(* One level of map_page *)

IsState(st) ==
    /\ st = [m |-> st.m, next |-> st.next, available |-> st.available, at |-> st.at]
    /\ st.m \in Memories /\ st.next \in Nat /\ st.available \in Int

\* m2 is m with the empty table a at entry i of table f.
Opened(m, m2, f, i, a) ==
    /\ m2 \in Memories
    /\ ~m[f][i].p /\ m2[f][i] = To(a)
    /\ \A j \in Idx : ~m2[a][j].p
    /\ \A h \in Frames : h # a /\ h # f => m2[h] = m[h]
    /\ \A j \in Idx : j # i => m2[f][j] = m[f][j]

LEMMA Entries == Empty \in [Idx -> Entry] /\ (\A i \in Idx : ~Empty[i].p) /\ \A f \in Nat :
                    To(f) \in Entry /\ To(f).p /\ ~To(f).big /\ To(f).addr = f
<1>1. Absent \in Entry /\ ~Absent.p
  BY DEF Absent, Entry
<1> QED
  BY <1>1 DEF Empty, To, Entry

\* Frame f is written at entry i of table a.
EntryPut(m, a, i, e, m2) == m2 = [m EXCEPT ![a][i] = e]

OnlyAt(m, a, i, e, m2) ==
    /\ \A h \in Frames : h # a => m2[h] = m[h]
    /\ a \in Frames => m2[a][i] = e /\ \A j \in Idx : j # i => m2[a][j] = m[a][j]

LEMMA EntryPutIs ==
    ASSUME NEW m \in Memories, NEW a, NEW i \in Idx, NEW e \in Entry, NEW m2, EntryPut(m, a, i, e, m2)
    PROVE  m2 \in Memories /\ OnlyAt(m, a, i, e, m2)
<1>1. m2 = [h \in Frames |-> IF h = a THEN [m[a] EXCEPT ![i] = e] ELSE m[h]]
  BY DEF EntryPut, Memories
<1>2. a \in Frames => m[a] \in [Idx -> Entry]
  BY DEF Memories
<1>3. a \in Frames => [m[a] EXCEPT ![i] = e] \in [Idx -> Entry]
  BY <1>2
<1>4. m2 \in Memories
  BY <1>1, <1>3 DEF Memories
<1>5. \A h \in Frames : h # a => m2[h] = m[h]
  BY <1>1
<1>6. a \in Frames => m2[a] = [m[a] EXCEPT ![i] = e]
  BY <1>1
<1>7. a \in Frames => m2[a][i] = e /\ \A j \in Idx : j # i => m2[a][j] = m[a][j]
  BY <1>2, <1>6
<1> QED
  BY <1>4, <1>5, <1>7 DEF OnlyAt

\* Frame a is cleared.
TableCleared(m, a, m2) == m2 = [m EXCEPT ![a] = Empty]

LEMMA TableClearedIs ==
    ASSUME NEW m \in Memories, NEW a, NEW m2, TableCleared(m, a, m2)
    PROVE  /\ m2 \in Memories
           /\ \A h \in Frames : h # a => m2[h] = m[h]
           /\ a \in Frames => m2[a] = Empty
<1>1. m2 = [h \in Frames |-> IF h = a THEN Empty ELSE m[h]]
  BY DEF TableCleared, Memories
<1>2. m2 \in Memories
  BY <1>1, Entries DEF Memories
<1> QED
  BY <1>1, <1>2

LEMMA DescendTyped ==
    ASSUME NEW st, IsState(st), NEW i \in Idx, NEW t, t = Descend(st, i)
    PROVE  /\ IsState(t)
           /\ st.next =< t.next /\ t.next + t.available = st.next + st.available
           /\ st.m[st.at][i].p => t.m = st.m /\ t.next = st.next /\ t.at = st.m[st.at][i].addr
           /\ ~st.m[st.at][i].p =>
                /\ t.next = st.next + 1 /\ t.at = st.next
                /\ st.at \in Frames /\ st.next \in Frames /\ st.at # st.next =>
                     Opened(st.m, t.m, st.at, i, st.next)
<1>1. st.m \in Memories /\ st.next \in Nat /\ st.available \in Int
  BY DEF IsState
<1>2. CASE st.m[st.at][i].p
  <2>1. t = [st EXCEPT !.at = st.m[st.at][i].addr]
    BY <1>2 DEF Descend
  <2>2. t = [m |-> st.m, next |-> st.next, available |-> st.available, at |-> st.m[st.at][i].addr]
    BY <2>1 DEF IsState
  <2>3. t.m = st.m /\ t.next = st.next /\ t.available = st.available /\ t.at = st.m[st.at][i].addr
    BY <2>2
  <2>4. IsState(t)
    BY <1>1, <2>2, <2>3 DEF IsState
  <2> QED
    BY <1>1, <1>2, <2>3, <2>4
<1>3. CASE ~st.m[st.at][i].p
  <2>1. PICK m1 : TableCleared(st.m, st.next, m1)
    BY DEF TableCleared
  <2>2. PICK m2 : EntryPut(m1, st.at, i, To(st.next), m2)
    BY DEF EntryPut
  <2>3. t = [m |-> m2, next |-> st.next + 1, available |-> st.available - 1, at |-> st.next]
    BY <1>3, <2>1, <2>2 DEF Descend, TableCleared, EntryPut
  <2>4. t.m = m2 /\ t.next = st.next + 1 /\ t.available = st.available - 1 /\ t.at = st.next
    BY <2>3
  <2>5. /\ m1 \in Memories
        /\ \A h \in Frames : h # st.next => m1[h] = st.m[h]
        /\ st.next \in Frames => m1[st.next] = Empty
    BY <1>1, <2>1, TableClearedIs
  <2>6. /\ m2 \in Memories
        /\ \A h \in Frames : h # st.at => m2[h] = m1[h]
        /\ st.at \in Frames => m2[st.at][i] = To(st.next) /\ \A j \in Idx : j # i => m2[st.at][j] = m1[st.at][j]
    BY <1>1, <2>2, <2>5, EntryPutIs, Entries DEF OnlyAt
  <2>7. IsState(t)
    BY <1>1, <2>3, <2>4, <2>6 DEF IsState
  <2>8. st.at \in Frames /\ st.next \in Frames /\ st.at # st.next => Opened(st.m, m2, st.at, i, st.next)
    BY <1>3, <2>5, <2>6, Entries DEF Opened
  <2> QED
    BY <1>1, <1>3, <2>4, <2>7, <2>8
<1> QED
  BY <1>2, <1>3

\* Entry i of table f is one for a table that is called y.
Way(fw, nxt, lab, f, i, y) ==
    \/ f = Root(fw) /\ i = N - 1 /\ y = Third
    \/ f \in NewTables(fw, nxt) /\ lab[f] = Third /\ y = Second(i)
    \/ f \in NewTables(fw, nxt) /\ \E b \in Idx : lab[f] = Second(b) /\ y = Bottom(b, i)

LEMMA Names ==
    \A b, c, d, e : /\ Third # Second(b) /\ Third # Bottom(b, c) /\ Second(b) # Bottom(c, d)
                    /\ Second(b) = Second(c) => b = c
                    /\ Bottom(b, c) = Bottom(d, e) => b = d /\ c = e
BY DEF Third, Second, Bottom

(* The new table gets the name that its entry stands for.                  *)
LEMMA OpenedLabels ==
    ASSUME NEW fw \in Firmwares, Ready(fw), NEW m, NEW nxt, Grown(m, fw, nxt), nxt < Limit(fw),
           NEW lab, Labelled(m, fw, nxt, lab),
           NEW f, NEW i \in Idx, NEW y, Way(fw, nxt, lab, f, i, y),
           NEW m2, Opened(m, m2, f, i, nxt)
    PROVE  \E lab2 : /\ Labelled(m2, fw, nxt + 1, lab2)
                     /\ \A h \in NewTables(fw, nxt) : lab2[h] = lab[h]
                     /\ LeadsTo(fw, nxt + 1, lab2, nxt, y)
<1>1. PICK g, w : g = Root(fw) /\ w = First(fw)
  OBVIOUS
<1> DEFINE lab2 == [h \in w .. nxt |-> IF h = nxt THEN y ELSE lab[h]]
<1>2. /\ w \in Nat /\ nxt \in Nat /\ w =< nxt /\ g \in Frames /\ g \in Nat /\ g < w
      /\ \A h \in Dst(fw) .. Limit(fw) - 1 : h \in Frames
      /\ Dst(fw) \in Nat /\ Limit(fw) \in Nat /\ Dst(fw) < w
  BY <1>1, FirstIs, TablesAt DEF Grown, Frames
<1>3. NewTables(fw, nxt) = w .. nxt - 1 /\ NewTables(fw, nxt + 1) = w .. nxt
  BY <1>1, <1>2 DEF NewTables
<1>4. \A h \in w .. nxt : h \in Frames /\ h # g
  BY <1>2
<1>5. /\ \A h \in w .. nxt - 1 : lab2[h] = lab[h]
      /\ lab2[nxt] = y
      /\ \A h \in w .. nxt - 1 : h \in w .. nxt /\ h # nxt /\ h \in Frames /\ h # g
      /\ nxt \in w .. nxt /\ g # nxt
  BY <1>2, <1>4
<1>6. /\ ~m[f][i].p /\ m2[f][i] = To(nxt)
      /\ \A j \in Idx : ~m2[nxt][j].p
      /\ \A h \in Frames : h # nxt /\ h # f => m2[h] = m[h]
      /\ \A j \in Idx : j # i => m2[f][j] = m[f][j]
  BY DEF Opened
<1>7. ~To(nxt).big /\ To(nxt).addr = nxt
  BY <1>2, Entries
<1>8. /\ m[g][N - 1].p => LeadsTo(fw, nxt, lab, m[g][N - 1].addr, Third)
      /\ \A h \in w .. nxt - 1, j \in Idx :
           lab[h] = Third /\ m[h][j].p => ~m[h][j].big /\ LeadsTo(fw, nxt, lab, m[h][j].addr, Second(j))
      /\ \A h \in w .. nxt - 1, j, b \in Idx :
           lab[h] = Second(b) /\ m[h][j].p => ~m[h][j].big /\ LeadsTo(fw, nxt, lab, m[h][j].addr, Bottom(b, j))
  BY <1>1, <1>3 DEF Labelled
<1>9. \/ f = g /\ i = N - 1 /\ y = Third
      \/ f \in w .. nxt - 1 /\ lab[f] = Third /\ y = Second(i)
      \/ f \in w .. nxt - 1 /\ \E b \in Idx : lab[f] = Second(b) /\ y = Bottom(b, i)
  BY <1>1, <1>3 DEF Way
<1> HIDE DEF lab2
<1>10. \A a, x : LeadsTo(fw, nxt, lab, a, x) => LeadsTo(fw, nxt + 1, lab2, a, x)
  BY <1>3, <1>5 DEF LeadsTo
<1>11. LeadsTo(fw, nxt + 1, lab2, nxt, y)
  BY <1>3, <1>5 DEF LeadsTo
<1>12. m2[g][N - 1].p => LeadsTo(fw, nxt + 1, lab2, m2[g][N - 1].addr, Third)
  <2>1. CASE f = g
    <3>1. f \notin w .. nxt - 1
      BY <1>5, <2>1
    <3>2. i = N - 1 /\ y = Third
      BY <1>9, <3>1
    <3> QED
      BY <1>6, <1>7, <1>11, <2>1, <3>2
  <2>2. CASE f # g
    <3>1. m2[g] = m[g]
      BY <1>2, <1>5, <1>6, <2>2
    <3> QED
      BY <1>8, <1>10, <3>1
  <2> QED
    BY <2>1, <2>2
<1>13. ASSUME NEW h \in w .. nxt, NEW j \in Idx, lab2[h] = Third, m2[h][j].p
       PROVE  ~m2[h][j].big /\ LeadsTo(fw, nxt + 1, lab2, m2[h][j].addr, Second(j))
  <2>1. h # nxt
    BY <1>6, <1>13
  <2>2. h \in w .. nxt - 1 /\ lab[h] = Third /\ h \in Frames
    BY <1>2, <1>4, <1>5, <1>13, <2>1
  <2>3. CASE h = f /\ j = i
    <3>1. y = Second(i)
      BY <1>5, <1>9, <2>2, <2>3, Names
    <3> QED
      BY <1>6, <1>7, <1>11, <2>3, <3>1
  <2>4. CASE ~(h = f /\ j = i)
    <3>1. m2[h][j] = m[h][j]
      BY <1>6, <2>1, <2>2, <2>4
    <3> QED
      BY <1>8, <1>10, <1>13, <2>2, <3>1
  <2> QED
    BY <2>3, <2>4
<1>14. ASSUME NEW h \in w .. nxt, NEW j \in Idx, NEW b \in Idx, lab2[h] = Second(b), m2[h][j].p
       PROVE  ~m2[h][j].big /\ LeadsTo(fw, nxt + 1, lab2, m2[h][j].addr, Bottom(b, j))
  <2>1. h # nxt
    BY <1>6, <1>14
  <2>2. h \in w .. nxt - 1 /\ lab[h] = Second(b) /\ h \in Frames
    BY <1>2, <1>4, <1>5, <1>14, <2>1
  <2>3. CASE h = f /\ j = i
    <3>1. PICK b2 \in Idx : lab[f] = Second(b2) /\ y = Bottom(b2, i)
      BY <1>5, <1>9, <2>2, <2>3, Names
    <3>2. b2 = b
      BY <2>2, <2>3, <3>1, Names
    <3> QED
      BY <1>6, <1>7, <1>11, <2>3, <3>1, <3>2
  <2>4. CASE ~(h = f /\ j = i)
    <3>1. m2[h][j] = m[h][j]
      BY <1>6, <2>1, <2>2, <2>4
    <3> QED
      BY <1>8, <1>10, <1>14, <2>2, <3>1
  <2> QED
    BY <2>3, <2>4
<1>15. Labelled(m2, fw, nxt + 1, lab2)
  BY <1>1, <1>3, <1>12, <1>13, <1>14 DEF Labelled
<1> QED
  BY <1>3, <1>5, <1>11, <1>15

LEMMA OpenedGrown ==
    ASSUME NEW fw \in Firmwares, Ready(fw), NEW m, NEW nxt, Grown(m, fw, nxt), nxt < Limit(fw),
           NEW lab, Labelled(m, fw, nxt, lab),
           NEW f, NEW i \in Idx, NEW y, Way(fw, nxt, lab, f, i, y),
           NEW m2, Opened(m, m2, f, i, nxt)
    PROVE  Grown(m2, fw, nxt + 1)
<1>1. /\ First(fw) \in Nat /\ nxt \in Nat /\ First(fw) =< nxt /\ Limit(fw) \in Nat
      /\ Root(fw) \in Frames /\ Root(fw) \in Nat /\ Root(fw) < First(fw)
  BY FirstIs, TablesAt DEF Grown, Frames
<1>2. /\ m2 \in Memories
      /\ \A h \in Frames : h # nxt /\ h # f => m2[h] = m[h]
      /\ \A j \in Idx : j # i => m2[f][j] = m[f][j]
  BY DEF Opened
<1>3. \A h \in Frames : h \notin NewTables(fw, nxt + 1) => h \notin NewTables(fw, nxt) /\ h # nxt
  BY <1>1 DEF NewTables, Frames
<1>4. f \in NewTables(fw, nxt + 1) \/ (f = Root(fw) /\ i = N - 1)
  BY <1>1 DEF Way, NewTables
<1>5. Kept(m2, fw, nxt + 1)
  <2>1. ASSUME NEW h \in Frames, h \notin NewTables(fw, nxt + 1), h # Root(fw)
        PROVE  m2[h] = Made(fw)[h]
    <3>1. h # nxt /\ h # f /\ h \notin NewTables(fw, nxt)
      BY <1>3, <1>4, <2>1
    <3> QED
      BY <1>2, <2>1, <3>1 DEF Grown, Kept
  <2>2. ASSUME NEW j \in Idx, j # N - 1 PROVE m2[Root(fw)][j] = Made(fw)[Root(fw)][j]
    <3>1. m[Root(fw)][j] = Made(fw)[Root(fw)][j]
      BY <2>2 DEF Grown, Kept
    <3>2. CASE f = Root(fw)
      <4>1. f \notin NewTables(fw, nxt + 1)
        BY <1>1, <3>2 DEF NewTables
      <4> QED
        BY <1>2, <1>4, <2>2, <3>1, <3>2, <4>1
    <3>3. CASE f # Root(fw)
      BY <1>1, <1>2, <3>1, <3>3
    <3> QED
      BY <3>2, <3>3
  <2> QED
    BY <2>1, <2>2 DEF Kept
<1>6. \E lab2 : Labelled(m2, fw, nxt + 1, lab2)
  BY OpenedLabels
<1> QED
  BY <1>1, <1>2, <1>5, <1>6 DEF Grown

\* The tables on the way to a page of the kernel's part, as far as it goes.
PathIs(m, g, New, lab, b, c) ==
    LET t3 == m[g][N - 1].addr
        t2 == m[t3][b].addr
        t1 == m[t2][c].addr
    IN  /\ m[g][N - 1].p => t3 \in New /\ lab[t3] = Third
        /\ m[g][N - 1].p /\ m[t3][b].p => ~m[t3][b].big /\ t2 \in New /\ lab[t2] = Second(b)
        /\ m[g][N - 1].p /\ m[t3][b].p /\ m[t2][c].p =>
              ~m[t2][c].big /\ t1 \in New /\ lab[t1] = Bottom(b, c)

LEMMA NewPath ==
    ASSUME NEW fw, NEW m, NEW nxt, NEW lab, Labelled(m, fw, nxt, lab), NEW b \in Idx, NEW c \in Idx
    PROVE  PathIs(m, Root(fw), NewTables(fw, nxt), lab, b, c)
<1>1. PICK g, New : g = Root(fw) /\ New = NewTables(fw, nxt)
  OBVIOUS
<1>2. PICK t3, t2, t1 : t3 = m[g][N - 1].addr /\ t2 = m[t3][b].addr /\ t1 = m[t2][c].addr
  OBVIOUS
<1>3. m[g][N - 1].p => t3 \in New /\ lab[t3] = Third
  BY <1>1, <1>2 DEF Labelled, LeadsTo
<1>4. ASSUME m[g][N - 1].p, m[t3][b].p PROVE ~m[t3][b].big /\ t2 \in New /\ lab[t2] = Second(b)
  <2>1. \A f \in New, i \in Idx :
           lab[f] = Third /\ m[f][i].p => ~m[f][i].big /\ m[f][i].addr \in New /\ lab[m[f][i].addr] = Second(i)
    BY <1>1 DEF Labelled, LeadsTo
  <2> QED
    BY <1>2, <1>3, <1>4, <2>1
<1>5. ASSUME m[g][N - 1].p, m[t3][b].p, m[t2][c].p
      PROVE  ~m[t2][c].big /\ t1 \in New /\ lab[t1] = Bottom(b, c)
  <2>1. \A f \in New, i, b2 \in Idx :
           lab[f] = Second(b2) /\ m[f][i].p =>
               ~m[f][i].big /\ m[f][i].addr \in New /\ lab[m[f][i].addr] = Bottom(b2, i)
    BY <1>1 DEF Labelled, LeadsTo
  <2>2. t2 \in New /\ lab[t2] = Second(b)
    BY <1>4, <1>5
  <2> QED
    BY <1>2, <1>5, <2>1, <2>2, ZenonT(60)
<1>6. PathIs(m, g, New, lab, b, c)
  BY <1>2, <1>3, <1>4, <1>5 DEF PathIs
<1> QED
  BY <1>1, <1>6

(* An empty table at an absent entry maps nothing.                         *)
LEMMA OpenedWalks ==
    ASSUME NEW fw \in Firmwares, Ready(fw), NEW m, NEW nxt, Grown(m, fw, nxt), nxt < Limit(fw),
           NEW lab, Labelled(m, fw, nxt, lab),
           NEW f, NEW i \in Idx, NEW y, Way(fw, nxt, lab, f, i, y),
           NEW m2, Opened(m, m2, f, i, nxt),
           NEW b \in Idx, NEW c \in Idx, NEW d \in Idx
    PROVE  WalkOf(m2, Root(fw), N - 1, b, c, d) = WalkOf(m, Root(fw), N - 1, b, c, d)
<1>1. PICK g, New : g = Root(fw) /\ New = NewTables(fw, nxt)
  OBVIOUS
<1>2. PICK t3, t2, t1 : t3 = m[g][N - 1].addr /\ t2 = m[t3][b].addr /\ t1 = m[t2][c].addr
  OBVIOUS
<1>3. /\ First(fw) \in Nat /\ nxt \in Nat /\ First(fw) =< nxt /\ Limit(fw) \in Nat /\ Dst(fw) \in Nat
      /\ Dst(fw) < First(fw) /\ g \in Frames /\ g \in Nat /\ g < First(fw)
      /\ \A h \in Dst(fw) .. Limit(fw) - 1 : h \in Frames
  BY <1>1, FirstIs, TablesAt DEF Grown, Frames
<1>4. \A h \in New : h \in Frames /\ h # nxt /\ h # g
  BY <1>1, <1>3 DEF NewTables
<1>5. g # nxt /\ N - 1 \in Idx
  BY <1>3, Positive DEF Idx
<1>6. /\ ~m[f][i].p /\ m2[f][i] = To(nxt)
      /\ \A j \in Idx : ~m2[nxt][j].p
      /\ \A h \in Frames : h # nxt /\ h # f => m2[h] = m[h]
      /\ \A j \in Idx : j # i => m2[f][j] = m[f][j]
  BY DEF Opened
<1>7. \A h \in Frames, j \in Idx : h # nxt /\ ~(h = f /\ j = i) => m2[h][j] = m[h][j]
  BY <1>6
<1>8. To(nxt).p /\ ~To(nxt).big /\ To(nxt).addr = nxt
  BY <1>3, Entries
<1>9. /\ f = g => i = N - 1
      /\ f # g => f \in New /\ (lab[f] = Third \/ \E b2 \in Idx : lab[f] = Second(b2))
  BY <1>1, <1>4 DEF Way
<1>10. /\ m[g][N - 1].p => t3 \in New /\ lab[t3] = Third
       /\ m[g][N - 1].p /\ m[t3][b].p => ~m[t3][b].big /\ t2 \in New /\ lab[t2] = Second(b)
       /\ m[g][N - 1].p /\ m[t3][b].p /\ m[t2][c].p => ~m[t2][c].big /\ t1 \in New /\ lab[t1] = Bottom(b, c)
  <2>1. PathIs(m, g, New, lab, b, c)
    BY <1>1, NewPath
  <2> QED
    BY <1>2, <2>1 DEF PathIs
<1> DEFINE old == WalkOf(m, g, N - 1, b, c, d)  new == WalkOf(m2, g, N - 1, b, c, d)
<1>11. CASE f = g
  <2>1. old = Unmapped
    BY <1>6, <1>9, <1>11 DEF WalkOf
  <2>2. m2[g][N - 1].addr = nxt
    BY <1>6, <1>8, <1>9, <1>11
  <2>3. new = Unmapped
    BY <1>6, <2>2 DEF WalkOf
  <2> QED
    BY <1>1, <2>1, <2>3
<1>12. CASE f # g
  <2>1. m2[g][N - 1] = m[g][N - 1]
    BY <1>3, <1>5, <1>7, <1>12
  <2>2. CASE ~m[g][N - 1].p
    BY <1>1, <2>1, <2>2 DEF WalkOf
  <2>3. CASE m[g][N - 1].p
    <3>1. t3 \in New /\ lab[t3] = Third /\ t3 \in Frames /\ t3 # nxt
      BY <1>4, <1>10, <2>3
    <3>2. CASE t3 = f /\ b = i
      <4>1. old = Unmapped
        BY <1>2, <1>6, <3>2 DEF WalkOf
      <4>2. m2[t3][b].p /\ ~m2[t3][b].big /\ m2[t3][b].addr = nxt
        BY <1>6, <1>8, <3>2
      <4>3. new = Unmapped
        BY <1>2, <1>6, <2>1, <2>3, <4>2 DEF WalkOf
      <4> QED
        BY <1>1, <4>1, <4>3
    <3>3. CASE ~(t3 = f /\ b = i)
      <4>1. m2[t3][b] = m[t3][b]
        BY <1>7, <3>1, <3>3
      <4>2. CASE ~m[t3][b].p
        BY <1>1, <1>2, <2>1, <4>1, <4>2 DEF WalkOf
      <4>3. CASE m[t3][b].p
        <5>1. ~m[t3][b].big /\ t2 \in New /\ lab[t2] = Second(b) /\ t2 \in Frames /\ t2 # nxt
          BY <1>4, <1>10, <2>3, <4>3
        <5>2. CASE t2 = f /\ c = i
          <6>1. old = Unmapped
            BY <1>2, <1>6, <2>3, <4>3, <5>1, <5>2 DEF WalkOf
          <6>2. m2[t2][c].p /\ ~m2[t2][c].big /\ m2[t2][c].addr = nxt
            BY <1>6, <1>8, <5>2
          <6>3. new = Unmapped
            BY <1>2, <1>6, <2>1, <2>3, <4>1, <4>3, <5>1, <6>2, ZenonT(60) DEF WalkOf
          <6> QED
            BY <1>1, <6>1, <6>3
        <5>3. CASE ~(t2 = f /\ c = i)
          <6>1. m2[t2][c] = m[t2][c]
            BY <1>7, <5>1, <5>3
          <6>2. CASE ~m[t2][c].p
            BY <1>1, <1>2, <2>1, <4>1, <5>1, <6>1, <6>2, ZenonT(60) DEF WalkOf
          <6>3. CASE m[t2][c].p
            <7>1. ~m[t2][c].big /\ t1 \in New /\ lab[t1] = Bottom(b, c) /\ t1 \in Frames /\ t1 # nxt
              BY <1>4, <1>10, <2>3, <4>3, <6>3
            <7>2. t1 # f
              BY <1>9, <1>12, <7>1, Names
            <7>3. m2[t1][d] = m[t1][d]
              BY <1>7, <7>1, <7>2
            <7> QED
              BY <1>1, <1>2, <2>1, <4>1, <5>1, <6>1, <7>1, <7>3, ZenonT(60) DEF WalkOf
          <6> QED
            BY <6>2, <6>3
        <5> QED
          BY <5>2, <5>3
      <4> QED
        BY <4>2, <4>3
    <3> QED
      BY <3>2, <3>3
  <2> QED
    BY <2>2, <2>3
<1> QED
  BY <1>11, <1>12

\* Present entries of the tables on the way to the kernel's pages stay.
Stays(m, m2, fw, nxt) ==
    \A h \in {Root(fw)} \cup NewTables(fw, nxt), j \in Idx : m[h][j].p => m2[h][j] = m[h][j]

LEMMA NewTablesAt ==
    ASSUME NEW fw \in Firmwares, Ready(fw), NEW nxt \in Nat, nxt =< Limit(fw)
    PROVE  /\ \A h \in {Root(fw)} \cup NewTables(fw, nxt) : h \in Frames
           /\ First(fw) =< nxt => nxt # Root(fw)
           /\ First(fw) =< nxt /\ nxt < Limit(fw) => nxt \in Frames
           /\ \A h \in NewTables(fw, nxt) : h \in Frames /\ h # Root(fw) /\ h # nxt
<1>1. /\ First(fw) \in Nat /\ Limit(fw) \in Nat /\ Dst(fw) \in Nat
      /\ Dst(fw) < First(fw) /\ Root(fw) \in Frames /\ Root(fw) \in Nat /\ Root(fw) < First(fw)
      /\ \A h \in Dst(fw) .. Limit(fw) - 1 : h \in Frames
  BY FirstIs, TablesAt DEF Frames
<1>2. \A h \in NewTables(fw, nxt) : h \in Nat /\ h \in Dst(fw) .. Limit(fw) - 1 /\ h # Root(fw) /\ h # nxt
  BY <1>1 DEF NewTables
<1>3. First(fw) =< nxt /\ nxt < Limit(fw) => nxt \in Dst(fw) .. Limit(fw) - 1
  BY <1>1
<1> QED
  BY <1>1, <1>2, <1>3

\* One level of map_page below a table on the way to the kernel's pages.
Deeper(fw, st, lab, i, y, t) ==
    /\ IsState(t) /\ Grown(t.m, fw, t.next) /\ st.next =< t.next
    /\ t.m[st.at][i].p /\ t.m[st.at][i].addr = t.at
    /\ Stays(st.m, t.m, fw, st.next)
    /\ \E lab2 : /\ Labelled(t.m, fw, t.next, lab2)
                 /\ \A h \in NewTables(fw, st.next) : lab2[h] = lab[h]
                 /\ LeadsTo(fw, t.next, lab2, t.at, y)
    /\ \A b, c, d \in Idx :
         WalkOf(t.m, Root(fw), N - 1, b, c, d) = WalkOf(st.m, Root(fw), N - 1, b, c, d)

(* A level of map_page keeps the form of the tables and what they map.     *)
LEMMA Descended ==
    ASSUME NEW fw \in Firmwares, Ready(fw), NEW st, IsState(st), Grown(st.m, fw, st.next),
           NEW lab, Labelled(st.m, fw, st.next, lab),
           NEW i \in Idx, NEW y, Way(fw, st.next, lab, st.at, i, y),
           NEW t, t = Descend(st, i), t.next =< Limit(fw)
    PROVE  Deeper(fw, st, lab, i, y, t)
<1>1. PICK m, nxt, at : m = st.m /\ nxt = st.next /\ at = st.at
  OBVIOUS
<1>2. /\ IsState(t) /\ nxt =< t.next
      /\ m[at][i].p => t.m = m /\ t.next = nxt /\ t.at = m[at][i].addr
      /\ ~m[at][i].p => /\ t.next = nxt + 1 /\ t.at = nxt
                        /\ at \in Frames /\ nxt \in Frames /\ at # nxt => Opened(m, t.m, at, i, nxt)
  BY <1>1, DescendTyped
<1>3. Grown(m, fw, nxt) /\ Labelled(m, fw, nxt, lab) /\ Way(fw, nxt, lab, at, i, y)
  BY <1>1
<1>4. nxt \in Nat /\ First(fw) =< nxt /\ nxt =< Limit(fw) /\ First(fw) \in Nat /\ Limit(fw) \in Nat
  BY <1>3, FirstIs DEF Grown
<1>5. at \in Frames /\ at # nxt /\ at \in {Root(fw)} \cup NewTables(fw, nxt)
  <2>1. at \in {Root(fw)} \cup NewTables(fw, nxt)
    BY <1>3 DEF Way
  <2>2. Root(fw) \in Frames
    BY TablesAt
  <2> QED
    BY <1>4, <2>1, <2>2, NewTablesAt
<1>6. CASE m[at][i].p
  <2>1. LeadsTo(fw, nxt, lab, m[at][i].addr, y)
    <3>1. CASE at = Root(fw) /\ i = N - 1 /\ y = Third
      BY <1>3, <1>6, <3>1 DEF Labelled
    <3>2. CASE at \in NewTables(fw, nxt) /\ lab[at] = Third /\ y = Second(i)
      BY <1>3, <1>6, <3>2 DEF Labelled
    <3>3. CASE at \in NewTables(fw, nxt) /\ \E b \in Idx : lab[at] = Second(b) /\ y = Bottom(b, i)
      BY <1>3, <1>6, <3>3 DEF Labelled
    <3> QED
      BY <1>3, <3>1, <3>2, <3>3 DEF Way
  <2>2. t.m = m /\ t.next = nxt /\ t.at = m[at][i].addr
    BY <1>2, <1>6
  <2>3. Stays(m, t.m, fw, nxt)
    BY <2>2 DEF Stays
  <2>4. \E lab2 : /\ Labelled(t.m, fw, t.next, lab2)
                  /\ \A h \in NewTables(fw, nxt) : lab2[h] = lab[h]
                  /\ LeadsTo(fw, t.next, lab2, t.at, y)
    BY <1>3, <2>1, <2>2
  <2> QED
    BY <1>1, <1>2, <1>3, <1>6, <2>2, <2>3, <2>4 DEF Deeper
<1>7. CASE ~m[at][i].p
  <2>1. t.next = nxt + 1 /\ t.at = nxt /\ nxt < Limit(fw)
    BY <1>2, <1>4, <1>7
  <2>2. nxt \in Frames
    BY <1>4, <2>1, NewTablesAt
  <2>3. Opened(m, t.m, at, i, nxt)
    BY <1>2, <1>5, <1>7, <2>2
  <2>4. Grown(t.m, fw, nxt + 1)
    BY <1>3, <2>1, <2>3, OpenedGrown
  <2>5. \E lab2 : /\ Labelled(t.m, fw, nxt + 1, lab2)
                  /\ \A h \in NewTables(fw, nxt) : lab2[h] = lab[h]
                  /\ LeadsTo(fw, nxt + 1, lab2, nxt, y)
    BY <1>3, <2>1, <2>3, OpenedLabels
  <2>6. \A b, c, d \in Idx :
           WalkOf(t.m, Root(fw), N - 1, b, c, d) = WalkOf(m, Root(fw), N - 1, b, c, d)
    BY <1>3, <2>1, <2>3, OpenedWalks
  <2>7. t.m[at][i].p /\ t.m[at][i].addr = nxt
    BY <1>4, <2>3, Entries DEF Opened
  <2>8. Stays(m, t.m, fw, nxt)
    <3>1. ASSUME NEW h \in {Root(fw)} \cup NewTables(fw, nxt), NEW j \in Idx, m[h][j].p
          PROVE  t.m[h][j] = m[h][j]
      <4>1. h \in Frames /\ h # nxt
        BY <1>4, <3>1, NewTablesAt, TablesAt
      <4> QED
        BY <1>7, <2>3, <3>1, <4>1 DEF Opened
    <3> QED
      BY <3>1 DEF Stays
  <2> QED
    BY <1>1, <1>2, <2>1, <2>4, <2>5, <2>6, <2>7, <2>8 DEF Deeper
<1> QED
  BY <1>6, <1>7

\* Table a of the last level is reached through the entries b and c.
Path(m, g, b, c, a) ==
    LET t3 == m[g][N - 1].addr
        t2 == m[t3][b].addr
    IN  m[g][N - 1].p /\ m[t3][b].p /\ m[t2][c].p /\ m[t2][c].addr = a

(* An entry of a table of the last level changes no name.                  *)
LEMMA LeafGrown ==
    ASSUME NEW fw \in Firmwares, Ready(fw), NEW m, NEW nxt, Grown(m, fw, nxt),
           NEW lab, Labelled(m, fw, nxt, lab), NEW b \in Idx, NEW c \in Idx, NEW d \in Idx,
           NEW a, LeadsTo(fw, nxt, lab, a, Bottom(b, c)),
           NEW e \in Entry, NEW m2, EntryPut(m, a, d, e, m2)
    PROVE  Grown(m2, fw, nxt) /\ Labelled(m2, fw, nxt, lab)
<1>1. PICK g, New : g = Root(fw) /\ New = NewTables(fw, nxt)
  OBVIOUS
<1>2. m \in Memories /\ Kept(m, fw, nxt) /\ nxt \in Nat /\ First(fw) =< nxt /\ nxt =< Limit(fw)
  BY DEF Grown
<1>3. m2 \in Memories /\ \A h \in Frames : h # a => m2[h] = m[h]
  <2>1. m2 \in Memories /\ OnlyAt(m, a, d, e, m2)
    BY <1>2, EntryPutIs
  <2> QED
    BY <2>1 DEF OnlyAt
<1>4. a \in New /\ lab[a] = Bottom(b, c) /\ a # g /\ g \in Frames /\ \A h \in New : h \in Frames
  BY <1>1, <1>2, NewTablesAt, TablesAt DEF LeadsTo
<1>5. m2[g] = m[g] /\ \A h \in New, i \in Idx : lab[h] = Third \/ lab[h] = Second(i) => m2[h] = m[h]
  BY <1>3, <1>4, Names
<1>6. Kept(m2, fw, nxt)
  BY <1>1, <1>2, <1>3, <1>4, <1>5 DEF Kept
<1>7. m2[g][N - 1].p => LeadsTo(fw, nxt, lab, m2[g][N - 1].addr, Third)
  BY <1>1, <1>5 DEF Labelled
<1>8. \A f \in New, i \in Idx :
         lab[f] = Third /\ m2[f][i].p =>
             ~m2[f][i].big /\ LeadsTo(fw, nxt, lab, m2[f][i].addr, Second(i))
  BY <1>1, <1>5 DEF Labelled
<1>9. \A f \in New, i, b2 \in Idx :
         lab[f] = Second(b2) /\ m2[f][i].p =>
             ~m2[f][i].big /\ LeadsTo(fw, nxt, lab, m2[f][i].addr, Bottom(b2, i))
  BY <1>1, <1>5 DEF Labelled
<1>10. Labelled(m2, fw, nxt, lab)
  BY <1>1, <1>7, <1>8, <1>9 DEF Labelled
<1> QED
  BY <1>2, <1>3, <1>6, <1>10 DEF Grown

(* It maps its page and changes no other one.                              *)
LEMMA LeafWalks ==
    ASSUME NEW fw \in Firmwares, Ready(fw), NEW m, NEW nxt, Grown(m, fw, nxt),
           NEW lab, Labelled(m, fw, nxt, lab), NEW b \in Idx, NEW c \in Idx, NEW d \in Idx,
           NEW a, LeadsTo(fw, nxt, lab, a, Bottom(b, c)), Path(m, Root(fw), b, c, a),
           NEW e \in Entry, e.p, NEW m2, EntryPut(m, a, d, e, m2),
           NEW b2 \in Idx, NEW c2 \in Idx, NEW d2 \in Idx
    PROVE  WalkOf(m2, Root(fw), N - 1, b2, c2, d2) =
               IF b2 = b /\ c2 = c /\ d2 = d THEN e.addr ELSE WalkOf(m, Root(fw), N - 1, b2, c2, d2)
<1>1. PICK g, New : g = Root(fw) /\ New = NewTables(fw, nxt)
  OBVIOUS
<1>2. PICK t3, t2, t1 : t3 = m[g][N - 1].addr /\ t2 = m[t3][b2].addr /\ t1 = m[t2][c2].addr
  OBVIOUS
<1>3. m \in Memories /\ nxt \in Nat /\ nxt =< Limit(fw)
  BY DEF Grown
<1>4. /\ \A h \in Frames : h # a => m2[h] = m[h]
      /\ a \in Frames => m2[a][d] = e /\ \A j \in Idx : j # d => m2[a][j] = m[a][j]
  <2>1. m2 \in Memories /\ OnlyAt(m, a, d, e, m2)
    BY <1>3, EntryPutIs
  <2> QED
    BY <2>1 DEF OnlyAt
<1>5. a \in New /\ lab[a] = Bottom(b, c) /\ a # g /\ g \in Frames /\ \A h \in New : h \in Frames
  BY <1>1, <1>3, NewTablesAt, TablesAt DEF LeadsTo
<1>6. PathIs(m, g, New, lab, b2, c2)
  BY <1>1, NewPath
<1>7. m2[g] = m[g]
  BY <1>4, <1>5
<1>8. CASE ~m[g][N - 1].p
  <2>1. ~(b2 = b /\ c2 = c)
    BY <1>1, <1>8 DEF Path
  <2> QED
    BY <1>1, <1>7, <1>8, <2>1, ZenonT(60) DEF WalkOf
<1>9. CASE m[g][N - 1].p
  <2>1. t3 \in New /\ lab[t3] = Third
    BY <1>2, <1>6, <1>9 DEF PathIs
  <2>2. m2[t3] = m[t3]
    BY <1>4, <1>5, <2>1, Names
  <2>3. CASE ~m[t3][b2].p
    <3>1. ~(b2 = b /\ c2 = c)
      BY <1>1, <1>2, <2>3 DEF Path
    <3> QED
      BY <1>1, <1>2, <1>7, <2>2, <2>3, <3>1, ZenonT(60) DEF WalkOf
  <2>4. CASE m[t3][b2].p
    <3>1. ~m[t3][b2].big /\ t2 \in New /\ lab[t2] = Second(b2)
      BY <1>2, <1>6, <1>9, <2>4 DEF PathIs
    <3>2. m2[t2] = m[t2]
      BY <1>4, <1>5, <3>1, Names
    <3>3. CASE ~m[t2][c2].p
      <4>1. ~(b2 = b /\ c2 = c)
        BY <1>1, <1>2, <3>3 DEF Path
      <4> QED
        BY <1>1, <1>2, <1>7, <2>2, <3>1, <3>2, <3>3, <4>1, ZenonT(60) DEF WalkOf
    <3>4. CASE m[t2][c2].p
      <4>1. ~m[t2][c2].big /\ t1 \in New /\ lab[t1] = Bottom(b2, c2)
        BY <1>2, <1>6, <1>9, <2>4, <3>4, ZenonT(60) DEF PathIs
      <4>2. WalkOf(m, g, N - 1, b2, c2, d2) = IF m[t1][d2].p THEN m[t1][d2].addr ELSE Unmapped
        BY <1>2, <1>9, <2>4, <3>1, <3>4, <4>1, ZenonT(60) DEF WalkOf
      <4>3. WalkOf(m2, g, N - 1, b2, c2, d2) = IF m2[t1][d2].p THEN m2[t1][d2].addr ELSE Unmapped
        BY <1>2, <1>7, <1>9, <2>2, <2>4, <3>1, <3>2, <3>4, <4>1, ZenonT(60) DEF WalkOf
      <4>4. CASE b2 = b /\ c2 = c /\ d2 = d
        <5>1. t1 = a
          BY <1>1, <1>2, <4>4 DEF Path
        <5> QED
          BY <1>1, <1>4, <1>5, <4>3, <4>4, <5>1
      <4>5. CASE ~(b2 = b /\ c2 = c /\ d2 = d)
        <5>1. ~(t1 = a /\ d2 = d)
          BY <1>5, <4>1, <4>5, Names
        <5>2. m2[t1][d2] = m[t1][d2]
          BY <1>4, <1>5, <4>1, <5>1
        <5> QED
          BY <1>1, <4>2, <4>3, <4>5, <5>2
      <4> QED
        BY <4>4, <4>5
    <3> QED
      BY <3>3, <3>4
  <2> QED
    BY <2>3, <2>4
<1> QED
  BY <1>8, <1>9

-----------------------------------------------------------------------------
(* map_page *)

\* The last step of map_page, in table s.at.
Leaf(s, d, f, t) ==
    \/ s.m[s.at][d].p /\ t = s
    \/ /\ ~s.m[s.at][d].p /\ t.next = s.next /\ t.available = s.available
       /\ EntryPut(s.m, s.at, d, To(f), t.m)

LEMMA MapPageSteps ==
    ASSUME NEW st, IsState(st), NEW n \in Nat, NEW f \in Nat, NEW t, t = MapPage(st, n, f)
    PROVE  \E s0, s1, s2, s3 :
             /\ IsState(s0) /\ s0.at = cr3
             /\ s0.m = st.m /\ s0.next = st.next /\ s0.available = st.available
             /\ s1 = Descend(s0, IndexOf(n)[1]) /\ IsState(s1)
             /\ s2 = Descend(s1, IndexOf(n)[2]) /\ IsState(s2)
             /\ s3 = Descend(s2, IndexOf(n)[3]) /\ IsState(s3)
             /\ Leaf(s3, IndexOf(n)[4], f, t) /\ IsState(t)
<1>1. PICK s0 : s0 = [st EXCEPT !.at = cr3]
  OBVIOUS
<1>2. PICK s1 : s1 = Descend(s0, IndexOf(n)[1])
  OBVIOUS
<1>3. PICK s2 : s2 = Descend(s1, IndexOf(n)[2])
  OBVIOUS
<1>4. PICK s3 : s3 = Descend(s2, IndexOf(n)[3])
  OBVIOUS
<1>5. PICK d : d = IndexOf(n)[4]
  OBVIOUS
<1>6. IndexOf(n)[1] \in Idx /\ IndexOf(n)[2] \in Idx /\ IndexOf(n)[3] \in Idx /\ d \in Idx
  BY <1>5, InTable
<1>7. /\ s0 = [m |-> st.m, next |-> st.next, available |-> st.available, at |-> cr3]
      /\ st.m \in Memories /\ st.next \in Nat /\ st.available \in Int
  BY <1>1 DEF IsState
<1>8. /\ s0.at = cr3 /\ s0.m = st.m /\ s0.next = st.next /\ s0.available = st.available
      /\ IsState(s0)
  BY <1>7 DEF IsState
<1>9. IsState(s1)
  BY <1>2, <1>6, <1>8, DescendTyped
<1>10. IsState(s2)
  BY <1>3, <1>6, <1>9, DescendTyped
<1>11. IsState(s3)
  BY <1>4, <1>6, <1>10, DescendTyped
<1>12. t = IF s3.m[s3.at][d].p THEN s3 ELSE [s3 EXCEPT !.m[s3.at][d] = To(f)]
  BY <1>1, <1>2, <1>3, <1>4, <1>5 DEF MapPage
<1>13. CASE s3.m[s3.at][d].p
  <2>1. t = s3
    BY <1>12, <1>13
  <2>2. Leaf(s3, d, f, t) /\ IsState(t)
    BY <1>11, <1>13, <2>1 DEF Leaf
  <2> QED
    BY <1>2, <1>3, <1>4, <1>5, <1>8, <1>9, <1>10, <1>11, <2>2
<1>14. CASE ~s3.m[s3.at][d].p
  <2>1. PICK m, nx, av, at : m = s3.m /\ nx = s3.next /\ av = s3.available /\ at = s3.at
    OBVIOUS
  <2>2. s3 = [m |-> m, next |-> nx, available |-> av, at |-> at] /\ m \in Memories /\ nx \in Nat /\ av \in Int
    BY <1>11, <2>1 DEF IsState
  <2>3. PICK m2 : EntryPut(m, at, d, To(f), m2)
    BY DEF EntryPut
  <2>4. t = [s3 EXCEPT !.m[at][d] = To(f)]
    BY <1>12, <1>14, <2>1
  <2>5. t = [m |-> m2, next |-> nx, available |-> av, at |-> at]
    BY <2>2, <2>3, <2>4 DEF EntryPut
  <2>6. t.m = m2 /\ t.next = nx /\ t.available = av /\ t.at = at
    BY <2>5
  <2>7. m2 \in Memories
    BY <1>6, <2>2, <2>3, EntryPutIs, Entries
  <2>8. IsState(t)
    BY <2>2, <2>5, <2>6, <2>7 DEF IsState
  <2>9. Leaf(s3, d, f, t)
    BY <1>14, <2>1, <2>3, <2>6 DEF Leaf
  <2> QED
    BY <1>2, <1>3, <1>4, <1>5, <1>8, <1>9, <1>10, <1>11, <2>8, <2>9
<1> QED
  BY <1>13, <1>14

\* What is taken and what is available.
Supply(st) == st.next + st.available

(* Pages are only taken, and each one taken is one fewer available.        *)
LEMMA MapPageTyped ==
    ASSUME NEW st, IsState(st), NEW n \in Nat, NEW f \in Nat, NEW t, t = MapPage(st, n, f)
    PROVE  IsState(t) /\ st.next =< t.next /\ Supply(t) = Supply(st)
<1>1. PICK s0, s1, s2, s3 :
             /\ IsState(s0) /\ s0.at = cr3
             /\ s0.m = st.m /\ s0.next = st.next /\ s0.available = st.available
             /\ s1 = Descend(s0, IndexOf(n)[1]) /\ IsState(s1)
             /\ s2 = Descend(s1, IndexOf(n)[2]) /\ IsState(s2)
             /\ s3 = Descend(s2, IndexOf(n)[3]) /\ IsState(s3)
             /\ Leaf(s3, IndexOf(n)[4], f, t) /\ IsState(t)
  BY MapPageSteps
<1>2. IndexOf(n)[1] \in Idx /\ IndexOf(n)[2] \in Idx /\ IndexOf(n)[3] \in Idx
  BY InTable
<1>3. s0.next =< s1.next /\ s1.next + s1.available = s0.next + s0.available
  <2>1. IsState(s0) /\ s1 = Descend(s0, IndexOf(n)[1]) /\ IndexOf(n)[1] \in Idx
    BY <1>1, <1>2
  <2> QED
    BY <2>1, DescendTyped
<1>4. s1.next =< s2.next /\ s2.next + s2.available = s1.next + s1.available
  <2>1. IsState(s1) /\ s2 = Descend(s1, IndexOf(n)[2]) /\ IndexOf(n)[2] \in Idx
    BY <1>1, <1>2
  <2> QED
    BY <2>1, DescendTyped
<1>5. s2.next =< s3.next /\ s3.next + s3.available = s2.next + s2.available
  <2>1. IsState(s2) /\ s3 = Descend(s2, IndexOf(n)[3]) /\ IndexOf(n)[3] \in Idx
    BY <1>1, <1>2
  <2> QED
    BY <2>1, DescendTyped
<1>6. t.next = s3.next /\ t.available = s3.available
  BY <1>1 DEF Leaf
<1>7. s0.next \in Nat /\ s1.next \in Nat /\ s2.next \in Nat /\ s3.next \in Nat
  BY <1>1 DEF IsState
<1>8. Supply(t) = Supply(st)
  BY <1>1, <1>3, <1>4, <1>5, <1>6, <1>7 DEF Supply
<1> QED
  BY <1>1, <1>3, <1>4, <1>5, <1>6, <1>7, <1>8

(* The way to a page of the kernel's part, made where it was not.          *)
LEMMA ThreeLevels ==
    ASSUME NEW fw \in Firmwares, Ready(fw), NEW b \in Idx, NEW c \in Idx,
           NEW s0, IsState(s0), s0.at = Root(fw), Grown(s0.m, fw, s0.next),
           NEW s1, s1 = Descend(s0, N - 1), NEW s2, s2 = Descend(s1, b),
           NEW s3, s3 = Descend(s2, c), s3.next =< Limit(fw)
    PROVE  /\ Grown(s3.m, fw, s3.next)
           /\ \E lab : Labelled(s3.m, fw, s3.next, lab) /\ LeadsTo(fw, s3.next, lab, s3.at, Bottom(b, c))
           /\ Path(s3.m, Root(fw), b, c, s3.at)
           /\ \A b2, c2, d2 \in Idx :
                WalkOf(s3.m, Root(fw), N - 1, b2, c2, d2) = WalkOf(s0.m, Root(fw), N - 1, b2, c2, d2)
<1>1. N - 1 \in Idx
  BY Positive DEF Idx
<1>2. IsState(s1) /\ s0.next =< s1.next
  BY <1>1, DescendTyped
<1>3. IsState(s2) /\ s1.next =< s2.next
  BY <1>2, DescendTyped
<1>4. IsState(s3) /\ s2.next =< s3.next
  BY <1>3, DescendTyped
<1>5. s1.next =< Limit(fw) /\ s2.next =< Limit(fw)
  <2>1. s1.next \in Nat /\ s2.next \in Nat /\ s3.next \in Nat
    BY <1>2, <1>3, <1>4 DEF IsState
  <2>2. Limit(fw) \in Nat
    BY FirstIs
  <2> QED
    BY <1>3, <1>4, <2>1, <2>2
<1>6. PICK lab0 : Labelled(s0.m, fw, s0.next, lab0)
  BY DEF Grown
<1>7. Way(fw, s0.next, lab0, s0.at, N - 1, Third)
  BY DEF Way
<1>8. Deeper(fw, s0, lab0, N - 1, Third, s1)
  BY <1>1, <1>5, <1>6, <1>7, Descended
<1>9. PICK lab1 : Labelled(s1.m, fw, s1.next, lab1) /\ LeadsTo(fw, s1.next, lab1, s1.at, Third)
  BY <1>8 DEF Deeper
<1>10. Way(fw, s1.next, lab1, s1.at, b, Second(b))
  BY <1>9 DEF Way, LeadsTo
<1>11. Grown(s1.m, fw, s1.next)
  BY <1>8 DEF Deeper
<1>12. Deeper(fw, s1, lab1, b, Second(b), s2)
  BY <1>2, <1>5, <1>9, <1>10, <1>11, Descended
<1>13. PICK lab2 : Labelled(s2.m, fw, s2.next, lab2) /\ LeadsTo(fw, s2.next, lab2, s2.at, Second(b))
  BY <1>12 DEF Deeper
<1>14. Way(fw, s2.next, lab2, s2.at, c, Bottom(b, c))
  BY <1>13 DEF Way, LeadsTo
<1>15. Grown(s2.m, fw, s2.next)
  BY <1>12 DEF Deeper
<1>16. Deeper(fw, s2, lab2, c, Bottom(b, c), s3)
  BY <1>3, <1>13, <1>14, <1>15, Descended
<1>17. Path(s3.m, Root(fw), b, c, s3.at)
  <2>1. PICK g, a1, a2, m1, m2, m3 : g = Root(fw) /\ a1 = s1.at /\ a2 = s2.at /\ m1 = s1.m /\ m2 = s2.m /\ m3 = s3.m
    OBVIOUS
  <2>2. m1[g][N - 1].p /\ m1[g][N - 1].addr = a1
    BY <1>8, <2>1 DEF Deeper
  <2>3. m2[a1][b].p /\ m2[a1][b].addr = a2
    BY <1>12, <2>1 DEF Deeper
  <2>4. m3[a2][c].p /\ m3[a2][c].addr = s3.at
    BY <1>16, <2>1 DEF Deeper
  <2>5. m2[g][N - 1] = m1[g][N - 1]
    BY <1>1, <1>12, <2>1, <2>2 DEF Deeper, Stays
  <2>6. m3[g][N - 1] = m2[g][N - 1]
    BY <1>1, <1>16, <2>1, <2>2, <2>5 DEF Deeper, Stays
  <2>7. a1 \in NewTables(fw, s2.next)
    <3>1. a1 \in NewTables(fw, s1.next)
      BY <1>9, <2>1 DEF LeadsTo
    <3>2. s1.next \in Nat /\ s2.next \in Nat /\ First(fw) \in Nat
      BY <1>2, <1>3, FirstIs DEF IsState
    <3> QED
      BY <1>3, <3>1, <3>2 DEF NewTables
  <2>8. m3[a1][b] = m2[a1][b]
    BY <1>16, <2>1, <2>3, <2>7 DEF Deeper, Stays
  <2>9. Path(m3, g, b, c, s3.at)
    BY <2>2, <2>3, <2>4, <2>5, <2>6, <2>8 DEF Path
  <2> QED
    BY <2>1, <2>9
<1>18. ASSUME NEW b2 \in Idx, NEW c2 \in Idx, NEW d2 \in Idx
       PROVE  WalkOf(s3.m, Root(fw), N - 1, b2, c2, d2) = WalkOf(s0.m, Root(fw), N - 1, b2, c2, d2)
  <2>1. WalkOf(s3.m, Root(fw), N - 1, b2, c2, d2) = WalkOf(s2.m, Root(fw), N - 1, b2, c2, d2)
    BY <1>16 DEF Deeper
  <2>2. WalkOf(s2.m, Root(fw), N - 1, b2, c2, d2) = WalkOf(s1.m, Root(fw), N - 1, b2, c2, d2)
    BY <1>12 DEF Deeper
  <2>3. WalkOf(s1.m, Root(fw), N - 1, b2, c2, d2) = WalkOf(s0.m, Root(fw), N - 1, b2, c2, d2)
    BY <1>8 DEF Deeper
  <2> QED
    BY <2>1, <2>2, <2>3
<1> QED
  BY <1>16, <1>17, <1>18 DEF Deeper

\* Page n of the kernel's part leads to frame f if it led nowhere.
Added(m, m2, r, n, f) ==
    \A k \in KernelPages :
        Translate(m2, r, k) = IF k = n /\ Translate(m, r, n) = Unmapped THEN f ELSE Translate(m, r, k)

(* map_page maps its page, unless that is mapped, and changes no other.    *)
LEMMA MapPageGrown ==
    ASSUME NEW fw \in Firmwares, Ready(fw), cr3 = Root(fw),
           NEW st, IsState(st), Grown(st.m, fw, st.next),
           NEW n \in KernelPages, NEW f \in Nat, NEW t, t = MapPage(st, n, f), t.next =< Limit(fw)
    PROVE  Grown(t.m, fw, t.next) /\ Added(st.m, t.m, Root(fw), n, f)
<1>1. n \in Nat /\ IndexOf(n)[1] = N - 1 /\ \A l \in 1 .. 4 : IndexOf(n)[l] \in Idx
  BY KernelIndex, InTable
<1>2. PICK b, c, d : b = IndexOf(n)[2] /\ c = IndexOf(n)[3] /\ d = IndexOf(n)[4]
  OBVIOUS
<1>3. b \in Idx /\ c \in Idx /\ d \in Idx
  BY <1>1, <1>2
<1>4. PICK s0, s1, s2, s3 :
             /\ IsState(s0) /\ s0.at = cr3
             /\ s0.m = st.m /\ s0.next = st.next /\ s0.available = st.available
             /\ s1 = Descend(s0, IndexOf(n)[1]) /\ IsState(s1)
             /\ s2 = Descend(s1, IndexOf(n)[2]) /\ IsState(s2)
             /\ s3 = Descend(s2, IndexOf(n)[3]) /\ IsState(s3)
             /\ Leaf(s3, IndexOf(n)[4], f, t) /\ IsState(t)
  BY <1>1, MapPageSteps
<1>5. PICK m, nxt, a, m2, g :
        m = s3.m /\ nxt = s3.next /\ a = s3.at /\ m2 = t.m /\ g = Root(fw)
  OBVIOUS
<1>6. t.next = nxt
  BY <1>4, <1>5 DEF Leaf
<1>7. /\ Grown(m, fw, nxt)
      /\ \E lab : Labelled(m, fw, nxt, lab) /\ LeadsTo(fw, nxt, lab, a, Bottom(b, c))
      /\ Path(m, g, b, c, a)
      /\ \A b2, c2, d2 \in Idx : WalkOf(m, g, N - 1, b2, c2, d2) = WalkOf(st.m, g, N - 1, b2, c2, d2)
  <2>1. s0.at = Root(fw) /\ Grown(s0.m, fw, s0.next) /\ IsState(s0)
    BY <1>4
  <2>2. s1 = Descend(s0, N - 1) /\ s2 = Descend(s1, b) /\ s3 = Descend(s2, c)
    BY <1>1, <1>2, <1>4
  <2>3. s3.next =< Limit(fw)
    BY <1>5, <1>6
  <2>4. s0.m = st.m
    BY <1>4
  <2>5. /\ Grown(s3.m, fw, s3.next)
        /\ \E lab : Labelled(s3.m, fw, s3.next, lab) /\ LeadsTo(fw, s3.next, lab, s3.at, Bottom(b, c))
        /\ Path(s3.m, Root(fw), b, c, s3.at)
        /\ \A b2, c2, d2 \in Idx :
             WalkOf(s3.m, Root(fw), N - 1, b2, c2, d2) = WalkOf(s0.m, Root(fw), N - 1, b2, c2, d2)
    BY <1>3, <2>1, <2>2, <2>3, ThreeLevels
  <2> QED
    BY <1>5, <2>4, <2>5
<1>8. PICK lab : Labelled(m, fw, nxt, lab) /\ LeadsTo(fw, nxt, lab, a, Bottom(b, c))
  BY <1>7
<1>9. PathIs(m, g, NewTables(fw, nxt), lab, b, c)
  BY <1>3, <1>5, <1>8, NewPath
<1>10. WalkOf(m, g, N - 1, b, c, d) = IF m[a][d].p THEN m[a][d].addr ELSE Unmapped
  BY <1>7, <1>9 DEF PathIs, Path, WalkOf
<1>11. Translate(st.m, g, n) = IF m[a][d].p THEN m[a][d].addr ELSE Unmapped
  BY <1>1, <1>2, <1>3, <1>7, <1>10, TranslateWalks
<1>12. ASSUME NEW k \in KernelPages
       PROVE  /\ \A x : Translate(x, g, k) = WalkOf(x, g, N - 1, IndexOf(k)[2], IndexOf(k)[3], IndexOf(k)[4])
              /\ IndexOf(k)[2] \in Idx /\ IndexOf(k)[3] \in Idx /\ IndexOf(k)[4] \in Idx
              /\ Translate(m, g, k) = Translate(st.m, g, k)
              /\ k = n <=> IndexOf(k)[2] = b /\ IndexOf(k)[3] = c /\ IndexOf(k)[4] = d
  <2>1. k \in Nat /\ IndexOf(k)[1] = N - 1
    BY KernelIndex
  <2>2. IndexOf(k)[2] \in Idx /\ IndexOf(k)[3] \in Idx /\ IndexOf(k)[4] \in Idx
    BY <2>1, InTable
  <2>3. \A x : Translate(x, g, k) = WalkOf(x, g, N - 1, IndexOf(k)[2], IndexOf(k)[3], IndexOf(k)[4])
    BY <2>1, TranslateWalks
  <2>4. k = n <=> IndexOf(k)[2] = b /\ IndexOf(k)[3] = c /\ IndexOf(k)[4] = d
    BY <1>2, KernelUnique
  <2> QED
    BY <1>7, <2>2, <2>3, <2>4
<1>13. CASE m[a][d].p
  <2>1. m2 = m
    BY <1>2, <1>4, <1>5, <1>13 DEF Leaf
  <2>2. m[a][d].addr \in Nat
    <3>1. a \in Frames /\ m \in Memories
      BY <1>7, <1>8, NewTablesAt DEF LeadsTo, Grown
    <3> QED
      BY <1>3, <3>1 DEF Memories, Entry
  <2>3. Translate(st.m, g, n) # Unmapped
    BY <1>11, <1>13, <2>2 DEF Unmapped
  <2>4. Added(st.m, m2, g, n, f)
    BY <1>12, <2>1, <2>3 DEF Added
  <2> QED
    BY <1>5, <1>6, <1>7, <2>1, <2>4
<1>14. CASE ~m[a][d].p
  <2>1. EntryPut(m, a, d, To(f), m2)
    BY <1>2, <1>4, <1>5, <1>14 DEF Leaf
  <2>2. To(f) \in Entry /\ To(f).p /\ To(f).addr = f
    BY Entries
  <2>3. Grown(m2, fw, nxt)
    BY <1>3, <1>7, <1>8, <2>1, <2>2, LeafGrown
  <2>4. \A b2, c2, d2 \in Idx : WalkOf(m2, g, N - 1, b2, c2, d2) =
               IF b2 = b /\ c2 = c /\ d2 = d THEN f ELSE WalkOf(m, g, N - 1, b2, c2, d2)
    <3>1. PICK e : e = To(f)
      OBVIOUS
    <3>2. e \in Entry /\ e.p /\ e.addr = f /\ EntryPut(m, a, d, e, m2)
      BY <2>1, <2>2, <3>1
    <3>3. Path(m, Root(fw), b, c, a)
      BY <1>5, <1>7
    <3>4. \A b2, c2, d2 \in Idx : WalkOf(m2, Root(fw), N - 1, b2, c2, d2) =
               IF b2 = b /\ c2 = c /\ d2 = d THEN e.addr ELSE WalkOf(m, Root(fw), N - 1, b2, c2, d2)
      BY <1>3, <1>7, <1>8, <3>2, <3>3, LeafWalks
    <3> QED
      BY <1>5, <3>2, <3>4
  <2>5. Translate(st.m, g, n) = Unmapped
    BY <1>11, <1>14
  <2>6. ASSUME NEW k \in KernelPages
        PROVE  Translate(m2, g, k) = IF k = n THEN f ELSE Translate(st.m, g, k)
    BY <1>12, <2>4
  <2>7. Added(st.m, m2, g, n, f)
    BY <2>5, <2>6 DEF Added
  <2> QED
    BY <1>5, <1>6, <2>3, <2>7
<1> QED
  BY <1>13, <1>14

-----------------------------------------------------------------------------
(* map_pages *)

(* Induction, for a set of natural numbers.                                *)
LEMMA Induct ==
    ASSUME NEW S, 0 \in S, \A k \in Nat : k \in S => k + 1 \in S
    PROVE  \A k \in Nat : k \in S
<1> DEFINE T == {k \in Nat : k \notin S}
<1>1. SUFFICES ASSUME T # {} PROVE FALSE
  OBVIOUS
<1>2. T \in SUBSET Nat
  OBVIOUS
<1>3. PICK n \in T : \A y \in T : ~(y < n)
  BY <1>1, <1>2, Least
<1>4. n \in Nat /\ n # 0 /\ n - 1 \in Nat /\ n - 1 < n
  BY <1>3
<1>5. n - 1 \in S
  BY <1>3, <1>4
<1>6. (n - 1) + 1 \in S
  BY <1>4, <1>5
<1> QED
  BY <1>3, <1>4, <1>6

Started == [m |-> mem, next |-> next, available |-> available, at |-> cr3]

\* s holds the states of the rounds from page p and frame q.
Rounds(s, p, q, count) ==
    /\ s[0] = Started
    /\ \A k \in 1 .. count : s[k] = MapPage(s[k - 1], p + k - 1, q + k - 1)

(* The rounds of map_pages follow each other.                              *)
LEMMA RoundsAre ==
    ASSUME NEW phys, NEW va, NEW count \in Nat
    PROVE  \E s : /\ MapPages(phys, va, count) = s[count]
                  /\ Rounds(s, va \div PageUnits, phys \div PageUnits, count)
<1> DEFINE Step(x, k) == MapPage(x, va \div PageUnits + k - 1, phys \div PageUnits + k - 1)
           Body(h, n) == [k \in 0 .. n |-> IF k = 0 THEN Started ELSE Step(h[k - 1], k)]
           S == CHOOSE h : h = Body(h, count)
           T == {n \in Nat : \E h : h = Body(h, n)}
<1>1. MapPages(phys, va, count) = S[count]
  BY DEF MapPages, Started
<1>2. \A h, n : Body(h, n) = [k \in 0 .. n |-> IF k = 0 THEN Started ELSE Step(h[k - 1], k)]
  OBVIOUS
<1>3. \A x, k : Step(x, k) = MapPage(x, va \div PageUnits + k - 1, phys \div PageUnits + k - 1)
  OBVIOUS
<1> HIDE DEF Step, Body
<1>4. 0 \in T
  <2> DEFINE h == [k \in 0 .. 0 |-> Started]
  <2>1. \A k \in 0 .. 0 : k = 0
    OBVIOUS
  <2>2. h = [k \in 0 .. 0 |-> IF k = 0 THEN Started ELSE Step(h[k - 1], k)]
    BY <2>1
  <2> HIDE DEF h
  <2> QED
    BY <1>2, <2>2
<1>5. ASSUME NEW n \in Nat, n \in T PROVE n + 1 \in T
  <2>1. PICK h : h = Body(h, n)
    BY <1>5
  <2> DEFINE h2 == [k \in 0 .. n + 1 |-> IF k = n + 1 THEN Step(h[n], n + 1) ELSE h[k]]
  <2>2. \A k \in 0 .. n : h2[k] = h[k] /\ k # n + 1
    OBVIOUS
  <2>3. \A k \in 0 .. n : h[k] = IF k = 0 THEN Started ELSE Step(h[k - 1], k)
    <3>1. h = [k \in 0 .. n |-> IF k = 0 THEN Started ELSE Step(h[k - 1], k)]
      BY <1>2, <2>1
    <3> QED
      BY <3>1
  <2>4. \A k \in 0 .. n + 1 : h2[k] = IF k = 0 THEN Started ELSE Step(h2[k - 1], k)
    <3> SUFFICES ASSUME NEW k \in 0 .. n + 1
                 PROVE  h2[k] = IF k = 0 THEN Started ELSE Step(h2[k - 1], k)
      OBVIOUS
    <3>1. CASE k = n + 1
      <4>1. k - 1 = n /\ k # 0 /\ n \in 0 .. n /\ n + 1 \in 0 .. n + 1
        BY <3>1
      <4>2. h2[n] = h[n] /\ h2[n + 1] = Step(h[n], n + 1)
        BY <2>2, <4>1
      <4> QED
        BY <3>1, <4>1, <4>2
    <3>2. CASE k # n + 1
      <4>1. k \in 0 .. n /\ (k # 0 => k - 1 \in 0 .. n)
        BY <3>2
      <4> QED
        BY <2>2, <2>3, <4>1
    <3> QED
      BY <3>1, <3>2
  <2>5. h2 = [k \in 0 .. n + 1 |-> IF k = 0 THEN Started ELSE Step(h2[k - 1], k)]
    BY <2>4
  <2> HIDE DEF h2
  <2>6. h2 = Body(h2, n + 1)
    BY <1>2, <2>5
  <2> QED
    BY <2>6
<1>6. count \in T
  <2> HIDE DEF T
  <2> QED
    BY <1>4, <1>5, Induct
<1>7. S = Body(S, count)
  BY <1>6
<1> HIDE DEF S, T
<1>8. S = [k \in 0 .. count |-> IF k = 0 THEN Started ELSE Step(S[k - 1], k)]
  BY <1>2, <1>7
<1>9. S[0] = Started /\ \A k \in 1 .. count : S[k] = Step(S[k - 1], k)
  BY <1>8
<1>10. Rounds(S, va \div PageUnits, phys \div PageUnits, count)
  BY <1>3, <1>9 DEF Rounds
<1> QED
  BY <1>1, <1>10

\* A page from p on, if it led nowhere, leads to the frame as far from q.
AddedAll(m, m2, r, p, q, count) ==
    \A k \in KernelPages :
        Translate(m2, r, k) = IF k \in p .. p + count - 1 /\ Translate(m, r, k) = Unmapped
                              THEN q + (k - p) ELSE Translate(m, r, k)

(* Pages are only taken, and each one taken is one fewer available.        *)
LEMMA RoundsTyped ==
    ASSUME mem \in Memories, next \in Nat, available \in Int,
           NEW s, NEW p \in Nat, NEW q \in Nat, NEW count \in Nat, Rounds(s, p, q, count)
    PROVE  \A k \in 0 .. count : /\ IsState(s[k]) /\ next =< s[k].next
                                 /\ s[k].next + s[k].available = next + available
<1> DEFINE P(k) == /\ IsState(s[k]) /\ next =< s[k].next
                   /\ s[k].next + s[k].available = next + available
           S == {k \in Nat : k =< count => P(k)}
<1>1. 0 \in S
  <2>1. s[0] = Started
    BY DEF Rounds
  <2>2. P(0)
    BY <2>1 DEF Started, IsState
  <2> QED
    BY <2>2
<1>2. ASSUME NEW k \in Nat, k \in S PROVE k + 1 \in S
  <2> SUFFICES ASSUME k + 1 =< count PROVE P(k + 1)
    OBVIOUS
  <2>1. P(k)
    BY <1>2
  <2>2. s[k + 1] = MapPage(s[k], p + k, q + k)
    <3>1. k + 1 \in 1 .. count /\ (k + 1) - 1 = k /\ p + ((k + 1) - 1) = p + k /\ q + ((k + 1) - 1) = q + k
      OBVIOUS
    <3> QED
      BY <3>1 DEF Rounds
  <2>3. IsState(s[k + 1]) /\ s[k].next =< s[k + 1].next
        /\ s[k + 1].next + s[k + 1].available = s[k].next + s[k].available
    <3>1. PICK st, t, n, f : st = s[k] /\ t = s[k + 1] /\ n = p + k /\ f = q + k
      OBVIOUS
    <3>2. IsState(st) /\ n \in Nat /\ f \in Nat /\ t = MapPage(st, n, f)
      BY <2>1, <2>2, <3>1
    <3>3. IsState(t) /\ st.next =< t.next /\ Supply(t) = Supply(st)
      BY <3>2, MapPageTyped
    <3> QED
      BY <3>1, <3>3 DEF Supply
  <2>4. s[k].next \in Nat /\ s[k + 1].next \in Nat
    BY <2>1, <2>3 DEF IsState
  <2> QED
    BY <2>1, <2>3, <2>4
<1> HIDE DEF P
<1>3. \A k \in Nat : k \in S
  <2> HIDE DEF S
  <2> QED
    BY <1>1, <1>2, Induct
<1>4. \A k \in 0 .. count : P(k)
  BY <1>3
<1> QED
  BY <1>4 DEF P

(* Every page that led nowhere leads to its frame, no other is changed.    *)
LEMMA RoundsGrown ==
    ASSUME NEW fw \in Firmwares, Ready(fw), cr3 = Root(fw),
           Grown(mem, fw, next), available \in Int,
           NEW s, NEW p \in Nat, NEW q \in Nat, NEW count \in Nat, Rounds(s, p, q, count),
           \A k \in p .. p + count - 1 : k \in KernelPages,
           s[count].next =< Limit(fw)
    PROVE  Grown(s[count].m, fw, s[count].next) /\ AddedAll(mem, s[count].m, Root(fw), p, q, count)
<1>1. mem \in Memories /\ next \in Nat
  BY DEF Grown
<1>2. \A k \in 0 .. count : IsState(s[k])
  BY <1>1, RoundsTyped
<1>3. \A k \in 1 .. count : s[k] = MapPage(s[k - 1], p + k - 1, q + k - 1)
  BY DEF Rounds
<1> DEFINE P(k) == Grown(s[k].m, fw, s[k].next) /\ AddedAll(mem, s[k].m, Root(fw), p, q, k)
           S == {k \in Nat : k =< count /\ s[k].next =< Limit(fw) => P(k)}
<1>4. 0 \in S
  <2>1. s[0].m = mem /\ s[0].next = next
    BY DEF Rounds, Started
  <2>2. AddedAll(mem, mem, Root(fw), p, q, 0)
    <3>1. \A k : k \notin p .. p + 0 - 1
      OBVIOUS
    <3> QED
      BY <3>1 DEF AddedAll
  <2> QED
    BY <2>1, <2>2
<1>5. ASSUME NEW k \in Nat, k \in S PROVE k + 1 \in S
  <2> SUFFICES ASSUME k + 1 =< count, s[k + 1].next =< Limit(fw) PROVE P(k + 1)
    OBVIOUS
  <2>1. k \in 0 .. count /\ k + 1 \in 0 .. count /\ k + 1 \in 1 .. count /\ p + k \in p .. p + count - 1
    OBVIOUS
  <2>2. s[k + 1] = MapPage(s[k], p + k, q + k)
    <3>1. (k + 1) - 1 = k /\ p + ((k + 1) - 1) = p + k /\ q + ((k + 1) - 1) = q + k
      OBVIOUS
    <3> QED
      BY <1>3, <2>1, <3>1
  <2>3. IsState(s[k]) /\ IsState(s[k + 1]) /\ p + k \in KernelPages /\ p + k \in Nat /\ q + k \in Nat
    BY <1>2, <2>1
  <2>4. s[k].next =< s[k + 1].next
    BY <2>2, <2>3, MapPageTyped
  <2>5. s[k].next =< Limit(fw)
    <3>1. s[k].next \in Nat /\ s[k + 1].next \in Nat /\ Limit(fw) \in Nat
      BY <2>3, FirstIs DEF IsState
    <3> QED
      BY <2>4, <3>1
  <2>6. Grown(s[k].m, fw, s[k].next) /\ AddedAll(mem, s[k].m, Root(fw), p, q, k)
    BY <1>5, <2>1, <2>5
  <2>7. Grown(s[k + 1].m, fw, s[k + 1].next) /\ Added(s[k].m, s[k + 1].m, Root(fw), p + k, q + k)
    <3>1. PICK st, t : st = s[k] /\ t = s[k + 1]
      OBVIOUS
    <3>2. Grown(t.m, fw, t.next) /\ Added(st.m, t.m, Root(fw), p + k, q + k)
      BY <2>2, <2>3, <2>6, <3>1, MapPageGrown
    <3> QED
      BY <3>1, <3>2
  <2>8. AddedAll(mem, s[k + 1].m, Root(fw), p, q, k + 1)
    <3>1. PICK m, m2, r : m = s[k].m /\ m2 = s[k + 1].m /\ r = Root(fw)
      OBVIOUS
    <3>2. /\ \A j \in KernelPages :
               Translate(m, r, j) = IF j \in p .. p + k - 1 /\ Translate(mem, r, j) = Unmapped
                                    THEN q + (j - p) ELSE Translate(mem, r, j)
          /\ \A j \in KernelPages :
               Translate(m2, r, j) = IF j = p + k /\ Translate(m, r, p + k) = Unmapped
                                     THEN q + k ELSE Translate(m, r, j)
      BY <2>6, <2>7, <3>1 DEF AddedAll, Added
    <3>3. ASSUME NEW j \in KernelPages
          PROVE  Translate(m2, r, j) = IF j \in p .. p + (k + 1) - 1 /\ Translate(mem, r, j) = Unmapped
                                       THEN q + (j - p) ELSE Translate(mem, r, j)
      <4>1. j \in Nat
        BY DEF KernelPages
      <4>2. CASE j = p + k
        <5>1. j \notin p .. p + k - 1 /\ j \in p .. p + (k + 1) - 1 /\ j - p = k
          BY <4>2
        <5>2. Translate(m, r, j) = Translate(mem, r, j)
          BY <3>2, <5>1
        <5>3. Translate(m2, r, j) = IF Translate(m, r, j) = Unmapped THEN q + k ELSE Translate(m, r, j)
          BY <3>2, <4>2
        <5> QED
          BY <5>1, <5>2, <5>3
      <4>3. CASE j # p + k
        <5>1. j \in p .. p + k - 1 <=> j \in p .. p + (k + 1) - 1
          BY <4>1, <4>3
        <5>2. Translate(m2, r, j) = Translate(m, r, j)
          BY <3>2, <4>3
        <5> QED
          BY <3>2, <5>1, <5>2
      <4> QED
        BY <4>2, <4>3
    <3> QED
      BY <3>1, <3>3 DEF AddedAll
  <2> QED
    BY <2>7, <2>8
<1> HIDE DEF P
<1>6. \A k \in Nat : k \in S
  <2> HIDE DEF S
  <2> QED
    BY <1>4, <1>5, Induct
<1>7. P(count)
  BY <1>6
<1> QED
  BY <1>7 DEF P

-----------------------------------------------------------------------------
(* The segments of the kernel *)

Size(kn, i) ==
    (IF i = Len(kn.segments) THEN kn.size ELSE kn.segments[i + 1].offset) - kn.segments[i].offset

FirstPage(kn, i) == kn.segments[i].vaddr \div PageUnits
LastPage(kn, i)  == (kn.segments[i].vaddr + Size(kn, i)) \div PageUnits
PagesOf(kn, i)   == FirstPage(kn, i) .. LastPage(kn, i)

\* The frame of page n of segment i in the file.
Target(fw, kn, i, n) ==
    (fw.image * PageUnits + kn.segments[i].offset) \div PageUnits + (n - FirstPage(kn, i))

LEMMA DivGrows ==
    ASSUME NEW d \in Nat \ {0}, NEW x \in Nat, NEW y \in Nat, x =< y
    PROVE  x \div d =< y \div d
<1>1. PICK a, r, b, t : a = x \div d /\ r = x % d /\ b = y \div d /\ t = y % d
  OBVIOUS
<1>2. /\ a \in Nat /\ r \in 0 .. d - 1 /\ x = d * a + r
      /\ b \in Nat /\ t \in 0 .. d - 1 /\ y = d * b + t
  BY <1>1, Divides
<1>3. SUFFICES ASSUME b + 1 =< a PROVE FALSE
  BY <1>1, <1>2
<1>4. d * (b + 1) =< d * a
  BY <1>2, <1>3, Grows
<1>5. d * (b + 1) = d * b + d
  BY <1>2
<1>6. d * a \in Nat /\ d * b \in Nat
  BY <1>2
<1> QED
  BY <1>2, <1>4, <1>5, <1>6

LEMMA SegmentsAre ==
    ASSUME NEW kn \in Kernels
    PROVE  /\ Len(kn.segments) \in Nat \ {0} /\ kn.size \in Nat
           /\ \A i \in 1 .. Len(kn.segments) :
                /\ kn.segments[i].vaddr \in Nat /\ kn.segments[i].offset \in Nat
                /\ kn.segments[i].filesize \in Nat
                /\ kn.segments[i].vaddr % PageUnits = kn.segments[i].offset % PageUnits
                /\ kn.segments[i].vaddr \div PageUnits >= (N - 1) * (N * N * N)
                /\ (kn.segments[i].vaddr + (kn.size - kn.segments[i].offset)) \div PageUnits < N * (N * N * N)
                /\ kn.segments[i].offset + kn.segments[i].filesize =< kn.size
           /\ \A i, j \in 1 .. Len(kn.segments) :
                i < j => /\ kn.segments[i].offset + kn.segments[i].filesize =< kn.segments[j].offset
                         /\ kn.segments[j].vaddr - kn.segments[i].vaddr
                              >= kn.segments[j].offset - kn.segments[i].offset
<1>1. KernelOK(kn)
  BY BootAssumption
<1>2. PICK s : s = kn.segments
  OBVIOUS
<1>3. s \in Seq(Segments) /\ s # <<>>
  BY <1>1, <1>2 DEF KernelOK
<1>4. Len(s) \in Nat \ {0} /\ \A i \in 1 .. Len(s) : s[i] \in Segments
  BY <1>3
<1>5. \A i \in 1 .. Len(s) : s[i].vaddr \in Nat /\ s[i].offset \in Nat /\ s[i].filesize \in Nat
  BY <1>4 DEF Segments
<1>6. kn.size \in Nat
  BY <1>1 DEF KernelOK
<1>7. \A i \in 1 .. Len(s) :
              /\ s[i].vaddr % PageUnits = s[i].offset % PageUnits
              /\ s[i].vaddr \div PageUnits >= (N - 1) * (N * N * N)
              /\ (s[i].vaddr + (kn.size - s[i].offset)) \div PageUnits < N * (N * N * N)
              /\ s[i].offset + s[i].filesize =< kn.size
  BY <1>1, <1>2 DEF KernelOK
<1>8. \A i, j \in 1 .. Len(s) :
              i < j => /\ s[i].offset + s[i].filesize =< s[j].offset
                       /\ s[j].vaddr - s[i].vaddr >= s[j].offset - s[i].offset
  BY <1>1, <1>2 DEF KernelOK
<1> QED
  BY <1>2, <1>4, <1>5, <1>6, <1>7, <1>8

(* A segment reaches at least over its bytes, and the next one is after it. *)
LEMMA SizeIs ==
    ASSUME NEW kn \in Kernels, NEW i \in 1 .. Len(kn.segments)
    PROVE  /\ Size(kn, i) \in Nat /\ kn.segments[i].filesize =< Size(kn, i)
           /\ Size(kn, i) =< kn.size - kn.segments[i].offset
           /\ \A j \in 1 .. Len(kn.segments) :
                i < j => Size(kn, i) =< kn.segments[j].offset - kn.segments[i].offset
<1>1. PICK s, l, z : s = kn.segments /\ l = Len(kn.segments) /\ z = kn.size
  OBVIOUS
<1>2. /\ l \in Nat \ {0} /\ z \in Nat
      /\ \A j \in 1 .. l : s[j].offset \in Nat /\ s[j].filesize \in Nat /\ s[j].offset + s[j].filesize =< z
      /\ \A j, k \in 1 .. l : j < k => s[j].offset + s[j].filesize =< s[k].offset
  BY <1>1, SegmentsAre
<1>3. i \in 1 .. l /\ Size(kn, i) = (IF i = l THEN z ELSE s[i + 1].offset) - s[i].offset
  BY <1>1 DEF Size
<1>4. CASE i = l
  <2>1. Size(kn, i) = z - s[i].offset /\ \A j \in 1 .. l : ~(i < j)
    BY <1>2, <1>3, <1>4
  <2>2. s[i].offset \in Nat /\ s[i].filesize \in Nat /\ s[i].offset + s[i].filesize =< z
    BY <1>2, <1>3
  <2> QED
    BY <1>1, <1>2, <2>1, <2>2
<1>5. CASE i # l
  <2>1. i + 1 \in 1 .. l /\ i < i + 1
    BY <1>2, <1>3, <1>5
  <2>2. PICK o, f, o2 : o = s[i].offset /\ f = s[i].filesize /\ o2 = s[i + 1].offset
    OBVIOUS
  <2>3. o \in Nat /\ f \in Nat /\ o2 \in Nat /\ o + f =< o2 /\ o2 =< z
    <3>1. s[i + 1].filesize \in Nat /\ o2 + s[i + 1].filesize =< z
      BY <1>2, <2>1, <2>2
    <3>2. o \in Nat /\ f \in Nat /\ o2 \in Nat /\ o + f =< o2
      BY <1>2, <1>3, <2>1, <2>2
    <3> QED
      BY <1>2, <3>1, <3>2
  <2>4. Size(kn, i) = o2 - o
    BY <1>3, <1>5, <2>2
  <2>5. ASSUME NEW j \in 1 .. l, i < j PROVE o2 =< s[j].offset
    <3>1. CASE j = i + 1
      BY <2>2, <2>3, <3>1
    <3>2. CASE j # i + 1
      <4>1. i + 1 < j
        BY <1>2, <1>3, <2>5, <3>2
      <4>2. o2 + s[i + 1].filesize =< s[j].offset /\ s[i + 1].filesize \in Nat /\ s[j].offset \in Nat
        BY <1>2, <2>1, <2>2, <4>1
      <4> QED
        BY <2>3, <4>2
    <3> QED
      BY <3>1, <3>2
  <2>6. ASSUME NEW j \in 1 .. l, i < j PROVE Size(kn, i) =< s[j].offset - s[i].offset
    <3>1. PICK oj : oj = s[j].offset
      OBVIOUS
    <3>2. oj \in Nat /\ o2 =< oj
      BY <1>2, <2>5, <2>6, <3>1
    <3>3. Size(kn, i) =< oj - o
      BY <2>3, <2>4, <3>2
    <3> QED
      BY <2>2, <3>1, <3>3
  <2>7. Size(kn, i) \in Nat /\ f =< Size(kn, i) /\ Size(kn, i) =< z - o
    BY <1>2, <2>3, <2>4
  <2> QED
    BY <1>1, <2>2, <2>6, <2>7
<1> QED
  BY <1>4, <1>5

(* All of them are in the part that the last top-level entry maps.         *)
LEMMA PagesAre ==
    ASSUME NEW kn \in Kernels, NEW i \in 1 .. Len(kn.segments)
    PROVE  /\ FirstPage(kn, i) \in Nat /\ LastPage(kn, i) \in Nat
           /\ FirstPage(kn, i) =< LastPage(kn, i)
           /\ \A n \in PagesOf(kn, i) : n \in KernelPages
<1>1. PICK va, o, z, sz, a, b :
        /\ va = kn.segments[i].vaddr /\ o = kn.segments[i].offset /\ z = kn.size /\ sz = Size(kn, i)
        /\ a = FirstPage(kn, i) /\ b = LastPage(kn, i)
  OBVIOUS
<1>2. /\ va \in Nat /\ o \in Nat /\ z \in Nat /\ va \div PageUnits >= (N - 1) * (N * N * N)
      /\ (va + (z - o)) \div PageUnits < N * (N * N * N)
  BY <1>1, SegmentsAre
<1>3. sz \in Nat /\ sz =< z - o
  BY <1>1, SizeIs
<1>4. a = va \div PageUnits /\ b = (va + sz) \div PageUnits
  BY <1>1 DEF FirstPage, LastPage
<1>5. PageUnits \in Nat \ {0}
  BY Positive
<1>6. va + sz \in Nat /\ va + (z - o) \in Nat /\ va =< va + sz /\ va + sz =< va + (z - o)
  BY <1>2, <1>3
<1>7. a \in Nat /\ b \in Nat
  BY <1>2, <1>4, <1>5, <1>6, Divides
<1>8. a =< b
  BY <1>2, <1>4, <1>5, <1>6, DivGrows
<1>9. b =< (va + (z - o)) \div PageUnits /\ (va + (z - o)) \div PageUnits \in Nat
  BY <1>4, <1>5, <1>6, DivGrows, Divides
<1>10. PICK lo, hi : lo = (N - 1) * (N * N * N) /\ hi = N * (N * N * N)
  OBVIOUS
<1>11. lo \in Int /\ hi \in Int
  BY <1>10, Positive
<1>12. lo =< a /\ b < hi
  <2>1. PICK c : c = (va + (z - o)) \div PageUnits
    OBVIOUS
  <2>2. c \in Nat /\ b =< c /\ c < hi
    BY <1>2, <1>9, <1>10, <2>1
  <2> QED
    BY <1>2, <1>4, <1>7, <1>10, <1>11, <2>2
<1>13. \A n \in a .. b : n \in Nat /\ n >= lo /\ n < hi
  BY <1>7, <1>11, <1>12
<1>14. \A n \in a .. b : n \in KernelPages
  BY <1>10, <1>13 DEF KernelPages
<1> QED
  BY <1>1, <1>7, <1>8, <1>14 DEF PagesOf

LEMMA Spread ==
    ASSUME NEW u \in Nat, NEW x \in Nat, NEW o \in Nat, NEW r \in Int
    PROVE  x * u + (u * o + r) = u * (x + o) + r
OBVIOUS

\* An address and the place in the file of its byte.
LEMMA PartsOf ==
    ASSUME NEW kn \in Kernels, NEW i \in 1 .. Len(kn.segments)
    PROVE  \E a, o, r :
             /\ a \in Nat /\ o \in Nat /\ r \in 0 .. PageUnits - 1
             /\ kn.segments[i].vaddr = PageUnits * a + r /\ kn.segments[i].offset = PageUnits * o + r
             /\ FirstPage(kn, i) = a
             /\ \A fw \in Firmwares : \A n : Target(fw, kn, i, n) = (fw.image + o) + (n - a)
<1>1. PICK va, off, u : va = kn.segments[i].vaddr /\ off = kn.segments[i].offset /\ u = PageUnits
  OBVIOUS
<1>2. va \in Nat /\ off \in Nat /\ va % u = off % u /\ u \in Nat \ {0}
  BY <1>1, SegmentsAre, Positive
<1>3. PICK a, o, r : a = va \div u /\ o = off \div u /\ r = va % u
  OBVIOUS
<1>4. a \in Nat /\ r \in 0 .. u - 1 /\ va = u * a + r
  BY <1>2, <1>3, Divides
<1>5. o \in Nat /\ off = u * o + r
  BY <1>2, <1>3, Divides, ZenonT(60)
<1>6. FirstPage(kn, i) = a
  BY <1>1, <1>3 DEF FirstPage
<1>7. ASSUME NEW fw \in Firmwares, NEW n PROVE Target(fw, kn, i, n) = (fw.image + o) + (n - a)
  <2>1. PICK x, y : x = fw.image /\ y = x * u + off
    OBVIOUS
  <2>2. x \in Nat
    BY <2>1, Machine
  <2>3. Parts(u, x + o, r, y)
    <3>1. y = x * u + (u * o + r)
      BY <1>5, <2>1
    <3>2. x * u + (u * o + r) = u * (x + o) + r
      BY <1>2, <1>4, <1>5, <2>2, Spread
    <3> QED
      BY <3>1, <3>2 DEF Parts
  <2>4. y \div u = x + o
    BY <1>2, <1>4, <1>5, <2>2, <2>3, Quotient
  <2> QED
    BY <1>1, <1>6, <2>1, <2>4 DEF Target
<1> QED
  BY <1>1, <1>4, <1>5, <1>6, <1>7

(* A page that two segments share has one frame.                           *)
LEMMA SharedPages ==
    ASSUME NEW kn \in Kernels, NEW fw \in Firmwares,
           NEW i \in 1 .. Len(kn.segments), NEW j \in 1 .. Len(kn.segments), i < j,
           NEW n \in PagesOf(kn, i), n \in PagesOf(kn, j)
    PROVE  Target(fw, kn, i, n) = Target(fw, kn, j, n)
<1>1. PICK a, o, r :
             /\ a \in Nat /\ o \in Nat /\ r \in 0 .. PageUnits - 1
             /\ kn.segments[i].vaddr = PageUnits * a + r /\ kn.segments[i].offset = PageUnits * o + r
             /\ FirstPage(kn, i) = a
             /\ \A f \in Firmwares : \A k : Target(f, kn, i, k) = (f.image + o) + (k - a)
  BY PartsOf
<1>2. PICK a2, o2, r2 :
             /\ a2 \in Nat /\ o2 \in Nat /\ r2 \in 0 .. PageUnits - 1
             /\ kn.segments[j].vaddr = PageUnits * a2 + r2 /\ kn.segments[j].offset = PageUnits * o2 + r2
             /\ FirstPage(kn, j) = a2
             /\ \A f \in Firmwares : \A k : Target(f, kn, j, k) = (f.image + o2) + (k - a2)
  BY PartsOf
<1>3. PICK u, va, of, va2, of2, sz :
        /\ u = PageUnits /\ va = kn.segments[i].vaddr /\ of = kn.segments[i].offset
        /\ va2 = kn.segments[j].vaddr /\ of2 = kn.segments[j].offset /\ sz = Size(kn, i)
  OBVIOUS
<1>4. /\ u \in Nat \ {0} /\ a \in Nat /\ o \in Nat /\ a2 \in Nat /\ o2 \in Nat
      /\ r \in 0 .. u - 1 /\ r2 \in 0 .. u - 1
      /\ va = u * a + r /\ of = u * o + r /\ va2 = u * a2 + r2 /\ of2 = u * o2 + r2
  BY <1>1, <1>2, <1>3, Positive
<1>5. /\ va \in Nat /\ of \in Nat /\ va2 \in Nat /\ of2 \in Nat
      /\ va2 - va >= of2 - of
  BY <1>3, SegmentsAre
<1>6. sz \in Nat /\ sz =< of2 - of
  BY <1>3, SizeIs
<1>7. a + o2 =< a2 + o
  <2>1. SUFFICES ASSUME a2 + o + 1 =< a + o2 PROVE FALSE
    BY <1>4
  <2>2. u * (a2 + o + 1) =< u * (a + o2)
    BY <1>4, <2>1, Grows
  <2>3. u * (a2 + o + 1) = u * a2 + u * o + u /\ u * (a + o2) = u * a + u * o2
    BY <1>4
  <2>4. PICK ua, uo, ua2, uo2 : ua = u * a /\ uo = u * o /\ ua2 = u * a2 /\ uo2 = u * o2
    OBVIOUS
  <2>5. ua \in Nat /\ uo \in Nat /\ ua2 \in Nat /\ uo2 \in Nat
    BY <1>4, <2>4
  <2>6. ua2 + uo + u =< ua + uo2
    BY <2>2, <2>3, <2>4
  <2>7. va = ua + r /\ of = uo + r /\ va2 = ua2 + r2 /\ of2 = uo2 + r2
    BY <1>4, <2>4
  <2> QED
    BY <1>4, <1>5, <2>5, <2>6, <2>7
<1>8. of =< of2
  BY <1>5, <1>6
<1>9. o =< o2
  <2>1. of \div u = o /\ of2 \div u = o2
    BY <1>4, Quotient DEF Parts
  <2> QED
    BY <1>4, <1>5, <1>8, <2>1, DivGrows
<1>10. n \in Int /\ a2 =< n /\ n =< LastPage(kn, i)
  BY <1>2, PagesAre DEF PagesOf
<1>11. LastPage(kn, i) =< (a + o2) - o
  <2>1. PICK x, q : x = va + (of2 - of) /\ q = (a + o2) - o
    OBVIOUS
  <2>2. x \in Nat /\ q \in Nat
    BY <1>4, <1>5, <1>8, <1>9, <2>1
  <2>3. x = u * q + r2
    <3>1. u * q = u * a + u * o2 - u * o
      BY <1>4, <2>1
    <3> QED
      BY <1>4, <2>1, <3>1
  <2>4. x \div u = q
    BY <1>4, <2>2, <2>3, Quotient DEF Parts
  <2>5. va + sz =< x /\ va + sz \in Nat
    BY <1>5, <1>6, <2>1
  <2>6. LastPage(kn, i) = (va + sz) \div u
    BY <1>3 DEF LastPage
  <2> QED
    BY <1>4, <2>1, <2>2, <2>4, <2>5, <2>6, DivGrows
<1>12. LastPage(kn, i) \in Nat
  BY PagesAre
<1>13. a2 + o = a + o2
  <2>1. a2 =< (a + o2) - o
    BY <1>4, <1>10, <1>11, <1>12
  <2> QED
    BY <1>4, <1>7, <2>1
<1>14. fw.image \in Nat
  BY Machine
<1>15. (fw.image + o) + (n - a) = (fw.image + o2) + (n - a2)
  <2>1. PICK x : x = fw.image
    OBVIOUS
  <2>2. x \in Nat /\ n \in Int /\ a \in Nat /\ o \in Nat /\ a2 \in Nat /\ o2 \in Nat
    BY <1>4, <1>10, <1>14, <2>1
  <2>3. (x + o) + (n - a) = (x + o2) + (n - a2)
    BY <1>13, <2>2
  <2> QED
    BY <2>1, <2>3
<1>16. Target(fw, kn, i, n) = (fw.image + o) + (n - a) /\ Target(fw, kn, j, n) = (fw.image + o2) + (n - a2)
  BY <1>1, <1>2
<1> QED
  BY <1>15, <1>16

(* A byte of a segment is on a page of the segment, in the frame it has in *)
(* the file.                                                               *)
LEMMA BytePlace ==
    ASSUME NEW kn \in Kernels, NEW fw \in Firmwares,
           NEW i \in 1 .. Len(kn.segments), NEW x \in 0 .. kn.segments[i].filesize - 1
    PROVE  LET n == (kn.segments[i].vaddr + x) \div PageUnits
           IN  /\ n \in PagesOf(kn, i)
               /\ Target(fw, kn, i, n) = fw.image + (kn.segments[i].offset + x) \div PageUnits
<1>1. PICK a, o, r :
             /\ a \in Nat /\ o \in Nat /\ r \in 0 .. PageUnits - 1
             /\ kn.segments[i].vaddr = PageUnits * a + r /\ kn.segments[i].offset = PageUnits * o + r
             /\ FirstPage(kn, i) = a
             /\ \A f \in Firmwares : \A k : Target(f, kn, i, k) = (f.image + o) + (k - a)
  BY PartsOf
<1>2. PICK u, va, of, fs, sz :
        /\ u = PageUnits /\ va = kn.segments[i].vaddr /\ of = kn.segments[i].offset
        /\ fs = kn.segments[i].filesize /\ sz = Size(kn, i)
  OBVIOUS
<1>3. /\ u \in Nat \ {0} /\ a \in Nat /\ o \in Nat /\ r \in 0 .. u - 1
      /\ va = u * a + r /\ of = u * o + r
  BY <1>1, <1>2, Positive
<1>4. va \in Nat /\ of \in Nat /\ fs \in Nat
  BY <1>2, SegmentsAre
<1>5. x \in Nat /\ x =< fs
  BY <1>2, <1>4
<1>6. fs =< sz /\ sz \in Nat
  BY <1>2, SizeIs
<1>7. PICK q, t : q = (r + x) \div u /\ t = (r + x) % u
  OBVIOUS
<1>8. q \in Nat /\ t \in 0 .. u - 1 /\ r + x = u * q + t
  <2>1. PICK y : y = r + x
    OBVIOUS
  <2>2. y \in Nat /\ u \in Nat \ {0}
    BY <1>3, <1>5, <2>1
  <2>3. y \div u \in Nat /\ y % u \in 0 .. u - 1 /\ y = u * (y \div u) + (y % u)
    BY <2>2, Divides
  <2> QED
    BY <1>7, <2>1, <2>3
<1>9. (va + x) \div u = a + q
  <2>1. va + x = u * (a + q) + t
    BY <1>3, <1>5, <1>8
  <2>2. a + q \in Nat
    BY <1>3, <1>8
  <2>3. Parts(u, a + q, t, va + x)
    BY <2>1 DEF Parts
  <2> QED
    BY <1>3, <1>8, <2>2, <2>3, Quotient
<1>10. (of + x) \div u = o + q
  <2>1. of + x = u * (o + q) + t
    BY <1>3, <1>5, <1>8
  <2>2. o + q \in Nat
    BY <1>3, <1>8
  <2>3. Parts(u, o + q, t, of + x)
    BY <2>1 DEF Parts
  <2> QED
    BY <1>3, <1>8, <2>2, <2>3, Quotient
<1>11. a + q =< LastPage(kn, i)
  <2>1. va + x \in Nat /\ va + sz \in Nat /\ va + x =< va + sz
    BY <1>4, <1>5, <1>6
  <2>2. LastPage(kn, i) = (va + sz) \div u
    BY <1>2 DEF LastPage
  <2> QED
    BY <1>3, <1>9, <2>1, <2>2, DivGrows
<1>12. a + q \in PagesOf(kn, i)
  BY <1>1, <1>3, <1>8, <1>11, PagesAre DEF PagesOf
<1>13. Target(fw, kn, i, a + q) = fw.image + (o + q)
  <2>1. PICK y : y = fw.image
    OBVIOUS
  <2>2. y \in Nat
    BY <2>1, Machine
  <2>3. (y + o) + ((a + q) - a) = y + (o + q)
    BY <1>3, <1>8, <2>2
  <2> QED
    BY <1>1, <2>1, <2>3
<1> QED
  BY <1>2, <1>9, <1>10, <1>12, <1>13

\* What mapping segment i adds.
SegmentAdded(m, m2, r, fw, kn, i) ==
    \A k \in KernelPages :
        Translate(m2, r, k) = IF k \in PagesOf(kn, i) /\ Translate(m, r, k) = Unmapped
                              THEN Target(fw, kn, i, k) ELSE Translate(m, r, k)

\* The state that map_pages leaves for the segment to be mapped.
SegmentState ==
    MapPages(firmware.image * PageUnits + kernel.segments[seg].offset,
             kernel.segments[seg].vaddr, SegmentPages(seg))

(* map_pages for a segment, with the page count that efi_main computes.    *)
LEMMA SegmentRounds ==
    ASSUME firmware \in Firmwares, kernel \in Kernels, seg \in 1 .. Len(kernel.segments)
    PROVE  \E s, p, q, count :
             /\ p \in Nat /\ q \in Nat /\ count \in Nat /\ Rounds(s, p, q, count)
             /\ SegmentState = s[count] /\ SegmentPages(seg) = count
             /\ p .. p + count - 1 = PagesOf(kernel, seg)
             /\ \A k : Target(firmware, kernel, seg, k) = q + (k - p)
<1>1. PICK va, o, x, u : /\ va = kernel.segments[seg].vaddr /\ o = kernel.segments[seg].offset
                         /\ x = firmware.image * PageUnits + o /\ u = PageUnits
  OBVIOUS
<1>2. PICK p, q, count, l : /\ p = va \div u /\ q = x \div u /\ count = SegmentPages(seg)
                            /\ l = LastPage(kernel, seg)
  OBVIOUS
<1>3. va \in Nat /\ o \in Nat
  BY <1>1, SegmentsAre
<1>4. u \in Nat \ {0} /\ firmware.image \in Nat
  BY <1>1, Positive, Machine
<1>5. x \in Nat
  BY <1>1, <1>3, <1>4
<1>6. p = FirstPage(kernel, seg) /\ p \in Nat /\ l \in Nat /\ p =< l
  BY <1>1, <1>2, PagesAre DEF FirstPage
<1>7. q \in Nat
  BY <1>2, <1>4, <1>5, Divides
<1>8. count = 1 + l - p
  <2>1. SegmentSize(seg) = Size(kernel, seg)
    BY DEF SegmentSize, Size
  <2>2. l = (va + SegmentSize(seg)) \div PageUnits
    BY <1>1, <1>2, <2>1 DEF LastPage
  <2>3. SegmentPages(seg) = 1 + (va + SegmentSize(seg)) \div PageUnits - va \div PageUnits
    BY <1>1 DEF SegmentPages
  <2>4. PICK y, z : y = (va + SegmentSize(seg)) \div PageUnits /\ z = va \div PageUnits
    OBVIOUS
  <2>5. SegmentPages(seg) = 1 + y - z
    BY <2>3, <2>4
  <2>6. y = l /\ z = p
    BY <1>1, <1>2, <2>2, <2>4
  <2>7. SegmentPages(seg) = 1 + l - p
    BY <2>5, <2>6, Zenon
  <2>8. count = SegmentPages(seg)
    BY <1>2
  <2> QED
    BY <2>7, <2>8, Zenon
<1>9. count \in Nat /\ p + count - 1 = l
  <2>1. p \in Nat /\ l \in Nat /\ p =< l
    BY <1>6
  <2>2. l - p \in Nat /\ count \in Nat
    BY <1>8, <2>1
  <2> QED
    BY <1>8, <2>1, <2>2
<1>10. p .. p + count - 1 = PagesOf(kernel, seg)
  BY <1>2, <1>6, <1>9 DEF PagesOf
<1>11. \A k : Target(firmware, kernel, seg, k) = q + (k - p)
  BY <1>1, <1>2, <1>6 DEF Target
<1>12. PICK s : MapPages(x, va, count) = s[count] /\ Rounds(s, va \div PageUnits, x \div PageUnits, count)
  BY <1>9, RoundsAre
<1>13. SegmentState = s[count]
  BY <1>1, <1>2, <1>12 DEF SegmentState
<1>14. Rounds(s, p, q, count)
  BY <1>1, <1>2, <1>12
<1> QED
  BY <1>2, <1>6, <1>7, <1>9, <1>10, <1>11, <1>13, <1>14

LEMMA SegmentTyped ==
    ASSUME firmware \in Firmwares, kernel \in Kernels, seg \in 1 .. Len(kernel.segments),
           mem \in Memories, next \in Nat, available \in Int
    PROVE  /\ IsState(SegmentState) /\ next =< SegmentState.next
           /\ SegmentState.next + SegmentState.available = next + available
           /\ SegmentPages(seg) \in Nat
<1>1. PICK s, p, q, count :
             /\ p \in Nat /\ q \in Nat /\ count \in Nat /\ Rounds(s, p, q, count)
             /\ SegmentState = s[count] /\ SegmentPages(seg) = count
             /\ p .. p + count - 1 = PagesOf(kernel, seg)
             /\ \A k : Target(firmware, kernel, seg, k) = q + (k - p)
  BY SegmentRounds
<1>2. count \in 0 .. count
  BY <1>1
<1>3. IsState(s[count]) /\ next =< s[count].next /\ s[count].next + s[count].available = next + available
  <2>1. p \in Nat /\ q \in Nat /\ count \in Nat /\ Rounds(s, p, q, count)
    BY <1>1
  <2> QED
    BY <1>2, <2>1, RoundsTyped
<1> QED
  BY <1>1, <1>3

LEMMA SegmentGrown ==
    ASSUME firmware \in Firmwares, kernel \in Kernels, seg \in 1 .. Len(kernel.segments),
           Ready(firmware), cr3 = Root(firmware), Grown(mem, firmware, next), available \in Int,
           SegmentState.next =< Limit(firmware)
    PROVE  /\ Grown(SegmentState.m, firmware, SegmentState.next)
           /\ SegmentAdded(mem, SegmentState.m, Root(firmware), firmware, kernel, seg)
<1>1. PICK s, p, q, count :
             /\ p \in Nat /\ q \in Nat /\ count \in Nat /\ Rounds(s, p, q, count)
             /\ SegmentState = s[count] /\ SegmentPages(seg) = count
             /\ p .. p + count - 1 = PagesOf(kernel, seg)
             /\ \A k : Target(firmware, kernel, seg, k) = q + (k - p)
  BY SegmentRounds
<1>2. \A k \in p .. p + count - 1 : k \in KernelPages
  BY <1>1, PagesAre
<1>3. p \in Nat /\ q \in Nat /\ count \in Nat /\ Rounds(s, p, q, count) /\ s[count].next =< Limit(firmware)
  BY <1>1
<1>4. /\ Grown(s[count].m, firmware, s[count].next)
      /\ AddedAll(mem, s[count].m, Root(firmware), p, q, count)
  BY <1>2, <1>3, RoundsGrown
<1>5. SegmentAdded(mem, s[count].m, Root(firmware), firmware, kernel, seg)
  BY <1>1, <1>4 DEF AddedAll, SegmentAdded
<1> QED
  BY <1>1, <1>4, <1>5

\* The pages of the segments before i are mapped, and no others of that part.
Loaded(m, r, fw, kn, i) ==
    /\ \A j \in 1 .. Len(kn.segments) : j < i =>
         \A n \in PagesOf(kn, j) : Translate(m, r, n) = Target(fw, kn, j, n)
    /\ \A n \in KernelPages : Translate(m, r, n) # Unmapped =>
         \E j \in 1 .. Len(kn.segments) : j < i /\ n \in PagesOf(kn, j)

(* Mapping the next segment leaves those before it mapped; what it shares  *)
(* with them is where it should be.                                        *)
LEMMA LoadedMore ==
    ASSUME NEW fw \in Firmwares, NEW kn \in Kernels, NEW i \in 1 .. Len(kn.segments),
           NEW m, NEW m2, NEW r, Loaded(m, r, fw, kn, i), SegmentAdded(m, m2, r, fw, kn, i)
    PROVE  Loaded(m2, r, fw, kn, i + 1)
<1>1. \A j \in 1 .. Len(kn.segments) : \A n \in PagesOf(kn, j) :
         n \in KernelPages /\ Target(fw, kn, j, n) # Unmapped
  <2> SUFFICES ASSUME NEW j \in 1 .. Len(kn.segments), NEW n \in PagesOf(kn, j)
               PROVE  n \in KernelPages /\ Target(fw, kn, j, n) # Unmapped
    OBVIOUS
  <2>1. n \in KernelPages
    BY PagesAre
  <2>2. PICK a, o, b, x : /\ a \in Nat /\ o \in Nat /\ b = LastPage(kn, j) /\ x = fw.image
                          /\ FirstPage(kn, j) = a
                          /\ \A f \in Firmwares : \A k : Target(f, kn, j, k) = (f.image + o) + (k - a)
    BY PartsOf
  <2>3. n \in a .. b /\ b \in Nat /\ x \in Nat
    BY <2>2, PagesAre, Machine DEF PagesOf
  <2>4. Target(fw, kn, j, n) = (x + o) + (n - a)
    BY <2>2
  <2>5. (x + o) + (n - a) \in Nat
    BY <2>2, <2>3
  <2> QED
    BY <2>1, <2>4, <2>5 DEF Unmapped
<1>2. i + 1 \in Nat /\ \A j \in 1 .. Len(kn.segments) : j < i + 1 <=> j < i \/ j = i
  <2>1. Len(kn.segments) \in Nat
    BY SegmentsAre
  <2> QED
    BY <2>1
<1>3. ASSUME NEW j \in 1 .. Len(kn.segments), j < i, NEW n \in PagesOf(kn, j)
      PROVE  Translate(m2, r, n) = Target(fw, kn, j, n)
  <2>1. n \in KernelPages /\ Translate(m, r, n) = Target(fw, kn, j, n) /\ Translate(m, r, n) # Unmapped
    BY <1>1, <1>3 DEF Loaded
  <2> QED
    BY <2>1 DEF SegmentAdded
<1>4. ASSUME NEW n \in PagesOf(kn, i)
      PROVE  Translate(m2, r, n) = Target(fw, kn, i, n)
  <2>1. n \in KernelPages
    BY <1>1
  <2>2. CASE Translate(m, r, n) = Unmapped
    BY <2>1, <2>2 DEF SegmentAdded
  <2>3. CASE Translate(m, r, n) # Unmapped
    <3>1. PICK j \in 1 .. Len(kn.segments) : j < i /\ n \in PagesOf(kn, j)
      BY <2>1, <2>3 DEF Loaded
    <3>2. Translate(m, r, n) = Target(fw, kn, j, n)
      BY <3>1 DEF Loaded
    <3>3. Target(fw, kn, j, n) = Target(fw, kn, i, n)
      BY <3>1, SharedPages
    <3> QED
      BY <2>1, <2>3, <3>2, <3>3 DEF SegmentAdded
  <2> QED
    BY <2>2, <2>3
<1>5. ASSUME NEW n \in KernelPages, Translate(m2, r, n) # Unmapped
      PROVE  \E j \in 1 .. Len(kn.segments) : j < i + 1 /\ n \in PagesOf(kn, j)
  <2>1. CASE n \in PagesOf(kn, i)
    BY <1>2, <2>1
  <2>2. CASE n \notin PagesOf(kn, i)
    <3>1. Translate(m, r, n) # Unmapped
      BY <1>5, <2>2 DEF SegmentAdded
    <3> QED
      BY <1>2, <3>1 DEF Loaded
  <2> QED
    BY <2>1, <2>2
<1>6. ASSUME NEW j \in 1 .. Len(kn.segments), j < i + 1, NEW n \in PagesOf(kn, j)
      PROVE  Translate(m2, r, n) = Target(fw, kn, j, n)
  BY <1>2, <1>3, <1>4, <1>6
<1> QED
  BY <1>5, <1>6 DEF Loaded

(* Nothing is mapped there at first.                                       *)
LEMMA NothingLoaded ==
    ASSUME NEW fw \in Firmwares, Ready(fw), NEW kn \in Kernels
    PROVE  Loaded(Made(fw), Root(fw), fw, kn, 1)
<1>1. PICK z, g : z = Made(fw) /\ g = Root(fw)
  OBVIOUS
<1>2. ~z[g][N - 1].p
  <2>1. \A j \in Idx : z[g][j].p => j \in 0 .. Count(fw) - 1 \/ j \in Mirror(fw) .. N - 2
    BY <1>1, MadeHas DEF TopMirrored
  <2>2. PICK c : c = Count(fw)
    OBVIOUS
  <2>3. c \in Nat /\ 2 * c < N /\ N \in Nat \ {0} /\ c > 0
    BY <2>2, Counted, Positive
  <2>4. N - 1 \in Idx /\ N - 1 \notin 0 .. c - 1 /\ \A a : N - 1 \notin a .. N - 2
    BY <2>3 DEF Idx
  <2> QED
    BY <2>1, <2>2, <2>4
<1>3. ASSUME NEW n \in KernelPages PROVE Translate(z, g, n) = Unmapped
  <2>1. IndexOf(n)[1] = N - 1
    BY KernelIndex
  <2>2. Translate(z, g, n) = WalkOf(z, g, N - 1, IndexOf(n)[2], IndexOf(n)[3], IndexOf(n)[4])
    BY <2>1, TranslateWalks
  <2> QED
    BY <1>2, <2>2 DEF WalkOf
<1>4. \A j \in 1 .. Len(kn.segments) : ~(j < 1)
  <2>1. Len(kn.segments) \in Nat
    BY SegmentsAre
  <2> QED
    BY <2>1
<1> QED
  BY <1>1, <1>3, <1>4 DEF Loaded

-----------------------------------------------------------------------------
(* The invariant *)

\* init_virtual_mapping has run.
Mapped == phase \in {"mapping", "loading", "kernel"}

Untouched ==
    phase \in {"services", "exited"} =>
        mem = firmware.mem /\ mmap = firmware.mmap /\ cr3 = firmware.cr3 /\ seg = 1

\* Pages are given out one after the other from the first one on.
Supplied ==
    Mapped => /\ Ready(firmware) /\ cr3 = Root(firmware) /\ base = Dst(firmware)
              /\ First(firmware) =< next
              /\ next + available = Limit(firmware)
              /\ table.mirror = Mirror(firmware)

\* As long as all of them are in the copy, the tables have their form.
Extended ==
    Mapped /\ next =< Limit(firmware) =>
        Grown(mem, firmware, next) /\ Loaded(mem, cr3, firmware, kernel, seg)

Progress == phase = "kernel" => seg > Len(kernel.segments)

BootInv ==
    /\ firmware \in Firmwares /\ kernel \in Kernels
    /\ TypeOK
    /\ Untouched
    /\ Supplied
    /\ Extended
    /\ Progress

\* What init_virtual_mapping makes is a function of the firmware.
Prepared(m, map, r, b, nxt, av, tb) ==
    /\ Ready(firmware)
    /\ m = Made(firmware) /\ r = Root(firmware) /\ b = Dst(firmware) /\ nxt = First(firmware)
    /\ av = Dst(firmware) + Src(firmware).pages - nxt
    /\ map = [firmware.mmap EXCEPT ![Place(firmware)].type = "mapping"]
    /\ tb = [table EXCEPT !.mirror = Mirror(firmware)]

LEMMA InitPrepares ==
    ASSUME firmware \in Firmwares, mem = firmware.mem, mmap = firmware.mmap, cr3 = firmware.cr3,
           InitVirtualMapping
    PROVE  Prepared(mem', mmap', cr3', base', next', available', table')
<1>1. PICK src, places : src = Source(mmap, cr3) /\ places = Places(mmap, src.pages)
  OBVIOUS
<1>2. PICK to, dst : to = Min(places) /\ dst = mmap[to].start
  OBVIOUS
<1>3. PICK root, moved : /\ root = cr3 + dst - src.start
                         /\ moved = Relocated(Copied(mem, src, dst), root, dst - src.start)
  OBVIOUS
<1>4. /\ Above(mmap, cr3) # {} /\ places # {}
      /\ mem' = Mirrored(MadeWritable(moved, root, cr3), root)
      /\ mmap' = [mmap EXCEPT ![to].type = "mapping"]
      /\ cr3' = root /\ base' = dst
      /\ next' = Highest(moved, root) + 1
      /\ available' = AvailableCount(dst, src.pages, next')
      /\ table' = [table EXCEPT !.mirror = MirrorStart(moved, root)]
  BY <1>1, <1>2, <1>3 DEF InitVirtualMapping
<1>5. src = Src(firmware) /\ to = Place(firmware) /\ dst = Dst(firmware)
  BY <1>1, <1>2 DEF Src, Place, Dst
<1>6. root = Root(firmware) /\ moved = Relocation(firmware)
  BY <1>3, <1>5 DEF Root, Delta, Relocation
<1>7. Ready(firmware)
  BY <1>1, <1>4, <1>5 DEF Ready
<1>8. MirrorStart(moved, root) = Mirror(firmware)
  BY <1>6, <1>7, RelocationHas, MirrorIs
<1>9. mem' = Made(firmware)
  BY <1>4, <1>6 DEF Made
<1>10. next' = First(firmware)
  BY <1>4, <1>6 DEF First
<1>11. available' = Dst(firmware) + Src(firmware).pages - next'
  BY <1>4, <1>5 DEF AvailableCount
<1>12. mmap' = [firmware.mmap EXCEPT ![Place(firmware)].type = "mapping"]
  BY <1>4, <1>5
<1>13. table' = [table EXCEPT !.mirror = Mirror(firmware)]
  BY <1>4, <1>8
<1> QED
  BY <1>4, <1>5, <1>6, <1>7, <1>9, <1>10, <1>11, <1>12, <1>13 DEF Prepared

Retyped == [start : Frames, pages : Nat, type : {"free", "boot", "loader", "mapping"}]
Tables  == [mirror : Idx, pml4 : Frames, used : Nat, start : Nat, pages : Nat]

LEMMA PreparedTyped ==
    ASSUME firmware \in Firmwares, table \in Tables,
           NEW m, NEW map, NEW r, NEW b, NEW nxt, NEW av, NEW tb, Prepared(m, map, r, b, nxt, av, tb)
    PROVE  /\ m \in Memories /\ map \in Seq(Retyped) /\ r \in Frames /\ b \in Frames
           /\ nxt \in Nat /\ av \in Int /\ tb \in Tables /\ tb.mirror = Mirror(firmware)
           /\ nxt + av = Limit(firmware) /\ First(firmware) =< nxt
<1>1. Ready(firmware)
  BY DEF Prepared
<1>2. m \in Memories
  BY <1>1, MadeHas DEF Prepared
<1>3. r \in Frames /\ b \in Frames
  BY <1>1, TablesAt, PlaceIs DEF Prepared
<1>4. PICK d, p : d = Dst(firmware) /\ p = Src(firmware).pages
  OBVIOUS
<1>5. d \in Nat /\ p \in Nat /\ nxt \in Nat /\ First(firmware) =< nxt
  <2>1. p \in Nat
    BY <1>1, <1>4, PlaceIs DEF Apart
  <2> QED
    BY <1>1, <1>4, <2>1, FirstIs DEF Prepared
<1>6. av = d + p - nxt /\ Limit(firmware) = d + p
  BY <1>4 DEF Prepared, Limit
<1>7. av \in Int /\ nxt + av = Limit(firmware)
  BY <1>5, <1>6
<1>8. map \in Seq(Retyped)
  <2>1. PICK f, k : f = firmware.mmap /\ k = Place(firmware)
    OBVIOUS
  <2>2. f \in Seq(Descriptors) /\ Len(f) \in Nat /\ \A i \in 1 .. Len(f) : f[i] \in Descriptors
    BY <2>1, Machine
  <2>3. map = [f EXCEPT ![k].type = "mapping"]
    BY <2>1 DEF Prepared
  <2>4. \A e \in Descriptors : e \in Retyped /\ [e EXCEPT !.type = "mapping"] \in Retyped
    <3> SUFFICES ASSUME NEW e \in Descriptors
                 PROVE  e \in Retyped /\ [e EXCEPT !.type = "mapping"] \in Retyped
      OBVIOUS
    <3>1. PICK x, n, t : x = e.start /\ n = e.pages /\ t = e.type
      OBVIOUS
    <3>2. /\ e = [start |-> x, pages |-> n, type |-> t]
          /\ x \in Frames /\ n \in Nat /\ t \in {"free", "boot", "loader"}
      BY <3>1 DEF Descriptors
    <3>3. [e EXCEPT !.type = "mapping"] = [start |-> x, pages |-> n, type |-> "mapping"]
      BY <3>2
    <3>4. \A y \in {"free", "boot", "loader", "mapping"} : [start |-> x, pages |-> n, type |-> y] \in Retyped
      BY <3>2 DEF Retyped
    <3>5. t \in {"free", "boot", "loader", "mapping"} /\ "mapping" \in {"free", "boot", "loader", "mapping"}
      BY <3>2
    <3>6. [start |-> x, pages |-> n, type |-> t] \in Retyped
      BY <3>4, <3>5
    <3>7. [start |-> x, pages |-> n, type |-> "mapping"] \in Retyped
      BY <3>4, <3>5
    <3>8. e \in Retyped
      BY <3>2, <3>6, Zenon
    <3>9. [e EXCEPT !.type = "mapping"] \in Retyped
      BY <3>3, <3>7, Zenon
    <3> QED
      BY <3>8, <3>9
  <2>5. f \in [1 .. Len(f) -> Retyped]
    <3>1. f \in [1 .. Len(f) -> Descriptors]
      BY <2>2
    <3>2. Descriptors \subseteq Retyped
      BY <2>4
    <3> QED
      BY <3>1, <3>2
  <2>6. map \in [1 .. Len(f) -> Retyped]
    <3>1. map = [i \in 1 .. Len(f) |-> IF i = k THEN [f[k] EXCEPT !.type = "mapping"] ELSE f[i]]
      BY <2>3, <2>5
    <3> QED
      BY <2>2, <2>4, <3>1
  <2> QED
    BY <2>2, <2>6
<1>9. tb \in Tables /\ tb.mirror = Mirror(firmware)
  <2>1. Mirror(firmware) \in Idx
    <3>1. PICK c : c = Count(firmware)
      OBVIOUS
    <3>2. c \in Nat /\ 2 * c < N /\ c > 0 /\ N \in Nat \ {0}
      BY <3>1, Counted, Positive
    <3>3. Mirror(firmware) = N - 1 - c
      BY <3>1 DEF Mirror
    <3> QED
      BY <3>2, <3>3 DEF Idx
  <2>2. tb = [table EXCEPT !.mirror = Mirror(firmware)]
    BY DEF Prepared
  <2> QED
    BY <2>1, <2>2 DEF Tables
<1> QED
  BY <1>2, <1>3, <1>5, <1>7, <1>8, <1>9

\* The conjuncts of the type invariant, with names for the sets.
Typed(ph, m, map, r, b, nxt, av, tb, i, kn) ==
    /\ ph \in {"services", "exited", "mapping", "loading", "kernel", "aborted"}
    /\ m \in Memories /\ map \in Seq(Retyped) /\ r \in Frames
    /\ b \in Frames /\ nxt \in Nat /\ av \in Int
    /\ tb \in Tables /\ i \in 1 .. Len(kn.segments) + 1

LEMMA TypesAre == TypeOK <=> Typed(phase, mem, mmap, cr3, base, next, available, table, seg, kernel)
BY DEF TypeOK, Typed, Memories, Retyped, Tables

LEMMA TypesAreNext ==
    TypeOK' <=> Typed(phase', mem', mmap', cr3', base', next', available', table', seg', kernel')
BY DEF TypeOK, Typed, Memories, Retyped, Tables

LEMMA InitHas == Init => BootInv
<1> SUFFICES ASSUME Init PROVE BootInv
  OBVIOUS
<1>1. /\ phase = "services" /\ firmware \in Firmwares /\ kernel \in Kernels
      /\ mem = firmware.mem /\ mmap = firmware.mmap /\ cr3 = firmware.cr3
      /\ base = 0 /\ next = 0 /\ available = 0 /\ seg = 1
      /\ table = [mirror |-> 0, pml4 |-> 0, used |-> 0, start |-> 0, pages |-> 0]
  BY DEF Init
<1>2. 0 \in Frames /\ 0 \in Idx
  BY Positive DEF Frames, Idx
<1>3. table \in Tables
  BY <1>1, <1>2 DEF Tables
<1>4. mmap \in Seq(Retyped)
  <2>1. firmware.mmap \in Seq(Descriptors)
    BY <1>1, Machine
  <2>2. \A e \in Descriptors : e \in Retyped
    BY DEF Descriptors, Retyped
  <2>3. \A s \in Seq(Descriptors) : s \in Seq(Retyped)
    BY <2>2
  <2> QED
    BY <1>1, <2>1, <2>3
<1>5. mem \in Memories /\ cr3 \in Frames
  BY <1>1, Machine DEF Memories
<1>6. seg \in 1 .. Len(kernel.segments) + 1
  <2>1. Len(kernel.segments) \in Nat
    BY <1>1, SegmentsAre
  <2> QED
    BY <1>1, <2>1
<1>7. Typed(phase, mem, mmap, cr3, base, next, available, table, seg, kernel)
  BY <1>1, <1>2, <1>3, <1>4, <1>5, <1>6 DEF Typed
<1>8. Untouched /\ Supplied /\ Extended /\ Progress
  BY <1>1 DEF Untouched, Supplied, Extended, Progress, Mapped
<1> QED
  BY <1>1, <1>7, <1>8, TypesAre DEF BootInv

LEMMA InitVirtualMappingKeeps == ASSUME BootInv, InitVirtualMapping PROVE BootInv'
<1>1. /\ phase = "exited" /\ phase' = "mapping"
      /\ firmware' = firmware /\ kernel' = kernel /\ seg' = seg
  BY DEF InitVirtualMapping
<1>2. /\ firmware \in Firmwares /\ kernel \in Kernels
      /\ mem = firmware.mem /\ mmap = firmware.mmap /\ cr3 = firmware.cr3 /\ seg = 1
  BY <1>1 DEF BootInv, Untouched
<1>3. Prepared(mem', mmap', cr3', base', next', available', table')
  BY <1>2, InitPrepares
<1>4. table \in Tables /\ seg \in 1 .. Len(kernel.segments) + 1
  BY TypesAre DEF BootInv, Typed
<1>5. /\ mem' \in Memories /\ mmap' \in Seq(Retyped) /\ cr3' \in Frames /\ base' \in Frames
      /\ next' \in Nat /\ available' \in Int /\ table' \in Tables /\ table'.mirror = Mirror(firmware)
      /\ next' + available' = Limit(firmware) /\ First(firmware) =< next'
  BY <1>2, <1>3, <1>4, PreparedTyped
<1>6. Typed(phase', mem', mmap', cr3', base', next', available', table', seg', kernel')
  BY <1>1, <1>4, <1>5 DEF Typed
<1>7. /\ Ready(firmware) /\ mem' = Made(firmware) /\ cr3' = Root(firmware) /\ base' = Dst(firmware)
      /\ next' = First(firmware)
  BY <1>3 DEF Prepared
<1>8. Supplied'
  BY <1>1, <1>5, <1>7 DEF Supplied
<1>9. Grown(mem', firmware, next') /\ Loaded(mem', cr3', firmware, kernel, 1)
  BY <1>2, <1>7, MadeIsGrown, NothingLoaded
<1>10. Extended' /\ Untouched' /\ Progress'
  BY <1>1, <1>2, <1>9 DEF Extended, Untouched, Progress
<1> QED
  BY <1>1, <1>2, <1>6, <1>8, <1>10, TypesAreNext DEF BootInv

LEMMA GetPointersKeeps == ASSUME BootInv, GetMappingPointersAndCount PROVE BootInv'
<1>1. /\ phase = "mapping" /\ phase' = "loading"
      /\ table' = [table EXCEPT !.pml4 = cr3, !.used = UsedCount]
      /\ firmware' = firmware /\ kernel' = kernel /\ mem' = mem /\ mmap' = mmap /\ cr3' = cr3
      /\ base' = base /\ next' = next /\ available' = available /\ seg' = seg
  BY DEF GetMappingPointersAndCount
<1>2. Typed(phase, mem, mmap, cr3, base, next, available, table, seg, kernel)
  BY TypesAre DEF BootInv
<1>3. /\ Ready(firmware) /\ cr3 = Root(firmware) /\ base = Dst(firmware) /\ First(firmware) =< next
      /\ next + available = Limit(firmware) /\ table.mirror = Mirror(firmware) /\ firmware \in Firmwares
  BY <1>1 DEF BootInv, Supplied, Mapped
<1>4. UsedCount \in Nat
  <2>1. PICK f, d : f = First(firmware) /\ d = Dst(firmware)
    OBVIOUS
  <2>2. f \in Nat /\ d \in Nat /\ d < f
    BY <1>3, <2>1, FirstIs
  <2>3. next \in Nat /\ base = d /\ f =< next
    BY <1>2, <1>3, <2>1 DEF Typed
  <2> QED
    BY <2>2, <2>3 DEF UsedCount
<1>5. table' \in Tables /\ table'.mirror = table.mirror
  <2>1. table \in Tables /\ cr3 \in Frames
    BY <1>2 DEF Typed
  <2> QED
    BY <1>1, <1>4, <2>1 DEF Tables
<1>6. Typed(phase', mem', mmap', cr3', base', next', available', table', seg', kernel')
  BY <1>1, <1>2, <1>5 DEF Typed
<1>7. Supplied'
  BY <1>1, <1>3, <1>5 DEF Supplied
<1>8. Mapped /\ Mapped'
  BY <1>1 DEF Mapped
<1>9. Extended'
  BY <1>1, <1>8 DEF BootInv, Extended
<1>10. Untouched' /\ Progress'
  BY <1>1 DEF Untouched, Progress
<1> QED
  BY <1>1, <1>6, <1>7, <1>9, <1>10, TypesAreNext DEF BootInv

LEMMA MapSegmentKeeps == ASSUME BootInv, MapSegment PROVE BootInv'
<1>1. /\ phase = "loading" /\ phase' \in {"loading", "aborted"}
      /\ seg =< Len(kernel.segments) /\ seg' = seg + 1
      /\ mem' = SegmentState.m /\ next' = SegmentState.next /\ available' = SegmentState.available
      /\ firmware' = firmware /\ kernel' = kernel /\ mmap' = mmap /\ cr3' = cr3 /\ base' = base
  BY DEF MapSegment, SegmentState
<1>2. table' = [table EXCEPT !.start = IF @ = 0 THEN kernel.segments[seg].vaddr ELSE @,
                             !.pages = IF @ = 0 THEN SegmentPages(seg) ELSE @]
  BY DEF MapSegment
<1>3. Typed(phase, mem, mmap, cr3, base, next, available, table, seg, kernel)
  BY TypesAre DEF BootInv
<1>4. firmware \in Firmwares /\ kernel \in Kernels
  BY DEF BootInv
<1>5. seg \in 1 .. Len(kernel.segments) /\ seg + 1 \in 1 .. Len(kernel.segments) + 1
  <2>1. Len(kernel.segments) \in Nat /\ seg \in 1 .. Len(kernel.segments) + 1
    BY <1>3, <1>4, SegmentsAre DEF Typed
  <2> QED
    BY <1>1, <2>1
<1>6. /\ IsState(SegmentState) /\ next =< SegmentState.next
      /\ SegmentState.next + SegmentState.available = next + available
      /\ SegmentPages(seg) \in Nat
  <2>1. mem \in Memories /\ next \in Nat /\ available \in Int
    BY <1>3 DEF Typed
  <2> QED
    BY <1>4, <1>5, <2>1, SegmentTyped
<1>7. mem' \in Memories /\ next' \in Nat /\ available' \in Int /\ next =< next'
      /\ next' + available' = next + available
  BY <1>1, <1>6 DEF IsState
<1>8. table' \in Tables /\ table'.mirror = table.mirror
  <2>1. table \in Tables
    BY <1>3 DEF Typed
  <2>2. PICK va, n : va = kernel.segments[seg].vaddr /\ n = SegmentPages(seg)
    OBVIOUS
  <2>3. va \in Nat /\ n \in Nat
    BY <1>4, <1>5, <1>6, <2>2, SegmentsAre
  <2>4. PICK x, y : x = (IF table.start = 0 THEN va ELSE table.start)
                    /\ y = (IF table.pages = 0 THEN n ELSE table.pages)
    OBVIOUS
  <2>5. table.start \in Nat /\ table.pages \in Nat
    BY <2>1 DEF Tables
  <2>6. x \in Nat /\ y \in Nat
    BY <2>3, <2>4, <2>5
  <2>7. table' = [table EXCEPT !.start = x, !.pages = y]
    BY <1>2, <2>1, <2>2, <2>4 DEF Tables
  <2> QED
    BY <2>1, <2>6, <2>7 DEF Tables
<1>9. Typed(phase', mem', mmap', cr3', base', next', available', table', seg', kernel')
  BY <1>1, <1>3, <1>5, <1>7, <1>8 DEF Typed
<1>10. /\ Ready(firmware) /\ cr3 = Root(firmware) /\ base = Dst(firmware) /\ First(firmware) =< next
       /\ next + available = Limit(firmware) /\ table.mirror = Mirror(firmware)
  BY <1>1 DEF BootInv, Supplied, Mapped
<1>11. Supplied'
  <2>1. First(firmware) \in Nat /\ next \in Nat
    BY <1>3, <1>4, <1>10, FirstIs DEF Typed
  <2>2. First(firmware) =< next'
    BY <1>7, <1>10, <2>1
  <2> QED
    BY <1>1, <1>7, <1>8, <1>10, <2>2 DEF Supplied
<1>12. Extended'
  <2>1. SUFFICES ASSUME next' =< Limit(firmware)
                 PROVE  Grown(mem', firmware, next') /\ Loaded(mem', cr3, firmware, kernel, seg + 1)
    BY <1>1 DEF Extended
  <2>2. next =< Limit(firmware)
    <3>1. Limit(firmware) \in Nat /\ next \in Nat
      BY <1>3, <1>4, <1>10, FirstIs DEF Typed
    <3> QED
      BY <1>7, <2>1, <3>1
  <2>3. Grown(mem, firmware, next) /\ Loaded(mem, cr3, firmware, kernel, seg)
    BY <1>1, <2>2 DEF BootInv, Extended, Mapped
  <2>4. /\ Grown(SegmentState.m, firmware, SegmentState.next)
        /\ SegmentAdded(mem, SegmentState.m, Root(firmware), firmware, kernel, seg)
    <3>1. SegmentState.next =< Limit(firmware) /\ available \in Int
      BY <1>1, <1>3, <2>1 DEF Typed
    <3> QED
      BY <1>4, <1>5, <1>10, <2>3, <3>1, SegmentGrown
  <2>5. SegmentAdded(mem, mem', cr3, firmware, kernel, seg)
    BY <1>1, <1>10, <2>4
  <2>6. Loaded(mem', cr3, firmware, kernel, seg + 1)
    BY <1>4, <1>5, <2>3, <2>5, LoadedMore
  <2> QED
    BY <1>1, <2>4, <2>6
<1>13. Untouched' /\ Progress'
  BY <1>1 DEF Untouched, Progress
<1> QED
  BY <1>1, <1>4, <1>9, <1>11, <1>12, <1>13, TypesAreNext DEF BootInv

\* Nothing changes but the phase, which a failure may end.
OnlyPhase ==
    UNCHANGED <<firmware, kernel, mem, mmap, cr3, base, next, available, table, seg>>

LEMMA PhaseKeeps ==
    ASSUME BootInv, OnlyPhase,
           \/ phase' = phase
           \/ phase \in {"services", "exited"} /\ phase' \in {"exited", "aborted"}
           \/ phase = "loading" /\ seg > Len(kernel.segments) /\ phase' = "kernel"
    PROVE  BootInv'
<1>1. /\ firmware' = firmware /\ kernel' = kernel /\ mem' = mem /\ mmap' = mmap /\ cr3' = cr3
      /\ base' = base /\ next' = next /\ available' = available /\ table' = table /\ seg' = seg
  BY DEF OnlyPhase
<1>2. Typed(phase, mem, mmap, cr3, base, next, available, table, seg, kernel)
  BY TypesAre DEF BootInv
<1>3. phase' \in {"services", "exited", "mapping", "loading", "kernel", "aborted"}
  BY <1>2 DEF Typed
<1>4. Typed(phase', mem', mmap', cr3', base', next', available', table', seg', kernel')
  BY <1>1, <1>2, <1>3 DEF Typed
<1>5. Mapped' => Mapped
  BY DEF Mapped
<1>6. Supplied'
  BY <1>1, <1>5 DEF BootInv, Supplied
<1>7. Extended'
  BY <1>1, <1>5 DEF BootInv, Extended
<1>8. Untouched' /\ Progress'
  BY <1>1 DEF BootInv, Untouched, Progress
<1> QED
  BY <1>1, <1>4, <1>6, <1>7, <1>8, TypesAreNext DEF BootInv

(* While the loader runs, pages are given out in order from the first page *)
(* after the tables, and as long as they are in the copy the tables keep   *)
(* their form and map the segments so far (uefi_mem.c, uefi_boot.c:320).   *)
THEOREM BootInvariant == Spec => []BootInv
<1>1. Init => BootInv
  BY InitHas
<1>2. BootInv /\ [Next]_vars => BootInv'
  <2> SUFFICES ASSUME BootInv, [Next]_vars PROVE BootInv'
    OBVIOUS
  <2>1. CASE ExitBootServices
    <3>1. OnlyPhase /\ phase \in {"services", "exited"} /\ phase' \in {"exited", "aborted"}
      BY <2>1 DEF ExitBootServices, OnlyPhase
    <3> QED
      BY <3>1, PhaseKeeps
  <2>2. CASE InitVirtualMapping
    BY <2>2, InitVirtualMappingKeeps
  <2>3. CASE InitVirtualMappingFails
    <3>1. OnlyPhase /\ phase \in {"services", "exited"} /\ phase' \in {"exited", "aborted"}
      BY <2>3 DEF InitVirtualMappingFails, OnlyPhase
    <3> QED
      BY <3>1, PhaseKeeps
  <2>4. CASE GetMappingPointersAndCount
    BY <2>4, GetPointersKeeps
  <2>5. CASE MapSegment
    BY <2>5, MapSegmentKeeps
  <2>6. CASE CallKernel
    <3>1. OnlyPhase /\ phase = "loading" /\ seg > Len(kernel.segments) /\ phase' = "kernel"
      BY <2>6 DEF CallKernel, OnlyPhase
    <3> QED
      BY <3>1, PhaseKeeps
  <2>7. CASE UNCHANGED vars
    <3>1. OnlyPhase /\ phase' = phase
      BY <2>7 DEF vars, OnlyPhase
    <3> QED
      BY <3>1, PhaseKeeps
  <2> QED
    BY <2>1, <2>2, <2>3, <2>4, <2>5, <2>6, <2>7 DEF Next
<1> QED
  BY <1>1, <1>2, PTL DEF Spec

-----------------------------------------------------------------------------
(* The properties *)

(* What the invariant says while no page beyond the copy has been taken.   *)
LEMMA WithinHas ==
    ASSUME BootInv, Within
    PROVE  /\ firmware \in Firmwares /\ kernel \in Kernels /\ Ready(firmware)
           /\ cr3 = Root(firmware) /\ base = Dst(firmware) /\ table.mirror = Mirror(firmware)
           /\ next \in Nat /\ next =< Limit(firmware)
           /\ Grown(mem, firmware, next) /\ Loaded(mem, cr3, firmware, kernel, seg)
<1>1. Mapped
  BY DEF Within, Mapped
<1>2. /\ firmware \in Firmwares /\ kernel \in Kernels /\ Ready(firmware)
      /\ cr3 = Root(firmware) /\ base = Dst(firmware) /\ table.mirror = Mirror(firmware)
      /\ next + available = Limit(firmware)
  BY <1>1 DEF BootInv, Supplied
<1>3. next \in Nat /\ available \in Int /\ available >= 0
  BY TypesAre DEF BootInv, Typed, Within
<1>4. Limit(firmware) \in Nat
  BY <1>2, FirstIs
<1>5. next =< Limit(firmware)
  BY <1>2, <1>3, <1>4
<1> QED
  BY <1>1, <1>2, <1>3, <1>5 DEF BootInv, Extended

\* A page of the firmware's part and its copy in the mirror.
LEMMA LowWalks ==
    ASSUME BootInv, Within, NEW n \in LowPages
    PROVE  /\ Translate(mem, cr3, n) = Translate(firmware.mem, firmware.cr3, n)
           /\ Translate(mem, cr3, n + table.mirror * N * N * N)
                = Translate(firmware.mem, firmware.cr3, n)
<1>1. /\ firmware \in Firmwares /\ Ready(firmware) /\ cr3 = Root(firmware)
      /\ table.mirror = Mirror(firmware) /\ Grown(mem, firmware, next)
  BY WithinHas
<1>2. PICK k, s, a : k = Count(firmware) /\ s = Mirror(firmware) /\ a = n \div (N * N * N)
  OBVIOUS
<1>3. k \in Nat /\ k > 0 /\ 2 * k < N /\ N \in Nat \ {0}
  BY <1>1, <1>2, Counted, Positive
<1>4. k =< N
  BY <1>3
<1>5. s = N - 1 - k /\ s \in Nat
  BY <1>2, <1>3 DEF Mirror
<1>6. n \in 0 .. k * N * N * N - 1
  BY <1>2 DEF LowPages, Count
<1>7. n \in Nat /\ a \in 0 .. k - 1 /\ IndexOf(n)[1] = a
  BY <1>2, <1>3, <1>4, <1>6, LowIndex
<1>8. PICK b, c, d : b = IndexOf(n)[2] /\ c = IndexOf(n)[3] /\ d = IndexOf(n)[4]
  OBVIOUS
<1>9. b \in Idx /\ c \in Idx /\ d \in Idx
  BY <1>7, <1>8, InTable
<1>10. Translate(firmware.mem, firmware.cr3, n) = WalkOf(firmware.mem, firmware.cr3, a, b, c, d)
  BY <1>7, <1>8, TranslateWalks
<1>11. Translate(mem, cr3, n) = WalkOf(mem, cr3, a, b, c, d)
  BY <1>7, <1>8, TranslateWalks
<1>12. Translate(mem, cr3, n + s * N * N * N) = WalkOf(mem, cr3, a + s, b, c, d)
  <2>1. a + s < N
    BY <1>3, <1>5, <1>7
  <2>2. IndexOf(n + s * N * N * N) = <<a + s, b, c, d>>
    BY <1>2, <1>5, <1>7, <1>8, <2>1, MirrorIndex
  <2> QED
    BY <2>2, TranslateWalks
<1>13. \A j \in {a, a + s} :
          WalkOf(mem, cr3, j, b, c, d) = WalkOf(firmware.mem, firmware.cr3, a, b, c, d)
  BY <1>1, <1>2, <1>7, <1>9, WalksAlike
<1> QED
  BY <1>1, <1>2, <1>10, <1>11, <1>12, <1>13

(* The loader's state has its types in every phase, also where more pages  *)
(* are taken than the copy has (uefi_mem.c:13).                            *)
THEOREM BootTypes == Spec => []TypeOK
<1>1. BootInv => TypeOK
  BY DEF BootInv
<1> QED
  BY <1>1, BootInvariant, PTL

(* Everything the firmware mapped stays mapped to the same frame.          *)
THEOREM IdentityStays == Spec => []IdentityKept
<1>1. BootInv => IdentityKept
  BY LowWalks DEF IdentityKept
<1> QED
  BY <1>1, BootInvariant, PTL

(* The mirror maps what the firmware mapped, as far up as table.mirror.    *)
THEOREM MirrorFollows == Spec => []MirrorMatches
<1>1. BootInv => MirrorMatches
  BY LowWalks DEF MirrorMatches
<1> QED
  BY <1>1, BootInvariant, PTL

(* All tables but the firmware's of 4 KiB pages are in the part of the     *)
(* copy that was given out.                                                *)
THEOREM TablesStayInCopy == Spec => []TablesInCopy
<1>1. ASSUME BootInv, Within PROVE TablesInUse \subseteq Copy \cap (0 .. next - 1)
  <2>1. /\ firmware \in Firmwares /\ Ready(firmware) /\ cr3 = Root(firmware)
        /\ base = Dst(firmware) /\ next \in Nat /\ next =< Limit(firmware)
        /\ Grown(mem, firmware, next)
    BY <1>1, WithinHas
  <2>2. \A f \in Used(mem, firmware) : f \in Nat /\ Dst(firmware) =< f /\ f < next
    BY <2>1, TablesInside
  <2>3. TablesInUse = Used(mem, firmware)
    BY <2>1 DEF TablesInUse, Used
  <2>4. PICK d, p : d = Dst(firmware) /\ p = Src(firmware).pages
    OBVIOUS
  <2>5. d \in Nat /\ p \in Nat
    BY <2>1, <2>4, FirstIs, PlaceIs DEF Apart
  <2>6. next =< d + p
    BY <2>1, <2>4 DEF Limit
  <2>7. Copy = d .. d + p - 1
    BY <2>1, <2>4 DEF Copy, Src
  <2>8. \A f \in Nat : d =< f /\ f < next => f \in d .. d + p - 1 /\ f \in 0 .. next - 1
    BY <2>1, <2>5, <2>6
  <2> QED
    BY <2>2, <2>3, <2>4, <2>7, <2>8
<1>2. BootInv => TablesInCopy
  BY <1>1 DEF TablesInCopy
<1> QED
  BY <1>2, BootInvariant, PTL

(* While pages are available, nothing outside the copy is written.         *)
THEOREM CopyOnlyWritten == Spec => []OnlyCopyWritten
<1>1. ASSUME BootInv, Within PROVE \A f \in Frames \ Copy : mem[f] = firmware.mem[f]
  <2>1. /\ firmware \in Firmwares /\ Ready(firmware) /\ base = Dst(firmware)
        /\ Grown(mem, firmware, next)
    BY <1>1, WithinHas
  <2>2. Outside(mem, firmware.mem, Dst(firmware), Limit(firmware))
    BY <2>1, GrownHas
  <2>3. PICK d, p : d = Dst(firmware) /\ p = Src(firmware).pages
    OBVIOUS
  <2>4. d \in Nat /\ p \in Nat
    BY <2>1, <2>3, FirstIs, PlaceIs DEF Apart
  <2>5. Dst(firmware) .. Limit(firmware) - 1 = Copy
    BY <2>1, <2>3, <2>4 DEF Copy, Src, Limit
  <2> QED
    BY <2>2, <2>5 DEF Outside
<1>2. BootInv => OnlyCopyWritten
  BY <1>1 DEF OnlyCopyWritten
<1> QED
  BY <1>2, BootInvariant, PTL

(* When the kernel is called, its bytes are at their addresses, also where *)
(* segments share a page.                                                  *)
THEOREM KernelIsInPlace == Spec => []KernelInPlace
<1>1. ASSUME BootInv, Within, phase = "kernel",
             NEW i \in 1 .. Len(kernel.segments), NEW x \in 0 .. kernel.segments[i].filesize - 1
      PROVE  Translate(mem, cr3, (kernel.segments[i].vaddr + x) \div PageUnits)
                 = firmware.image + (kernel.segments[i].offset + x) \div PageUnits
  <2>1. firmware \in Firmwares /\ kernel \in Kernels /\ Loaded(mem, cr3, firmware, kernel, seg)
    BY <1>1, WithinHas
  <2>2. i < seg
    <3>1. seg > Len(kernel.segments) /\ Len(kernel.segments) \in Nat
      BY <1>1, <2>1, SegmentsAre DEF BootInv, Progress
    <3>2. seg \in Int
      BY <1>1, <3>1, TypesAre DEF BootInv, Typed
    <3> QED
      BY <3>1, <3>2
  <2>3. PICK n : n = (kernel.segments[i].vaddr + x) \div PageUnits
    OBVIOUS
  <2>4. /\ n \in PagesOf(kernel, i)
        /\ Target(firmware, kernel, i, n) = firmware.image + (kernel.segments[i].offset + x) \div PageUnits
    BY <2>1, <2>3, BytePlace
  <2>5. Translate(mem, cr3, n) = Target(firmware, kernel, i, n)
    BY <2>1, <2>2, <2>4 DEF Loaded
  <2> QED
    BY <2>3, <2>4, <2>5
<1>2. BootInv => KernelInPlace
  BY <1>1 DEF KernelInPlace
<1> QED
  BY <1>2, BootInvariant, PTL

=============================================================================
