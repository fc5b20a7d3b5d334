------------------------- MODULE PageAllocator_proofs -------------------------
(***************************************************************************)
(* For every address space, every number of frames and every size of a     *)
(* table: two pages that are held are never the same and never share a     *)
(* frame, whatever the map of virtual ranges answers.  With the map that   *)
(* VirtualMap_proofs shows to be kept, a call that fails at some page      *)
(* leaves every translation as it was, and the state stays well formed.    *)
(***************************************************************************)
EXTENDS PageAllocator, VirtualMap_proofs

-----------------------------------------------------------------------------
(* Arithmetic *)

LEMMA PageOfAddress == \A a \in Address : PageOf(a) \in Pages
<1> SUFFICES ASSUME NEW a \in Address PROVE PageOf(a) \in Pages
  OBVIOUS
<1>1. /\ a \in Nat /\ a =< AddrMod - 1 /\ AddrMod - 1 \in Nat /\ Page \in Nat \ {0}
  BY VirtualAssumption DEF Address
<1>2. \A x, y \in Nat, d \in Nat \ {0} : x =< y => x \div d \in Nat /\ x \div d =< y \div d
  <2> SUFFICES ASSUME NEW x \in Nat, NEW y \in Nat, NEW d \in Nat \ {0}, x =< y
               PROVE  x \div d \in Nat /\ x \div d =< y \div d
    OBVIOUS
  <2>1. /\ x \div d \in Int /\ y \div d \in Int
        /\ d * (x \div d) =< x /\ x < d * (x \div d) + d
        /\ d * (y \div d) =< y /\ y < d * (y \div d) + d
    OBVIOUS
  <2>2. x \div d \in Nat
    OBVIOUS
  <2>3. \A q, r \in Int : q > r => d * q >= d * r + d
    OBVIOUS
  <2> QED
    BY <2>1, <2>2, <2>3
<1> QED
  BY <1>1, <1>2 DEF PageOf, Pages

LEMMA AddType == \A x \in Int, y \in Int : Add(x, y) \in Address
BY VirtualAssumption DEF Add, Address

-----------------------------------------------------------------------------
(* The state the functions work on *)

IsSys(s) == s = [m |-> s.m, pt |-> s.pt, tables |-> s.tables, pool |-> s.pool,
                 retired |-> s.retired]

LEMMA SysIs == IsSys(Sys) /\ Sys.pt = pt /\ Sys.pool = pool
BY DEF IsSys, Sys

LEMMA WithMap ==
    ASSUME NEW s, IsSys(s), NEW y
    PROVE  /\ IsSys([s EXCEPT !.m = y])
           /\ [s EXCEPT !.m = y].pt = s.pt /\ [s EXCEPT !.m = y].pool = s.pool
BY DEF IsSys

LEMMA WithPool ==
    ASSUME NEW s, IsSys(s)
    PROVE  /\ IsSys([s EXCEPT !.pool = @ - 1])
           /\ [s EXCEPT !.pool = @ - 1].pt = s.pt
           /\ [s EXCEPT !.pool = @ - 1].pool = s.pool - 1
BY DEF IsSys

LEMMA WithBoth ==
    ASSUME NEW s, IsSys(s), NEW y
    PROVE  /\ IsSys([s EXCEPT !.pool = @ - 1, !.m = y])
           /\ [s EXCEPT !.pool = @ - 1, !.m = y].pt = s.pt
           /\ [s EXCEPT !.pool = @ - 1, !.m = y].pool = s.pool - 1
<1> DEFINE s1 == [s EXCEPT !.pool = @ - 1]
           s2 == [s EXCEPT !.pool = @ - 1, !.m = y]
<1>1. s2 = [s1 EXCEPT !.m = y]
  OBVIOUS
<1>2. IsSys(s1) /\ s1.pt = s.pt /\ s1.pool = s.pool - 1
  BY WithPool
<1> HIDE DEF s1, s2
<1>3. IsSys(s2) /\ s2.pt = s1.pt /\ s2.pool = s1.pool
  BY <1>1, <1>2, WithMap
<1> QED
  BY <1>2, <1>3 DEF s2

LEMMA RetireIs ==
    ASSUME NEW s, IsSys(s), NEW f
    PROVE  IsSys(Retire(s, f)) /\ Retire(s, f).pt = s.pt /\ Retire(s, f).pool = s.pool
BY DEF IsSys, Retire

(* page_map takes a frame for a table only if there is one, and changes    *)
(* only the entry of a page that was not mapped (memory.c:21-77).          *)
LEMMA PtMapIs ==
    ASSUME NEW s, IsSys(s), NEW a, NEW f, NEW r, r = PtMap(s, a, f)
    PROVE  /\ IsSys(r.sys) /\ r.ret \in {-1, 0, 1}
           /\ r.sys.pool = s.pool \/ (s.pool # 0 /\ r.sys.pool = s.pool - 1)
           /\ r.ret # 0 => r.sys.pt = s.pt
           /\ r.ret = 1 => s.pt[PageOf(a)] # 0
           /\ r.ret = 0 => /\ s.pt[PageOf(a)] = 0
                           /\ r.sys.pt = [s.pt EXCEPT ![PageOf(a)] = f]
<1> DEFINE t  == PageOf(a) \div TableSpan
           s1 == IF t \in s.tables THEN s ELSE [s EXCEPT !.tables = @ \cup {t}, !.pool = @ - 1]
<1>1. /\ IsSys(s1) /\ s1.pt = s.pt
      /\ s1.pool = IF t \in s.tables THEN s.pool ELSE s.pool - 1
  BY DEF IsSys
<1>2. r = IF t \notin s.tables /\ s.pool = 0 THEN [sys |-> s, ret |-> -1]
          ELSE IF s1.pt[PageOf(a)] # 0 THEN [sys |-> s1, ret |-> 1]
          ELSE [sys |-> [s1 EXCEPT !.pt[PageOf(a)] = f], ret |-> 0]
  BY DEF PtMap
<1> HIDE DEF s1, t
<1> DEFINE s2 == [s1 EXCEPT !.pt[PageOf(a)] = f]
<1>3. IsSys(s2) /\ s2.pt = [s1.pt EXCEPT ![PageOf(a)] = f] /\ s2.pool = s1.pool
  BY <1>1 DEF IsSys
<1>4. CASE t \notin s.tables /\ s.pool = 0
  BY <1>2, <1>4
<1>5. CASE ~(t \notin s.tables /\ s.pool = 0) /\ s1.pt[PageOf(a)] # 0
  BY <1>1, <1>2, <1>5
<1>6. CASE ~(t \notin s.tables /\ s.pool = 0) /\ s1.pt[PageOf(a)] = 0
  <2>1. r = [sys |-> s2, ret |-> 0]
    BY <1>2, <1>6
  <2> HIDE DEF s2
  <2>2. /\ IsSys(r.sys) /\ r.sys.pt = [s1.pt EXCEPT ![PageOf(a)] = f] /\ r.sys.pool = s1.pool
        /\ r.ret = 0
    BY <1>3, <2>1
  <2> QED
    BY <1>1, <1>6, <2>2
<1> QED
  BY <1>4, <1>5, <1>6

-----------------------------------------------------------------------------
(* The invariant *)

(* Frames that are mapped were taken from the pool, are mapped once, and   *)
(* the page of the caller's variable has one from before.                  *)
Mapping(p, q) ==
    /\ p \in [Pages -> Nat] /\ q \in 0 .. NumFrames
    /\ \A n \in Pages : p[n] # 0 => p[n] > q
    /\ \A n, k \in Pages : n # k /\ p[n] # 0 => p[n] # p[k]
    /\ p[PageOf(FrameVar)] > NumFrames

Given ==
    /\ own \in [Address -> {0, 1}]
    /\ \A a \in Owned : pt[PageOf(a)] \in 1 .. NumFrames
    /\ \A a, b \in Owned : a # b => PageOf(a) # PageOf(b)

Apart == Mapping(pt, pool) /\ Given

LEMMA SysSizes ==
    /\ NumFrames \in Nat /\ Page \in Nat \ {0} /\ AddrMod \in Nat \ {0}
    /\ FrameVar \in Address /\ PageOf(FrameVar) \in Pages
BY VirtualAssumption, PageAllocatorAssumption, PageOfAddress DEF Address

LEMMA Fewer ==
    ASSUME NEW p, NEW q, Mapping(p, q), NEW q2 \in Int, q2 = q \/ (q # 0 /\ q2 = q - 1)
    PROVE  Mapping(p, q2)
BY SysSizes DEF Mapping

(* The page of the variable has a frame from before, so only other pages   *)
(* are mapped or unmapped.                                                 *)
LEMMA MapsOne ==
    ASSUME NEW p, NEW q, Mapping(p, q), NEW f \in 1 .. NumFrames, f > q,
           \A n \in Pages : p[n] # f,
           NEW n, p[n] = 0,
           NEW p2, p2 = [p EXCEPT ![n] = f]
    PROVE  Mapping(p2, q)
<1>1. CASE n \notin Pages
  <2>1. p2 = p
    BY <1>1 DEF Mapping
  <2> QED
    BY <2>1
<1>2. CASE n \in Pages
  <2>1. /\ p2 \in [Pages -> Nat] /\ p2[n] = f /\ \A k \in Pages : k # n => p2[k] = p[k]
    BY <1>2 DEF Mapping
  <2>2. n # PageOf(FrameVar)
    BY SysSizes DEF Mapping
  <2> QED
    BY <1>2, <2>1, <2>2, SysSizes DEF Mapping
<1> QED
  BY <1>1, <1>2

(* Pages that hold nothing from before are unmapped.                       *)
LEMMA Unmaps ==
    ASSUME NEW p, NEW q, Mapping(p, q), NEW S, PageOf(FrameVar) \notin S,
           NEW p2, p2 = [n \in Pages |-> IF n \in S THEN 0 ELSE p[n]]
    PROVE  Mapping(p2, q)
<1>1. p2 \in [Pages -> Nat] /\ p2[PageOf(FrameVar)] = p[PageOf(FrameVar)]
  BY SysSizes DEF Mapping
<1> QED
  BY <1>1 DEF Mapping

(* What a call that ends leaves, and what its caller is given: pages that  *)
(* were not mapped and are now, each to a frame of its own.                *)
Result(x) ==
    /\ Mapping(x.sys.pt, x.sys.pool)
    /\ \A n \in Pages : pt[n] # 0 => x.sys.pt[n] = pt[n]
    /\ \A c \in x.got \cap Address : /\ pt[PageOf(c)] = 0
                                     /\ x.sys.pt[PageOf(c)] \in 1 .. NumFrames
    /\ \A c, d \in x.got \cap Address : c # d => PageOf(c) # PageOf(d)
    /\ x.got = {} /\ x.status = "ok" => x.sys.pt = pt

LEMMA EndsApart ==
    ASSUME Apart, NEW o, NEW x, Result(x), Ends(o, x)
    PROVE  Apart'
<1>1. /\ pt' = x.sys.pt /\ pool' = x.sys.pool
      /\ own' = [a \in Address |-> own[a] + (IF a \in x.got THEN 1 ELSE 0)]
  BY DEF Ends
<1>2. \A c \in x.got \cap Address : own[c] = 0
  <2> SUFFICES ASSUME NEW c \in x.got \cap Address, own[c] # 0 PROVE FALSE
    OBVIOUS
  <2>1. c \in Owned
    BY DEF Apart, Given, Owned
  <2> QED
    BY <2>1 DEF Apart, Given, Result
<1>3. own' \in [Address -> {0, 1}]
  BY <1>1, <1>2 DEF Apart, Given
<1>4. \A a \in Owned' : a \in Address /\ (a \in Owned \/ a \in x.got \cap Address)
  BY <1>1 DEF Owned, Apart, Given
<1>5. \A a \in Owned : pt[PageOf(a)] \in 1 .. NumFrames /\ PageOf(a) \in Pages
  BY PageOfAddress DEF Apart, Given, Owned
<1>6. \A a \in Owned' : pt'[PageOf(a)] \in 1 .. NumFrames
  BY <1>1, <1>4, <1>5 DEF Result
<1>7. \A a, b \in Owned' : a # b => PageOf(a) # PageOf(b)
  BY <1>4, <1>5 DEF Result, Apart, Given
<1> QED
  BY <1>1, <1>3, <1>6, <1>7 DEF Apart, Given, Result

(* A call that gives nothing and changes no translation.                   *)
LEMMA GivesNothing ==
    ASSUME Mapping(pt, pool), NEW x, x.got = {}, x.sys.pt = pt, Mapping(pt, x.sys.pool)
    PROVE  Result(x)
BY DEF Result

-----------------------------------------------------------------------------
(* One page *)

LEMMA OneResult ==
    ASSUME Mapping(pt, pool), NEW o, NEW target,
           o.ret = 0 => o.frame = target \/ pt[PageOf(target)] # 0,
           NEW x, x = AllocOne(o, target)
    PROVE  Result(x)
<1> DEFINE s == [Sys EXCEPT !.pool = @ - 1, !.m = o.m]
           r == PtMap(s, target, pool)
<1>1. IsSys(s) /\ s.pt = pt /\ s.pool = pool - 1
  BY SysIs, WithBoth
<1>2. x = IF pool = 0 THEN Fails(Sys)
          ELSE IF o.ret # 0 THEN Fails(Retire(s, pool))
          ELSE CASE r.ret = 0  -> Gets(r.sys, {o.frame})
                 [] r.ret = 1  -> Panics(r.sys)
                 [] r.ret = -1 ->
                      Fails([Retire(r.sys, pool) EXCEPT !.m = VirtualFree(@, target).m])
  BY DEF AllocOne
<1> HIDE DEF s
<1>3. /\ IsSys(r.sys) /\ r.ret \in {-1, 0, 1}
      /\ r.sys.pool = s.pool \/ (s.pool # 0 /\ r.sys.pool = s.pool - 1)
      /\ r.ret # 0 => r.sys.pt = s.pt
      /\ r.ret = 1 => s.pt[PageOf(target)] # 0
      /\ r.ret = 0 => /\ s.pt[PageOf(target)] = 0
                      /\ r.sys.pt = [s.pt EXCEPT ![PageOf(target)] = pool]
  BY <1>1, PtMapIs
<1> HIDE DEF r
<1>4. CASE pool = 0
  BY <1>2, <1>4, SysIs, GivesNothing DEF Fails
<1>5. CASE pool # 0 /\ o.ret # 0
  <2>1. x = Fails(Retire(s, pool))
    BY <1>2, <1>5
  <2>2. Retire(s, pool).pt = pt /\ Retire(s, pool).pool = pool - 1
    BY <1>1, RetireIs
  <2>3. pool - 1 \in Int
    BY DEF Mapping
  <2>4. Mapping(pt, pool - 1)
    BY <1>5, <2>3, Fewer
  <2> QED
    BY <2>1, <2>2, <2>4, GivesNothing DEF Fails
<1>6. CASE pool # 0 /\ o.ret = 0
  <2>1. pool \in 1 .. NumFrames /\ s.pool \in Int /\ r.sys.pool \in Int
    BY <1>1, <1>3, <1>6 DEF Mapping
  <2>2. Mapping(pt, s.pool)
    BY <1>1, <1>6, <2>1, Fewer
  <2>3. Mapping(pt, r.sys.pool)
    BY <1>3, <2>1, <2>2, Fewer
  <2>4. CASE r.ret = 1
    <3>1. x = Panics(r.sys)
      BY <1>2, <1>6, <2>4
    <3> QED
      BY <1>1, <1>3, <2>3, <2>4, <3>1, GivesNothing DEF Panics
  <2>5. CASE r.ret = -1
    <3> DEFINE y == VirtualFree(Retire(r.sys, pool).m, target).m
    <3>1. x = Fails([Retire(r.sys, pool) EXCEPT !.m = y])
      BY <1>2, <1>6, <2>5
    <3> HIDE DEF y
    <3>2. PICK u : u = [Retire(r.sys, pool) EXCEPT !.m = y]
      OBVIOUS
    <3>3. IsSys(Retire(r.sys, pool)) /\ Retire(r.sys, pool).pt = pt
          /\ Retire(r.sys, pool).pool = r.sys.pool
      BY <1>1, <1>3, <2>5, RetireIs
    <3>4. u.pt = pt /\ u.pool = r.sys.pool
      BY <3>2, <3>3, WithMap
    <3>5. x = Fails(u)
      BY <3>1, <3>2
    <3> QED
      BY <2>3, <3>4, <3>5, GivesNothing DEF Fails
  <2>6. CASE r.ret = 0
    <3> DEFINE n == PageOf(target)
    <3>1. pt[n] = 0 /\ r.sys.pt = [pt EXCEPT ![n] = pool]
      BY <1>1, <1>3, <2>6
    <3>2. x = Gets(r.sys, {target})
      BY <1>2, <1>6, <2>6, <3>1
    <3>3. x.sys = r.sys /\ x.got = {target}
      BY <3>2 DEF Gets
    <3>4. r.sys.pool < pool /\ \A k \in Pages : pt[k] # pool
      BY <1>1, <1>3, <2>1 DEF Mapping
    <3>5. Mapping(r.sys.pt, r.sys.pool)
      BY <2>1, <2>3, <3>1, <3>4, MapsOne
    <3>6. \A k \in Pages : pt[k] # 0 => r.sys.pt[k] = pt[k]
      BY <3>1 DEF Mapping
    <3>7. n \in Pages => r.sys.pt[n] = pool
      BY <3>1 DEF Mapping
    <3>8. target \in Address => n \in Pages
      BY PageOfAddress
    <3> HIDE DEF n
    <3> QED
      BY <2>1, <3>1, <3>3, <3>5, <3>6, <3>7, <3>8 DEF Result, n
  <2> QED
    BY <1>3, <2>4, <2>5, <2>6
<1> QED
  BY <1>4, <1>5, <1>6
-----------------------------------------------------------------------------
(* The loop of page_free_multiple *)

\* The recursive function exists: a longer one extends a shorter one.
LEMMA FreedRounds ==
    ASSUME NEW s, NEW a, NEW n \in Nat, NEW refused
    PROVE  \E g : /\ FreedMultiple(s, a, n, refused) = g[n]
                 /\ g[0] = s
                 /\ \A i \in 1 .. n : g[i] = FreeRound(g[i - 1], a, i - 1, refused)
<1> DEFINE Body(h, k) == [i \in 0 .. k |->
              IF i = 0 THEN s ELSE FreeRound(h[i - 1], a, i - 1, refused)]
           S == CHOOSE h : h = Body(h, n)
           T == {k \in Nat : \A h : h # Body(h, k)}
<1>1. FreedMultiple(s, a, n, refused) = S[n]
  BY DEF FreedMultiple
<1>2. T = {}
  <2> SUFFICES ASSUME T # {} PROVE FALSE
    OBVIOUS
  <2>1. T \in SUBSET Nat
    OBVIOUS
  <2>2. PICK k \in T : \A y \in T : ~(y < k)
    BY <2>1, Least
  <2>3. k \in Nat /\ \A h : h # Body(h, k)
    BY <2>2
  <2> HIDE DEF T
  <2>4. k # 0
    <3> DEFINE h == [i \in 0 .. 0 |-> s]
    <3>1. \A i \in 0 .. 0 : i = 0
      OBVIOUS
    <3>2. h = Body(h, 0)
      BY <3>1
    <3> HIDE DEF h
    <3> QED
      BY <2>3, <3>2
  <2>5. k - 1 \in Nat /\ k - 1 < k /\ k - 1 \notin T
    BY <2>2, <2>3, <2>4
  <2>6. PICK h : h = Body(h, k - 1)
    BY <2>5 DEF T
  <2> DEFINE h2 == [i \in 0 .. k |->
                IF i = k THEN FreeRound(h[k - 1], a, k - 1, refused) ELSE h[i]]
  <2>7. \A i \in 0 .. k - 1 : h2[i] = h[i]
    BY <2>3
  <2>8. \A i \in 0 .. k - 1 : h[i] = IF i = 0 THEN s ELSE FreeRound(h[i - 1], a, i - 1, refused)
    BY <2>3, <2>6
  <2>9. \A i \in 0 .. k : h2[i] = IF i = 0 THEN s ELSE FreeRound(h2[i - 1], a, i - 1, refused)
    <3> SUFFICES ASSUME NEW i \in 0 .. k
                 PROVE  h2[i] = IF i = 0 THEN s ELSE FreeRound(h2[i - 1], a, i - 1, refused)
      OBVIOUS
    <3>1. CASE i = k
      BY <2>3, <2>4, <2>7, <3>1
    <3>2. CASE i # k
      <4>1. i \in 0 .. k - 1 /\ (i # 0 => i - 1 \in 0 .. k - 1)
        BY <2>3, <3>2
      <4> QED
        BY <2>7, <2>8, <4>1
    <3> QED
      BY <3>1, <3>2
  <2>10. h2 = Body(h2, k)
    BY <2>9
  <2> HIDE DEF h2
  <2> QED
    BY <2>3, <2>10
<1>3. \E h : h = Body(h, n)
  BY <1>2
<1>4. S = Body(S, n)
  BY <1>3
<1> HIDE DEF S
<1>5. \A i \in 0 .. n : S[i] = IF i = 0 THEN s ELSE FreeRound(S[i - 1], a, i - 1, refused)
  BY <1>4
<1> HIDE DEF Body
<1>6. S[0] = s /\ \A i \in 1 .. n : S[i] = FreeRound(S[i - 1], a, i - 1, refused)
  BY <1>5
<1> QED
  BY <1>1, <1>6

LEMMA FreeRoundIs ==
    ASSUME NEW s, IsSys(s), s.pt \in [Pages -> Nat], NEW a, NEW i, NEW refused,
           NEW x, x = FreeRound(s, a, i, refused)
    PROVE  /\ IsSys(x) /\ x.pool = s.pool
           /\ x.pt = [p \in Pages |-> IF p = PageOf(Add(a, i * Page)) THEN 0 ELSE s.pt[p]]
<1> DEFINE n  == PageOf(Add(a, i * Page))
           y  == IF i \in refused THEN s.m ELSE VirtualFree(s.m, a).m
           s1 == [s EXCEPT !.pt[n] = 0]
<1>1. IsSys(s1) /\ s1.pool = s.pool /\ s1.pt = [s.pt EXCEPT ![n] = 0]
  BY DEF IsSys
<1>2. x = [s1 EXCEPT !.m = y]
  BY DEF FreeRound, IsSys
<1> HIDE DEF s1, y
<1>3. IsSys(x) /\ x.pool = s1.pool /\ x.pt = s1.pt
  <2>1. IsSys(s1)
    BY <1>1
  <2>2. /\ IsSys([s1 EXCEPT !.m = y])
        /\ [s1 EXCEPT !.m = y].pt = s1.pt /\ [s1 EXCEPT !.m = y].pool = s1.pool
    BY <2>1, WithMap
  <2> QED
    BY <1>2, <2>2
<1> HIDE DEF n
<1>4. [s.pt EXCEPT ![n] = 0] = [p \in Pages |-> IF p = n THEN 0 ELSE s.pt[p]]
  OBVIOUS
<1> QED
  BY <1>1, <1>3, <1>4 DEF n

(* The pages of the range are unmapped, whatever page_unmap returned.      *)
PagesFrom(a, n) == {PageOf(Add(a, j * Page)) : j \in 0 .. n - 1}

LEMMA FreedIs ==
    ASSUME NEW s, IsSys(s), s.pt \in [Pages -> Nat], NEW a \in Address, NEW n \in Nat, NEW refused,
           NEW x, x = FreedMultiple(s, a, n, refused)
    PROVE  /\ IsSys(x) /\ x.pool = s.pool
           /\ x.pt = [p \in Pages |-> IF p \in PagesFrom(a, n) THEN 0 ELSE s.pt[p]]
<1> DEFINE Done(y, i) ==
              /\ IsSys(y) /\ y.pool = s.pool
              /\ y.pt = [p \in Pages |-> IF p \in PagesFrom(a, i) THEN 0 ELSE s.pt[p]]
<1>1. PICK g : /\ x = g[n] /\ g[0] = s
               /\ \A i \in 1 .. n : g[i] = FreeRound(g[i - 1], a, i - 1, refused)
  BY FreedRounds
<1>2. Done(s, 0)
  BY DEF PagesFrom
<1>3. ASSUME NEW i \in Nat, NEW y, Done(y, i) PROVE Done(FreeRound(y, a, i, refused), i + 1)
  <2>1. PagesFrom(a, i + 1) = PagesFrom(a, i) \cup {PageOf(Add(a, i * Page))}
    <3>1. 0 .. (i + 1) - 1 = (0 .. i - 1) \cup {i}
      OBVIOUS
    <3> QED
      BY <3>1, Zenon DEF PagesFrom
  <2>2. PICK x2 : x2 = FreeRound(y, a, i, refused)
    OBVIOUS
  <2>3. IsSys(y) /\ y.pt \in [Pages -> Nat]
    BY <1>3
  <2>4. /\ IsSys(x2) /\ x2.pool = y.pool
        /\ x2.pt = [p \in Pages |-> IF p = PageOf(Add(a, i * Page)) THEN 0 ELSE y.pt[p]]
    BY <2>2, <2>3, FreeRoundIs
  <2>5. Done(x2, i + 1)
    BY <1>3, <2>1, <2>4
  <2> QED
    BY <2>2, <2>5
<1> HIDE DEF Done
<1> DEFINE T == {i \in 0 .. n : ~Done(g[i], i)}
<1>4. T = {}
  <2> SUFFICES ASSUME T # {} PROVE FALSE
    OBVIOUS
  <2>0. T \in SUBSET Nat
    OBVIOUS
  <2>1. PICK i \in T : \A y \in T : ~(y < i)
    <3> HIDE DEF T
    <3> QED
      BY <2>0, Least
  <2>2. i # 0
    <3>1. ~Done(g[i], i)
      BY <2>1
    <3> QED
      BY <1>1, <1>2, <3>1
  <2>3. i - 1 \in 0 .. n /\ i - 1 \in Nat /\ i \in 1 .. n /\ i - 1 < i /\ (i - 1) + 1 = i
    BY <2>1, <2>2
  <2>4. Done(g[i - 1], i - 1)
    BY <2>1, <2>3
  <2>5. Done(g[i], i)
    BY <1>1, <1>3, <2>3, <2>4
  <2> QED
    BY <2>1, <2>5
<1>5. Done(x, n)
  BY <1>1, <1>4
<1> QED
  BY <1>5 DEF Done

LEMMA UnwindIs ==
    ASSUME NEW s, IsSys(s), s.pt \in [Pages -> Nat], NEW base \in Address, NEW stride,
           NEW i \in Nat, NEW n, NEW refused, NEW x, x = Unwind(s, base, stride, i, n, refused)
    PROVE  /\ x.pool = s.pool
           /\ x.pt = [p \in Pages |-> IF p \in PagesFrom(base, i) THEN 0 ELSE s.pt[p]]
<1> DEFINE s1 == IF i > 0 THEN FreedMultiple(s, base, i, refused) ELSE s
           y  == FreeMultiple(s1.m, Add(base, i * stride), n - i).m
<1>1. /\ IsSys(s1) /\ s1.pool = s.pool
      /\ s1.pt = [p \in Pages |-> IF p \in PagesFrom(base, i) THEN 0 ELSE s.pt[p]]
  <2>1. CASE i > 0
    BY <2>1, FreedIs
  <2>2. CASE ~(i > 0)
    <3>1. PagesFrom(base, i) = {}
      BY <2>2 DEF PagesFrom
    <3> QED
      BY <2>2, <3>1
  <2> QED
    BY <2>1, <2>2
<1>2. x = [s1 EXCEPT !.m = y]
  BY DEF Unwind
<1> HIDE DEF s1, y
<1>3. IsSys(s1)
  BY <1>1
<1>4. [s1 EXCEPT !.m = y].pt = s1.pt /\ [s1 EXCEPT !.m = y].pool = s1.pool
  BY <1>3, WithMap
<1> QED
  BY <1>1, <1>2, <1>4

-----------------------------------------------------------------------------
(* The loop of the alloc_multiple functions *)

\* The states before and after each round, from s0 on.
Runs(g, s0, n, base, stride, refused) ==
    /\ g[0] = Gets(s0, {})
    /\ \A i \in 1 .. n :
          g[i] = IF i > 1 /\ g[i - 1].got = {} THEN g[i - 1]
                 ELSE AllocRound(g[i - 1].sys, base, stride, i - 1, n, refused)

LEMMA AllocRounds ==
    ASSUME NEW o, NEW n \in Nat, NEW base, NEW stride, NEW refused,
           o.status # "fault", o.ret = 0, NEW s0, s0 = [Sys EXCEPT !.m = o.m],
           NEW x, x = AllocMany(o, n, base, stride, refused)
    PROVE  \E g : x = g[n] /\ Runs(g, s0, n, base, stride, refused)
<1> DEFINE g0 == Gets([Sys EXCEPT !.m = o.m], {})
           Step(y, i) == IF i > 1 /\ y.got = {} THEN y
                         ELSE AllocRound(y.sys, base, stride, i - 1, n, refused)
           Body(h, k) == [i \in 0 .. k |->
              IF i = 0 THEN g0
              ELSE IF i > 1 /\ h[i - 1].got = {} THEN h[i - 1]
              ELSE AllocRound(h[i - 1].sys, base, stride, i - 1, n, refused)]
           S == CHOOSE h : h = Body(h, n)
           T == {k \in Nat : \A h : h # Body(h, k)}
<1>1. x = S[n]
  BY DEF AllocMany
<1>2. \A h, k : Body(h, k) = [i \in 0 .. k |-> IF i = 0 THEN g0 ELSE Step(h[i - 1], i)]
  OBVIOUS
<1> HIDE DEF g0, Step, Body
<1>3. T = {}
  <2> SUFFICES ASSUME T # {} PROVE FALSE
    OBVIOUS
  <2>1. T \in SUBSET Nat
    OBVIOUS
  <2>2. PICK k \in T : \A y \in T : ~(y < k)
    BY <2>1, Least
  <2>3. k \in Nat /\ \A h : h # Body(h, k)
    BY <2>2
  <2> HIDE DEF T
  <2>4. k # 0
    <3> DEFINE h == [i \in 0 .. 0 |-> g0]
    <3>1. \A i \in 0 .. 0 : i = 0
      OBVIOUS
    <3>2. h = [i \in 0 .. 0 |-> IF i = 0 THEN g0 ELSE Step(h[i - 1], i)]
      BY <3>1
    <3> HIDE DEF h
    <3> QED
      BY <1>2, <2>3, <3>2
  <2>5. k - 1 \in Nat /\ k - 1 < k /\ k - 1 \notin T
    BY <2>2, <2>3, <2>4
  <2>6. PICK h : h = Body(h, k - 1)
    BY <2>5 DEF T
  <2> DEFINE h2 == [i \in 0 .. k |-> IF i = k THEN Step(h[k - 1], k) ELSE h[i]]
  <2>7. \A i \in 0 .. k - 1 : h2[i] = h[i]
    BY <2>3
  <2>8. \A i \in 0 .. k - 1 : h[i] = IF i = 0 THEN g0 ELSE Step(h[i - 1], i)
    <3>1. h = [i \in 0 .. k - 1 |-> IF i = 0 THEN g0 ELSE Step(h[i - 1], i)]
      BY <1>2, <2>6
    <3> QED
      BY <3>1
  <2>9. \A i \in 0 .. k : h2[i] = IF i = 0 THEN g0 ELSE Step(h2[i - 1], i)
    <3> SUFFICES ASSUME NEW i \in 0 .. k
                 PROVE  h2[i] = IF i = 0 THEN g0 ELSE Step(h2[i - 1], i)
      OBVIOUS
    <3>1. CASE i = k
      BY <2>3, <2>4, <2>7, <3>1
    <3>2. CASE i # k
      <4>1. i \in 0 .. k - 1 /\ (i # 0 => i - 1 \in 0 .. k - 1)
        BY <2>3, <3>2
      <4> QED
        BY <2>7, <2>8, <4>1
    <3> QED
      BY <3>1, <3>2
  <2>10. h2 = [i \in 0 .. k |-> IF i = 0 THEN g0 ELSE Step(h2[i - 1], i)]
    BY <2>9
  <2> HIDE DEF h2
  <2> QED
    BY <1>2, <2>3, <2>10
<1>4. S = Body(S, n)
  BY <1>3
<1> HIDE DEF S
<1>5. \A i \in 0 .. n : S[i] = IF i = 0 THEN g0 ELSE Step(S[i - 1], i)
  <2>1. S = [i \in 0 .. n |-> IF i = 0 THEN g0 ELSE Step(S[i - 1], i)]
    BY <1>2, <1>4
  <2> QED
    BY <2>1
<1>6. S[0] = g0 /\ \A i \in 1 .. n : S[i] = Step(S[i - 1], i)
  BY <1>5
<1> QED
  BY <1>1, <1>6 DEF Step, g0, Runs

(* After i rounds that all succeeded, and after one that did not.          *)
Got(x, base, i) ==
    /\ IsSys(x.sys) /\ Mapping(x.sys.pt, x.sys.pool)
    /\ x.got = {Add(base, k * Page) : k \in 0 .. i - 1}
    /\ \A k \in 0 .. i - 1 :
          /\ pt[PageOf(Add(base, k * Page))] = 0
          /\ x.sys.pt[PageOf(Add(base, k * Page))] \in 1 .. NumFrames
    /\ \A j, k \in 0 .. i - 1 :
          j # k => PageOf(Add(base, j * Page)) # PageOf(Add(base, k * Page))
    /\ \A p \in Pages : p \notin PagesFrom(base, i) => x.sys.pt[p] = pt[p]

Undone(x) == x.got = {} /\ Result(x)

LEMMA GotKeeps ==
    ASSUME NEW x, NEW base \in Address, NEW i \in Nat, Got(x, base, i)
    PROVE  /\ \A p \in Pages : pt[p] # 0 => x.sys.pt[p] = pt[p]
           /\ \A p \in PagesFrom(base, i) : p \in Pages /\ pt[p] = 0 /\ x.sys.pt[p] # 0
<1>1. \A k \in 0 .. i - 1 : PageOf(Add(base, k * Page)) \in Pages
  <2> SUFFICES ASSUME NEW k \in 0 .. i - 1 PROVE PageOf(Add(base, k * Page)) \in Pages
    OBVIOUS
  <2>1. Add(base, k * Page) \in Address
    <3>1. base \in Int /\ k * Page \in Int
      BY SysSizes DEF Address
    <3> QED
      BY <3>1, AddType
  <2> QED
    BY <2>1, PageOfAddress
<1>2. \A p \in PagesFrom(base, i) : p \in Pages /\ pt[p] = 0 /\ x.sys.pt[p] # 0
  BY <1>1, SysSizes DEF Got, PagesFrom
<1>3. \A p \in Pages : p \notin PagesFrom(base, i) => x.sys.pt[p] = pt[p]
  BY DEF Got
<1> QED
  BY <1>2, <1>3

(* Everything that was mapped is unmapped again.                           *)
LEMMA UnwindRestores ==
    ASSUME Mapping(pt, pool), NEW x, NEW base \in Address, NEW i \in Nat, Got(x, base, i),
           NEW s, IsSys(s), s.pt = x.sys.pt, Mapping(pt, s.pool),
           NEW stride, NEW n, NEW refused,
           NEW y, y = Fails(Unwind(s, base, stride, i, n, refused))
    PROVE  Undone(y)
<1>1. s.pt \in [Pages -> Nat]
  BY DEF Got, Mapping
<1>2. PICK u : u = Unwind(s, base, stride, i, n, refused)
  OBVIOUS
<1>3. /\ u.pool = s.pool
      /\ u.pt = [p \in Pages |-> IF p \in PagesFrom(base, i) THEN 0 ELSE s.pt[p]]
  BY <1>1, <1>2, UnwindIs
<1>4. \A p \in Pages : u.pt[p] = pt[p]
  <2> SUFFICES ASSUME NEW p \in Pages PROVE u.pt[p] = pt[p]
    OBVIOUS
  <2>1. u.pt[p] = IF p \in PagesFrom(base, i) THEN 0 ELSE s.pt[p]
    BY <1>3
  <2>2. CASE p \in PagesFrom(base, i)
    BY <2>1, <2>2, GotKeeps
  <2>3. CASE p \notin PagesFrom(base, i)
    BY <2>1, <2>3 DEF Got
  <2> QED
    BY <2>2, <2>3
<1>5. u.pt = pt
  BY <1>3, <1>4 DEF Mapping
<1>6. y.sys = u /\ y.got = {}
  BY <1>2 DEF Fails
<1>7. Result(y)
  BY <1>3, <1>5, <1>6, GivesNothing
<1> QED
  BY <1>6, <1>7 DEF Undone

LEMMA RoundIs ==
    ASSUME Mapping(pt, pool), NEW x, NEW base \in Address, NEW i \in Nat, Got(x, base, i),
           NEW stride, Add(base, i * stride) = Add(base, i * Page), NEW n, NEW refused,
           NEW y, y = AllocRound(x.sys, base, stride, i, n, refused)
    PROVE  Got(y, base, i + 1) \/ Undone(y)
<1> DEFINE f  == x.sys.pool
           c  == Add(base, i * stride)
           s0 == [x.sys EXCEPT !.pool = @ - 1]
           r  == PtMap(s0, c, f)
<1>1. y = IF f = 0 THEN Fails(Unwind(x.sys, base, stride, i, n, refused))
          ELSE CASE r.ret = 0  -> Gets(r.sys, {Add(base, k * Page) : k \in 0 .. i})
                 [] r.ret = 1  -> Panics(r.sys)
                 [] r.ret = -1 -> Fails(Unwind(Retire(r.sys, f), base, stride, i, n, refused))
  BY DEF AllocRound
<1>c. c = Add(base, i * Page)
  OBVIOUS
<1> HIDE DEF c
<1>2. IsSys(x.sys) /\ Mapping(x.sys.pt, f)
  BY DEF Got
<1>3. IsSys(s0) /\ s0.pt = x.sys.pt /\ s0.pool = f - 1
  BY <1>2, WithPool
<1> HIDE DEF s0
<1>4. /\ IsSys(r.sys) /\ r.ret \in {-1, 0, 1}
      /\ r.sys.pool = s0.pool \/ (s0.pool # 0 /\ r.sys.pool = s0.pool - 1)
      /\ r.ret # 0 => r.sys.pt = s0.pt
      /\ r.ret = 0 => /\ s0.pt[PageOf(c)] = 0
                      /\ r.sys.pt = [s0.pt EXCEPT ![PageOf(c)] = f]
  BY <1>3, PtMapIs
<1> HIDE DEF r
<1>5. f \in 0 .. NumFrames /\ pool \in 0 .. NumFrames
  BY <1>2 DEF Mapping
<1>6. c \in Address /\ PageOf(c) \in Pages
  <2>1. base \in Int /\ i * Page \in Int
    BY SysSizes DEF Address
  <2> QED
    BY <1>c, <2>1, AddType, PageOfAddress
<1>7. \A q \in Int : Mapping(x.sys.pt, q) => Mapping(pt, q)
  <2> SUFFICES ASSUME NEW q \in Int, Mapping(x.sys.pt, q) PROVE Mapping(pt, q)
    OBVIOUS
  <2>1. \A p \in Pages : pt[p] # 0 => x.sys.pt[p] = pt[p]
    BY GotKeeps
  <2> QED
    BY <2>1 DEF Mapping
<1>8. CASE f = 0
  <2>1. Mapping(pt, f)
    BY <1>2, <1>5, <1>7
  <2>2. y = Fails(Unwind(x.sys, base, stride, i, n, refused))
    BY <1>1, <1>8
  <2> QED
    BY <1>2, <2>1, <2>2, UnwindRestores
<1>9. CASE f # 0
  <2>1. s0.pool \in Int /\ r.sys.pool \in Int /\ r.sys.pool < f /\ f \in 1 .. NumFrames
    BY <1>3, <1>4, <1>5, <1>9
  <2>2. Mapping(x.sys.pt, s0.pool)
    BY <1>2, <1>3, <1>9, <2>1, Fewer
  <2>3. Mapping(x.sys.pt, r.sys.pool)
    BY <1>4, <2>1, <2>2, Fewer
  <2>4. CASE r.ret = 1
    <3>1. y.sys = r.sys /\ y.got = {} /\ y.status = "panic"
      BY <1>1, <1>9, <2>4 DEF Panics
    <3>2. r.sys.pt = x.sys.pt
      BY <1>3, <1>4, <2>4
    <3>3. \A p \in Pages : pt[p] # 0 => x.sys.pt[p] = pt[p]
      BY GotKeeps
    <3> QED
      BY <2>3, <3>1, <3>2, <3>3 DEF Undone, Result
  <2>5. CASE r.ret = -1
    <3>1. PICK u : u = Retire(r.sys, f)
      OBVIOUS
    <3>2. IsSys(u) /\ u.pt = x.sys.pt /\ u.pool = r.sys.pool
      BY <1>3, <1>4, <2>5, <3>1, RetireIs
    <3>3. Mapping(pt, u.pool)
      BY <1>7, <2>1, <2>3, <3>2
    <3>4. y = Fails(Unwind(u, base, stride, i, n, refused))
      BY <1>1, <1>9, <2>5, <3>1
    <3> QED
      BY <3>2, <3>3, <3>4, UnwindRestores
  <2>6. CASE r.ret = 0
    <3> DEFINE p2 == r.sys.pt
    <3>1. y.sys = r.sys /\ y.got = {Add(base, k * Page) : k \in 0 .. i}
      BY <1>1, <1>9, <2>6 DEF Gets
    <3>2. x.sys.pt[PageOf(c)] = 0 /\ p2 = [x.sys.pt EXCEPT ![PageOf(c)] = f]
      BY <1>3, <1>4, <2>6
    <3>3. \A p \in Pages : x.sys.pt[p] # f
      BY <1>2, <2>1 DEF Mapping
    <3>4. Mapping(p2, r.sys.pool)
      BY <2>1, <2>3, <3>2, <3>3, MapsOne
    <3>5. p2[PageOf(c)] = f /\ \A p \in Pages : p # PageOf(c) => p2[p] = x.sys.pt[p]
      BY <1>2, <1>6, <3>2 DEF Mapping
    <3> HIDE DEF p2
    <3>6. PageOf(c) \notin PagesFrom(base, i)
      BY <3>2, GotKeeps
    <3>7. pt[PageOf(c)] = 0
      BY <1>6, <3>2, <3>6 DEF Got
    <3>8. \A k \in 0 .. i - 1 : /\ PageOf(Add(base, k * Page)) \in PagesFrom(base, i)
                                 /\ PageOf(Add(base, k * Page)) \in Pages
                                 /\ PageOf(Add(base, k * Page)) # PageOf(c)
      BY <3>6, GotKeeps DEF PagesFrom
    <3>9. \A k \in 0 .. i : k = i \/ k \in 0 .. i - 1
      OBVIOUS
    <3>10. (i + 1) - 1 = i
      OBVIOUS
    <3>11. \A k \in 0 .. i : /\ pt[PageOf(Add(base, k * Page))] = 0
                              /\ p2[PageOf(Add(base, k * Page))] \in 1 .. NumFrames
      <4> SUFFICES ASSUME NEW k \in 0 .. i
                   PROVE  /\ pt[PageOf(Add(base, k * Page))] = 0
                          /\ p2[PageOf(Add(base, k * Page))] \in 1 .. NumFrames
        OBVIOUS
      <4>1. CASE k = i
        BY <1>c, <2>1, <3>5, <3>7, <4>1
      <4>2. CASE k \in 0 .. i - 1
        BY <3>5, <3>8, <4>2 DEF Got
      <4> QED
        BY <3>9, <4>1, <4>2
    <3>12. \A j, k \in 0 .. i :
              j # k => PageOf(Add(base, j * Page)) # PageOf(Add(base, k * Page))
      BY <1>c, <3>8, <3>9 DEF Got
    <3>13. \A p \in Pages : p \notin PagesFrom(base, i + 1) => p2[p] = pt[p]
      <4>1. PageOf(c) \in PagesFrom(base, i + 1)
        BY <1>c, <3>10 DEF PagesFrom
      <4>2. PagesFrom(base, i) \subseteq PagesFrom(base, i + 1)
        BY <3>10 DEF PagesFrom
      <4> QED
        BY <3>5, <4>1, <4>2 DEF Got
    <3> QED
      BY <1>4, <3>1, <3>4, <3>10, <3>11, <3>12, <3>13 DEF Got, p2
  <2> QED
    BY <1>4, <2>4, <2>5, <2>6
<1> QED
  BY <1>8, <1>9

LEMMA GotResult ==
    ASSUME NEW x, NEW base \in Address, NEW i \in Nat, Got(x, base, i), i = 0 => x.sys.pt = pt
    PROVE  Result(x)
<1>1. \A p \in Pages : pt[p] # 0 => x.sys.pt[p] = pt[p]
  BY GotKeeps
<1>2. Mapping(x.sys.pt, x.sys.pool)
  BY DEF Got
<1>3. x.got = {Add(base, k * Page) : k \in 0 .. i - 1}
  BY DEF Got
<1>4. \A c \in x.got : /\ pt[PageOf(c)] = 0
                        /\ x.sys.pt[PageOf(c)] \in 1 .. NumFrames
  BY DEF Got
<1>5. \A c, d \in x.got : c # d => PageOf(c) # PageOf(d)
  BY DEF Got
<1>6. x.got = {} => i = 0
  <2> SUFFICES ASSUME i # 0 PROVE x.got # {}
    OBVIOUS
  <2>1. Add(base, 0 * Page) \in x.got
    BY <1>3
  <2> QED
    BY <2>1
<1> QED
  BY <1>1, <1>2, <1>4, <1>5, <1>6 DEF Result

LEMMA ManyResult ==
    ASSUME Mapping(pt, pool), NEW o, NEW n \in Nat, NEW base \in Address, NEW stride \in Nat,
           stride = Page \/ base = FrameVar, NEW refused,
           NEW x, x = AllocMany(o, n, base, stride, refused)
    PROVE  Result(x)
<1>1. CASE o.status = "fault"
  <2>1. x = [Fails(Sys) EXCEPT !.status = "fault"]
    BY <1>1 DEF AllocMany
  <2>2. x.sys = Sys /\ x.got = {}
    BY <2>1 DEF Fails
  <2> QED
    BY <2>2, SysIs, GivesNothing
<1>2. PICK s0 : s0 = [Sys EXCEPT !.m = o.m]
  OBVIOUS
<1>3. IsSys(s0) /\ s0.pt = pt /\ s0.pool = pool
  BY <1>2, SysIs, WithMap
<1>4. CASE o.status # "fault" /\ o.ret # 0
  <2>1. x = Fails(s0)
    BY <1>2, <1>4 DEF AllocMany
  <2>2. x.sys = s0 /\ x.got = {}
    BY <2>1 DEF Fails
  <2> QED
    BY <1>3, <2>2, GivesNothing
<1>5. CASE o.status # "fault" /\ o.ret = 0
  <2>1. PICK g : x = g[n] /\ Runs(g, s0, n, base, stride, refused)
    BY <1>2, <1>5, AllocRounds
  <2>2. g[0].sys = s0 /\ g[0].got = {}
    BY <2>1 DEF Gets, Runs
  <2>3. Got(g[0], base, 0)
    <3>1. 0 .. 0 - 1 = {}
      OBVIOUS
    <3>2. {Add(base, k * Page) : k \in 0 .. 0 - 1} = {}
      BY <3>1
    <3> QED
      BY <1>3, <2>2, <3>1, <3>2 DEF Got
  <2> DEFINE Fine(i) == Undone(g[i]) \/ (Got(g[i], base, i) /\ (i = 0 \/ stride = Page))
             T == {i \in 0 .. n : ~Fine(i)}
  <2>4. T = {}
    <3> SUFFICES ASSUME T # {} PROVE FALSE
      OBVIOUS
    <3>1. T \in SUBSET Nat
      OBVIOUS
    <3>2. PICK i \in T : \A y \in T : ~(y < i)
      <4> HIDE DEF T
      <4> QED
        BY <3>1, Least
    <3>3. i \in 0 .. n /\ ~Fine(i)
      BY <3>2
    <3>4. i # 0
      BY <2>3, <3>3
    <3> DEFINE k == i - 1
    <3>5. k \in 0 .. n /\ k \in Nat /\ i \in 1 .. n /\ k < i /\ k + 1 = i /\ (i > 1 <=> k # 0)
      BY <3>3, <3>4
    <3>6. Fine(k)
      BY <3>2, <3>5
    <3> HIDE DEF T, k
    <3>7. g[i] = IF k # 0 /\ g[k].got = {} THEN g[k]
                 ELSE AllocRound(g[k].sys, base, stride, k, n, refused)
      BY <2>1, <3>5 DEF k, Runs
    <3>8. k = 0 => Got(g[k], base, k)
      BY <2>3
    <3>9. CASE k # 0 /\ Undone(g[k])
      BY <3>3, <3>7, <3>9 DEF Undone
    <3>10. CASE Got(g[k], base, k) /\ (k = 0 \/ stride = Page)
      <4>1. k # 0 => g[k].got # {}
        <5> SUFFICES ASSUME k # 0 PROVE g[k].got # {}
          OBVIOUS
        <5>1. 0 \in 0 .. k - 1
          BY <3>5
        <5>2. Add(base, 0 * Page) \in g[k].got
          BY <3>10, <5>1 DEF Got
        <5> QED
          BY <5>2
      <4>2. PICK y : y = AllocRound(g[k].sys, base, stride, k, n, refused)
        OBVIOUS
      <4>3. g[i] = y
        BY <3>7, <4>1, <4>2
      <4>4. Add(base, k * stride) = Add(base, k * Page)
        <5>1. CASE stride = Page
          BY <5>1
        <5>2. CASE stride # Page
          <6>1. k = 0
            BY <3>10, <5>2
          <6>2. k * Page = 0 /\ k * stride = 0
            BY <6>1, SysSizes
          <6> QED
            BY <6>1, <6>2
        <5> QED
          BY <5>1, <5>2
      <4>5. Got(y, base, k + 1) \/ Undone(y)
        BY <3>5, <3>10, <4>2, <4>4, RoundIs
      <4>6. CASE stride = Page
        BY <3>3, <3>5, <4>3, <4>5, <4>6
      <4>7. CASE stride # Page
        <5>1. base = FrameVar /\ k = 0
          BY <3>10, <4>7
        <5>2. Add(base, 0 * Page) = base
          <6>1. base \in 0 .. AddrMod - 1 /\ AddrMod \in Nat \ {0} /\ 0 * Page = 0
            BY SysSizes DEF Address
          <6>2. base % AddrMod = base
            BY <6>1
          <6> QED
            BY <6>1, <6>2 DEF Add
        <5>3. ~Got(y, base, k + 1)
          <6> SUFFICES ASSUME Got(y, base, k + 1) PROVE FALSE
            OBVIOUS
          <6>1. 0 \in 0 .. (k + 1) - 1
            BY <3>5
          <6>2. pt[PageOf(Add(base, 0 * Page))] = 0
            BY <6>1 DEF Got
          <6> QED
            BY <5>1, <5>2, <6>2, SysSizes DEF Mapping
        <5> QED
          BY <3>3, <4>3, <4>5, <5>3
      <4> QED
        BY <4>6, <4>7
    <3> QED
      BY <3>6, <3>8, <3>9, <3>10
  <2>5. Fine(n)
    BY <2>4
  <2>6. n = 0 => x.sys.pt = pt
    BY <1>3, <2>1, <2>2
  <2> QED
    BY <2>1, <2>5, <2>6, GotResult DEF Undone
<1> QED
  BY <1>1, <1>4, <1>5

-----------------------------------------------------------------------------
(* The actions *)

LEMMA OneStep ==
    ASSUME Apart, NEW o, NEW target, o.ret = 0 => o.frame = target \/ target = FrameVar,
           One(o, target)
    PROVE  Apart'
<1>1. pt[PageOf(FrameVar)] # 0
  BY SysSizes DEF Apart, Mapping
<1>2. Result(AllocOne(o, target))
  BY <1>1, OneResult DEF Apart
<1> QED
  BY <1>2, EndsApart DEF One

LEMMA ManyStep ==
    ASSUME Apart, NEW o, NEW n \in Nat, NEW base \in Address, NEW stride \in Nat,
           stride = Page \/ base = FrameVar, NEW refused,
           Many(o, n, base, stride, refused)
    PROVE  Apart'
<1>1. Result(AllocMany(o, n, base, stride, refused))
  BY ManyResult DEF Apart
<1> QED
  BY <1>1, EndsApart DEF Many

LEMMA ManyAtVarStep ==
    ASSUME Apart, NEW o, NEW n \in Nat, NEW refused, ManyAtVar(o, n, refused)
    PROVE  Apart'
<1>1. 8 * Page \in Nat /\ FrameVar \in Address
  BY SysSizes
<1> QED
  BY <1>1, ManyStep DEF ManyAtVar

(* The pages that are given back are unmapped; those that are still held   *)
(* are other pages.                                                        *)
LEMMA FreesApart ==
    ASSUME Apart, NEW P \in SUBSET Address, NEW s, s.pool = pool,
           s.pt = [p \in Pages |-> IF \E a \in P : p = PageOf(a) THEN 0 ELSE pt[p]],
           Frees(P, s)
    PROVE  Apart'
<1>1. /\ pt' = s.pt /\ pool' = pool /\ \A a \in P : a \in Owned
      /\ own' = [a \in Address |-> own[a] - (IF a \in P THEN 1 ELSE 0)]
  BY DEF Frees, Owned
<1>2. \A a \in Owned : own[a] = 1 /\ a \in Address /\ PageOf(a) \in Pages
  BY PageOfAddress DEF Owned, Apart, Given
<1>3. \A a \in Address : own'[a] = own[a] - (IF a \in P THEN 1 ELSE 0)
  BY <1>1
<1>4. own' \in [Address -> {0, 1}]
  <2>1. \A a \in Address : own[a] - (IF a \in P THEN 1 ELSE 0) \in {0, 1}
    BY <1>1, <1>2 DEF Apart, Given
  <2> QED
    BY <1>1, <2>1
<1>5. \A a \in Owned' : a \in Owned /\ a \notin P
  BY <1>2, <1>3, <1>1 DEF Owned, Apart, Given
<1>6. PageOf(FrameVar) \notin {PageOf(a) : a \in P}
  BY <1>1, SysSizes DEF Apart, Given, Mapping
<1>7. Mapping(pt', pool')
  <2> DEFINE S == {PageOf(a) : a \in P}
  <2>1. s.pt = [p \in Pages |-> IF p \in S THEN 0 ELSE pt[p]]
    OBVIOUS
  <2>2. PageOf(FrameVar) \notin S
    BY <1>6
  <2> HIDE DEF S
  <2>3. PICK p2 : p2 = s.pt
    OBVIOUS
  <2>4. Mapping(p2, pool)
    BY <2>1, <2>2, <2>3, Unmaps DEF Apart
  <2> QED
    BY <1>1, <2>3, <2>4
<1>8. \A a \in Owned' : PageOf(a) \in Pages /\ \A b \in P : PageOf(a) # PageOf(b)
  BY <1>1, <1>2, <1>5 DEF Apart, Given
<1>9. \A a \in Owned' : pt'[PageOf(a)] = pt[PageOf(a)]
  BY <1>1, <1>8
<1>10. Given'
  <2>1. \A a \in Owned' : pt'[PageOf(a)] \in 1 .. NumFrames
    BY <1>5, <1>9 DEF Apart, Given
  <2>2. \A a, b \in Owned' : a # b => PageOf(a) # PageOf(b)
    BY <1>5 DEF Apart, Given
  <2> QED
    BY <1>4, <2>1, <2>2 DEF Given
<1> QED
  BY <1>7, <1>10 DEF Apart

LEMMA FreeStep ==
    ASSUME Apart, NEW a \in Address, NEW refused, PageFree(a, refused)
    PROVE  Apart'
<1> DEFINE y  == IF refused THEN vmap ELSE VirtualFree(vmap, a).m
           s1 == [Sys EXCEPT !.pt[PageOf(a)] = 0]
<1>1. IsSys(s1) /\ s1.pt = [pt EXCEPT ![PageOf(a)] = 0] /\ s1.pool = pool
  BY SysIs DEF IsSys
<1>2. Freed(Sys, a, refused) = [s1 EXCEPT !.m = y]
  BY DEF Freed, Sys
<1> HIDE DEF y, s1
<1>3. PICK s : s = Freed(Sys, a, refused)
  OBVIOUS
<1>4. IsSys(s1)
  BY <1>1
<1>5. [s1 EXCEPT !.m = y].pt = s1.pt /\ [s1 EXCEPT !.m = y].pool = s1.pool
  BY <1>4, WithMap
<1>6. s.pool = pool /\ s.pt = [p \in Pages |-> IF p = PageOf(a) THEN 0 ELSE pt[p]]
  BY <1>1, <1>2, <1>3, <1>5 DEF Apart, Mapping
<1>7. s.pt = [p \in Pages |-> IF \E b \in {a} : p = PageOf(b) THEN 0 ELSE pt[p]]
  BY <1>6
<1>8. {a} \in SUBSET Address /\ Frees({a}, s)
  BY <1>3 DEF PageFree
<1> QED
  BY <1>6, <1>7, <1>8, FreesApart

LEMMA FreeMultipleStep ==
    ASSUME Apart, NEW a \in Address, NEW n \in Nat, NEW refused, PageFreeMultiple(a, n, refused)
    PROVE  Apart'
<1> DEFINE P == {Add(a, i * Page) : i \in 0 .. n - 1}
<1>1. PICK s : s = FreedMultiple(Sys, a, n, refused)
  OBVIOUS
<1>2. Sys.pt \in [Pages -> Nat]
  BY SysIs DEF Apart, Mapping
<1>3. s.pool = pool /\ s.pt = [p \in Pages |-> IF p \in PagesFrom(a, n) THEN 0 ELSE pt[p]]
  BY <1>1, <1>2, SysIs, FreedIs
<1>4. P \in SUBSET Address
  <2> SUFFICES ASSUME NEW i \in 0 .. n - 1 PROVE Add(a, i * Page) \in Address
    OBVIOUS
  <2>1. a \in Int /\ i * Page \in Int
    BY SysSizes DEF Address
  <2> QED
    BY <2>1, AddType
<1>5. \A p : p \in PagesFrom(a, n) <=> \E b \in P : p = PageOf(b)
  BY Zenon DEF PagesFrom
<1>6. Frees(P, s)
  BY <1>1 DEF PageFreeMultiple
<1> HIDE DEF P
<1>7. s.pt = [p \in Pages |-> IF \E b \in P : p = PageOf(b) THEN 0 ELSE pt[p]]
  BY <1>3, <1>5
<1>8. s.pool = pool
  BY <1>3
<1> QED
  BY <1>4, <1>6, <1>7, <1>8, FreesApart

(* At first nobody holds a page, and every page that is mapped has a frame *)
(* the pool does not.                                                      *)
LEMMA ApartInit == SysInit => Apart
<1> SUFFICES ASSUME SysInit PROVE Apart
  OBVIOUS
<1> DEFINE mapped == {PageOf(a) : a \in Base0 .. Base0 + Length0} \cup {PageOf(FrameVar)}
<1>1. /\ pt = [n \in Pages |-> IF n \in mapped THEN NumFrames + 1 + n ELSE 0]
      /\ pool = NumFrames /\ own = [a \in Address |-> 0]
  BY DEF SysInit, Init
<1>2. PageOf(FrameVar) \in mapped
  OBVIOUS
<1> HIDE DEF mapped
<1>3. Pages \subseteq Nat
  BY DEF Pages
<1>4. Mapping(pt, pool)
  <2>1. pt \in [Pages -> Nat] /\ pool \in 0 .. NumFrames
    BY <1>1, <1>3, SysSizes
  <2>2. \A n \in Pages : pt[n] # 0 => pt[n] = NumFrames + 1 + n
    BY <1>1
  <2>3. pt[PageOf(FrameVar)] = NumFrames + 1 + PageOf(FrameVar)
    BY <1>1, <1>2, SysSizes
  <2> QED
    <3>1. \A n \in Pages : n \in Nat /\ NumFrames \in Nat
      BY <1>3, SysSizes
    <3>2. \A n \in Pages : pt[n] # 0 => pt[n] > pool
      BY <1>1, <2>2, <3>1
    <3>3. \A n, k \in Pages : n # k /\ pt[n] # 0 => pt[n] # pt[k]
      <4> SUFFICES ASSUME NEW n \in Pages, NEW k \in Pages, n # k, pt[n] # 0, pt[n] = pt[k]
                   PROVE  FALSE
        OBVIOUS
      <4>1. pt[n] = NumFrames + 1 + n /\ pt[k] = NumFrames + 1 + k
        BY <2>2
      <4>2. NumFrames + 1 + n = NumFrames + 1 + k
        BY <4>1
      <4>3. n \in Nat /\ k \in Nat /\ NumFrames \in Nat
        BY <3>1
      <4> HIDE <4>1
      <4> QED
        BY <4>2, <4>3
    <3>4. pt[PageOf(FrameVar)] > NumFrames
      BY <2>3, <3>1, SysSizes
    <3> QED
      BY <2>1, <3>2, <3>3, <3>4 DEF Mapping
<1>5. Given
  BY <1>1 DEF Given, Owned
<1> QED
  BY <1>4, <1>5 DEF Apart

LEMMA CallsAreNumbers == Addrs \subseteq Address /\ Counts \subseteq Nat /\ Page \in Nat
BY VirtualAssumption DEF Address

LEMMA ApartNext == Apart /\ [SysNext]_sysVars => Apart'
<1> SUFFICES ASSUME Apart, [SysNext]_sysVars PROVE Apart'
  OBVIOUS
<1>1. CASE PageAlloc
  BY <1>1, OneStep DEF PageAlloc
<1>2. ASSUME NEW a \in Addrs, PageAllocAt(a) PROVE Apart'
  <2>1. AllocAt(vmap, a).frame = a
    BY DEF AllocAt, PlaceAfter, Insert, Returns
  <2> QED
    BY <1>2, <2>1, OneStep DEF PageAllocAt
<1>3. ASSUME NEW b \in Addrs, PageAllocAfter(b) PROVE Apart'
  BY <1>3, OneStep DEF PageAllocAfter
<1>4. ASSUME NEW b \in Addrs, NEW j \in Jumps, PageAllocBeyond(b, j) PROVE Apart'
  BY <1>4, OneStep DEF PageAllocBeyond
<1>5. ASSUME NEW b \in Addrs, NEW j \in Jumps, PageAllocBeyondEx(b, j) PROVE Apart'
  BY <1>5, OneStep DEF PageAllocBeyondEx
<1>6. ASSUME NEW a \in Addrs, NEW n \in Counts, NEW r \in Rounds(n), PageAllocMultiple(a, n, r)
      PROVE  Apart'
  BY <1>6, CallsAreNumbers, ManyStep DEF PageAllocMultiple
<1>7. ASSUME NEW a \in Addrs, NEW n \in Counts, NEW r \in Rounds(n), PageAllocMultipleEx(a, n, r)
      PROVE  Apart'
  BY <1>7, CallsAreNumbers, ManyStep DEF PageAllocMultipleEx
<1>8. ASSUME NEW a \in Addrs, NEW n \in Counts, NEW r \in Rounds(n), PageAllocMultipleAt(a, n, r)
      PROVE  Apart'
  BY <1>8, CallsAreNumbers, ManyStep DEF PageAllocMultipleAt
<1>9. ASSUME NEW b \in Addrs, NEW n \in Counts, NEW j \in Jumps, NEW r \in Rounds(n),
             PageAllocMultipleBeyond(b, n, j, r) \/ PageAllocMultipleBeyondEx(b, n, j, r)
      PROVE  Apart'
  BY <1>9, CallsAreNumbers, ManyAtVarStep DEF PageAllocMultipleBeyond, PageAllocMultipleBeyondEx
<1>10. ASSUME NEW b \in Addrs, NEW n \in Counts, NEW r \in Rounds(n),
              PageAllocMultipleAfter(b, n, r) \/ PageAllocMultipleAfterEx(b, n, r)
       PROVE  Apart'
  BY <1>10, CallsAreNumbers, ManyAtVarStep DEF PageAllocMultipleAfter, PageAllocMultipleAfterEx
<1>11. ASSUME NEW a \in Address, NEW refused \in BOOLEAN, PageFree(a, refused) PROVE Apart'
  BY <1>11, FreeStep
<1>12. ASSUME NEW a \in Address, NEW n \in Counts, NEW r \in Rounds(n), PageFreeMultiple(a, n, r)
       PROVE  Apart'
  BY <1>12, CallsAreNumbers, FreeMultipleStep
<1>13. CASE UNCHANGED sysVars
  BY <1>13 DEF sysVars, Apart, Given, Owned
<1> QED
  BY <1>1, <1>2, <1>3, <1>4, <1>5, <1>6, <1>7, <1>8, <1>9, <1>10, <1>11, <1>12, <1>13
     DEF SysNext

(* Whatever order the page_alloc and page_free functions are called in, a  *)
(* page that a caller holds stays mapped to a frame that no other page     *)
(* has, and no other caller holds a page with the same mapping.            *)
THEOREM PagesApart == SysSpec => []HeldPagesApart
<1>1. Apart => HeldPagesApart
  BY DEF Apart, Given, Mapping, HeldPagesApart, Owned
<1> QED
  BY <1>1, ApartInit, ApartNext, PTL DEF SysSpec
-----------------------------------------------------------------------------
(* The map of ranges, whole and above the kernel's own pages.  A caller's  *)
(* variable is on the stack that the firmware set up, below the kernel     *)
(* (kernel.c:63, install_stack is not called).                             *)

Placed == Length0 > 1 /\ FrameVar < Base0 /\ Addrs \subseteq Floor .. Ceiling

Kept(m) == Whole(m) /\ Ranged(m)

LEMMA FirstLength ==
    ASSUME NEW m, Kept(m)
    PROVE  Base(m, 0) = Base0 /\ Length(m, 0) \in Address /\ Length(m, 0) >= Length0
<1>1. /\ Base(m, 0) = Base0 /\ Base(m, 0) \in Address /\ Length(m, 0) \in Address
      /\ End(m, 0) = Add(Base(m, 0), Length(m, 0)) /\ End(m, 0) \in Floor .. Ceiling
  <2>1. 0 \in Slots /\ 0 \in Listed(m)
    BY WholeHas DEF Kept
  <2> QED
    BY <2>1, WholeHas DEF Kept, Ranged
<1>2. PICK b \in Address, l \in Address :
          b = Base0 /\ l = Length(m, 0) /\ Add(b, l) >= Base0 + Length0 /\ Add(b, l) \in Int
  BY <1>1, Numbers DEF Floor
<1>3. Add(b, l) = IF b + l < AddrMod THEN b + l ELSE b + l - AddrMod
  BY AddIs
<1>4. b \in Nat /\ l \in Nat /\ l < AddrMod /\ AddrMod \in Nat /\ Length0 \in Nat
  BY Numbers, Sizes
<1>5. l >= Length0
  BY <1>2, <1>3, <1>4
<1> QED
  BY <1>1, <1>2, <1>5

(* An address that no later entry is below is looked up in the first.      *)
LEMMA FindFirst ==
    ASSUME NEW m, Whole(m), NEW a \in Address,
           \A e \in Listed(m) \ {0} : Base(m, e) >= a
    PROVE  FindAt(m, a) = 0 /\ Find(m, a) = 0
<1>1. 0 \in Listed(m) /\ m.first = 0 /\ Listed(m) \subseteq Slots
      /\ (HasNext(m, 0) => Next_(m, 0) \in Listed(m) \ {0} /\ NextBase(m, 0) = Base(m, Next_(m, 0)))
  BY WholeHas
<1>2. Chain(m)[0] = 0
  BY <1>1, ChainIs DEF Walk
<1>3. HasNext(m, 0) => ~(NextBase(m, 0) < a)
  <2> SUFFICES ASSUME HasNext(m, 0) PROVE ~(NextBase(m, 0) < a)
    OBVIOUS
  <2>1. PICK e \in Listed(m) \ {0} : e \in Slots /\ NextBase(m, 0) = Base(m, e)
    BY <1>1
  <2>2. Base(m, e) \in Address /\ Base(m, e) >= a
    BY <2>1, WholeHas
  <2> QED
    BY <2>1, <2>2, Numbers
<1>4. Null = NumWords * W /\ 0 \in 0 .. Null - 1 /\ 0 # Null
  BY SlotNumbers DEF Null
<1>5. 0 \in Stops(m, a) /\ Stops(m, a) \subseteq Nat
  BY <1>2, <1>3, <1>4 DEF Stops
<1>6. FindAt(m, a) = CHOOSE k \in Stops(m, a) : \A j \in Stops(m, a) : k =< j
  BY DEF FindAt
<1>7. FindAt(m, a) = 0
  <2>1. PICK T \in SUBSET Nat : T = Stops(m, a) /\ 0 \in T
    BY <1>5
  <2>2. 0 \in T /\ \A j \in T : 0 =< j
    BY <2>1
  <2>3. FindAt(m, a) \in T /\ \A j \in T : FindAt(m, a) =< j
    BY <1>6, <2>1, <2>2
  <2> QED
    BY <2>1, <2>3
<1> QED
  BY <1>2, <1>7 DEF Find

(* A free below the first entry makes that entry reach around the end of   *)
(* the addresses.                                                          *)
Spoilt(m, a) ==
    /\ Whole(m) /\ Base(m, 0) = Base0 /\ Length(m, 0) = Sub(a, Base0)
    /\ \A e \in Listed(m) \ {0} : Base(m, e) >= a

LEMMA SpoiltIs ==
    ASSUME NEW a \in Address, a < Base0, NEW m, Spoilt(m, a)
    PROVE  ~Below(m) /\ End(m, 0) = a
<1>1. Base0 \in Address /\ 0 \in Listed(m) /\ 0 \in Slots
  BY VirtualAssumption, WholeHas DEF Address, Spoilt
<1>2. Sub(a, Base0) = a - Base0 + AddrMod
  BY <1>1, SubIs, Numbers
<1>3. ~(Base0 + Sub(a, Base0) =< Ceiling)
  BY <1>2, Numbers
<1>4. ~Below(m)
  BY <1>1, <1>3 DEF Below, Spoilt, Base, Length
<1>5. End(m, 0) = Add(Base0, Sub(a, Base0))
  BY DEF Spoilt, End, Base, Length
<1> QED
  BY <1>1, <1>4, <1>5, SubAdd

LEMMA SplitSpoils ==
    ASSUME MaskedBuild, NEW m, Kept(m), NEW a \in Address, a < Base0,
           NEW bytes \in Address, a + bytes < AddrMod, NEW o, o = Split(m, 0, a, bytes)
    PROVE  Spoilt(o.m, a)
<1>1. /\ 0 \in Slots /\ m \in Maps /\ Listed(m) \subseteq Slots /\ 0 \in Listed(m)
      /\ Base(m, 0) = Base0 /\ Base0 \in Address /\ Length(m, 0) \in Address
  <2>1. 0 \in Slots /\ m \in Maps /\ Listed(m) \subseteq Slots /\ 0 \in Listed(m)
    BY WholeHas DEF Kept
  <2> QED
    BY <2>1, FirstLength, VirtualAssumption DEF Address
<1>2. PICK below \in Address : below = Sub(a, Base0)
  BY <1>1, SubIs
<1>3. PICK above \in Address : above = Sub(Sub(Length(m, 0), below), bytes)
  BY <1>1, <1>2, SubIs
<1>4. PICK m1 : m1 = [m EXCEPT !.slot[0].len = below]
  OBVIOUS
<1>5. PICK p \in Address : p = Add(a, bytes) /\ p >= a
  BY AddIs, Numbers
<1>6. o = Insert(m1, 0, p, above)
  BY <1>1, <1>2, <1>3, <1>4, <1>5 DEF Split, Base, Length
<1>7. Sets(m1, m, 0, Base0, below, Next_(m, 0))
  BY <1>1, <1>4, SetField
<1>8. Whole(m1) /\ Listed(m1) = Listed(m)
  BY <1>1, <1>7, ResizeIs DEF Kept
<1>9. \A e \in Listed(m1) \ {0} : Base(m1, e) >= a
  <2> SUFFICES ASSUME NEW e \in Listed(m) \ {0} PROVE Base(m1, e) >= a
    BY <1>8
  <2>1. Base(m1, e) = Base(m, e) /\ Base(m, e) >= Floor /\ Base(m, e) \in Address
    BY <1>1, <1>7, WholeHas DEF Kept, Ranged, Sets, Base
  <2> QED
    BY <2>1, Numbers
<1>10. Spoilt(m1, a)
  BY <1>2, <1>7, <1>8, <1>9 DEF Spoilt, Sets
<1>11. CASE FreeSlots(m1) = {}
  BY <1>1, <1>6, <1>8, <1>10, <1>11, InsertIs
<1>12. CASE FreeSlots(m1) # {}
  <2>1. PICK k \in Slots \ Listed(m1) :
            /\ k # 0 /\ Whole(o.m) /\ Listed(o.m) = Listed(m1) \cup {k} /\ Base(o.m, k) = p
            /\ \A e \in Listed(m1) : Base(o.m, e) = Base(m1, e) /\ Length(o.m, e) = Length(m1, e)
    <3>1. 0 \in Listed(m1)
      BY <1>1, <1>8
    <3>2. Inserted(o.m, m1, 0, p, above)
      BY <1>6, <1>8, <1>12, <3>1, InsertIs
    <3> QED
      BY <3>2 DEF Inserted
  <2> QED
    BY <1>1, <1>5, <1>8, <1>10, <2>1 DEF Spoilt
<1> QED
  BY <1>11, <1>12

(* What an alloc_multiple function undoes at the address of the variable   *)
(* (memory.c:947-948): the map stays, or its first entry is spoilt.        *)
LEMMA FreeBelow ==
    ASSUME MaskedBuild, Length0 > 1, NEW m, Kept(m), NEW a \in Address, a < Base0,
           NEW n \in Counts, NEW o, o = FreeMultiple(m, a, n), Below(o.m)
    PROVE  Kept(o.m)
<1>1. \A e \in Listed(m) \ {0} : Base(m, e) >= a
  <2> SUFFICES ASSUME NEW e \in Listed(m) \ {0} PROVE Base(m, e) >= a
    OBVIOUS
  <2>1. Base(m, e) >= Floor /\ Base(m, e) \in Address
    BY WholeHas DEF Kept, Ranged
  <2> QED
    BY <2>1, Numbers
<1>2. FindAt(m, a) = 0 /\ Find(m, a) = 0
  BY <1>1, FindFirst DEF Kept
<1>3. End(m, 0) \in Floor .. Ceiling /\ m.slot[0].len # 1
  <2>1. 0 \in Listed(m) /\ m.slot[0].len = Length(m, 0)
    BY WholeHas DEF Kept, Length
  <2>2. Length(m, 0) \in Address /\ Length(m, 0) >= Length0
    BY FirstLength
  <2> QED
    BY <2>1, <2>2, Numbers, Sizes DEF Kept, Ranged
<1>4. /\ n * Page \in Address /\ a + n * Page < AddrMod /\ Add(a, n * Page) = a + n * Page
      /\ Add(a, n * Page) >= a
  <2>1. PICK x \in Address : x = n * Page /\ Ceiling + x < AddrMod
    BY CountIs
  <2>2. a + x < AddrMod
    BY <2>1, Numbers
  <2>3. Add(a, x) = a + x
    BY <2>2, AddIs
  <2>4. a + x >= a
    BY Numbers
  <2> QED
    BY <2>1, <2>2, <2>3, <2>4
<1>5. CASE n = 0
  BY <1>5 DEF FreeMultiple, Returns
<1>6. CASE n = 1
  <2>1. ~(a >= End(m, 0))
    BY <1>3, Numbers
  <2>2. PICK m1 : m1 = VirtualFree(m, a).m
    OBVIOUS
  <2>3. m1 = Split(m, 0, a, Page).m
    BY <1>2, <1>3, <2>1, <2>2 DEF VirtualFree
  <2>4. Spoilt(m1, a)
    <3>1. a + Page < AddrMod
      BY OnePage, Numbers
    <3> QED
      BY <2>3, <3>1, OnePage, SplitSpoils
  <2>5. Find(m1, a) = 0 /\ End(m1, 0) = a /\ ~Below(m1)
    BY <2>4, FindFirst, SpoiltIs DEF Spoilt
  <2>6. o = FreeRange(m1, a, n)
    BY <1>6, <2>2 DEF FreeMultiple
  <2>7. o.m = m1
    BY <1>4, <2>5, <2>6 DEF FreeRange, Returns
  <2> QED
    BY <2>5, <2>7
<1>7. CASE n # 0 /\ n # 1
  <2>1. o = FreeRange(m, a, n)
    BY <1>7 DEF FreeMultiple
  <2>2. CASE Add(a, n * Page) >= End(m, 0)
    BY <1>2, <2>1, <2>2 DEF FreeRange, Returns
  <2>3. CASE ~(Add(a, n * Page) >= End(m, 0))
    <3>1. o = Split(m, 0, a, n * Page)
      BY <1>2, <1>3, <2>1, <2>3 DEF FreeRange
    <3>2. Spoilt(o.m, a)
      BY <1>4, <3>1, SplitSpoils
    <3> QED
      BY <3>2, SpoiltIs
  <2> QED
    BY <2>2, <2>3
<1> QED
  BY <1>5, <1>6, <1>7

-----------------------------------------------------------------------------
(* The types of the state, through the functions it is passed through      *)

Top == NumFrames + 1 + PageOf(AddrMod - 1)

Typed(s) ==
    /\ IsSys(s)
    /\ s.pt \in [Pages -> 0 .. Top] /\ s.tables \subseteq Pages
    /\ s.pool \in 0 .. NumFrames /\ s.retired \subseteq 1 .. NumFrames
    /\ PageOf(FrameVar) \div TableSpan \in s.tables

Valid(s) == Typed(s) /\ Kept(s.m)

LEMMA TopIs == Top \in Nat /\ PageOf(AddrMod - 1) \in Nat /\ NumFrames =< Top /\ \A n \in Pages : n \in Nat
<1>1. AddrMod - 1 \in Address
  BY SysSizes DEF Address
<1>2. PageOf(AddrMod - 1) \in Nat
  BY <1>1, PageOfAddress DEF Pages
<1> QED
  BY <1>2, SysSizes DEF Top, Pages

LEMMA TableOf == \A n \in Pages : n \div TableSpan \in Pages
<1> SUFFICES ASSUME NEW n \in Pages PROVE n \div TableSpan \in Pages
  OBVIOUS
<1>1. \A x \in Nat, d \in Nat \ {0} : x \div d \in Nat /\ x \div d =< x
  <2> SUFFICES ASSUME NEW x \in Nat, NEW d \in Nat \ {0} PROVE x \div d \in Nat /\ x \div d =< x
    OBVIOUS
  <2>1. x \div d \in Int /\ d * (x \div d) =< x /\ x < d * (x \div d) + d
    OBVIOUS
  <2>2. x \div d \in Nat
    OBVIOUS
  <2>3. \A q \in Nat : d * q >= q
    OBVIOUS
  <2> QED
    BY <2>1, <2>2, <2>3
<1>2. n \in Nat /\ TableSpan \in Nat \ {0} /\ n =< PageOf(AddrMod - 1)
  BY PageAllocatorAssumption, TopIs DEF Pages
<1>3. n \div TableSpan \in Nat /\ n \div TableSpan =< n
  BY <1>1, <1>2
<1> QED
  BY <1>2, <1>3, TopIs DEF Pages

LEMMA Put ==
    ASSUME NEW S, NEW T, NEW p \in [S -> T], NEW k, NEW v \in T
    PROVE  [p EXCEPT ![k] = v] \in [S -> T]
OBVIOUS

LEMMA TypedMap ==
    ASSUME NEW s, Typed(s), NEW y
    PROVE  Typed([s EXCEPT !.m = y]) /\ [s EXCEPT !.m = y].m = y
BY DEF Typed, IsSys

LEMMA TypedRetire ==
    ASSUME NEW s, Typed(s), NEW f \in 1 .. NumFrames
    PROVE  Typed(Retire(s, f)) /\ Retire(s, f).m = s.m
<1> DEFINE s1 == [s EXCEPT !.retired = @ \cup {f}]
<1>1. Retire(s, f) = s1
  BY DEF Retire
<1>2. /\ IsSys(s1) /\ s1.m = s.m /\ s1.pt = s.pt /\ s1.tables = s.tables /\ s1.pool = s.pool
      /\ s1.retired = s.retired \cup {f}
  BY DEF Typed, IsSys
<1> HIDE DEF s1
<1> QED
  BY <1>1, <1>2 DEF Typed

LEMMA TypedTake ==
    ASSUME NEW s, Typed(s), s.pool # 0
    PROVE  /\ Typed([s EXCEPT !.pool = @ - 1]) /\ [s EXCEPT !.pool = @ - 1].m = s.m
           /\ [s EXCEPT !.pool = @ - 1].pt = s.pt /\ s.pool \in 1 .. NumFrames
BY SysSizes DEF Typed, IsSys

LEMMA TypedPtMap ==
    ASSUME NEW s, Typed(s), NEW a \in Address, NEW f \in 1 .. NumFrames, NEW r, r = PtMap(s, a, f)
    PROVE  /\ Typed(r.sys) /\ r.sys.m = s.m /\ r.ret \in {-1, 0, 1}
           /\ a = FrameVar /\ s.pt[PageOf(a)] # 0 => r.ret = 1
<1> DEFINE t  == PageOf(a) \div TableSpan
           s1 == IF t \in s.tables THEN s ELSE [s EXCEPT !.tables = @ \cup {t}, !.pool = @ - 1]
           s2 == [s1 EXCEPT !.pt[PageOf(a)] = f]
<1>1. r = IF t \notin s.tables /\ s.pool = 0 THEN [sys |-> s, ret |-> -1]
          ELSE IF s1.pt[PageOf(a)] # 0 THEN [sys |-> s1, ret |-> 1]
          ELSE [sys |-> s2, ret |-> 0]
  BY DEF PtMap
<1>2. PageOf(a) \in Pages /\ t \in Pages
  BY PageOfAddress, TableOf
<1>3. ASSUME ~(t \notin s.tables /\ s.pool = 0) PROVE Typed(s1) /\ s1.m = s.m /\ s1.pt = s.pt
  <2>1. CASE t \in s.tables
    BY <2>1
  <2>2. CASE t \notin s.tables
    <3>1. s1 = [s EXCEPT !.tables = @ \cup {t}, !.pool = @ - 1]
      BY <2>2
    <3> HIDE DEF s1, t
    <3>2. s1.pool = s.pool - 1 /\ s.pool # 0
      BY <1>3, <2>2, <3>1 DEF Typed, IsSys
    <3>3. s1.pool \in 0 .. NumFrames
      BY <3>2, SysSizes DEF Typed
    <3>4. /\ IsSys(s1) /\ s1.m = s.m /\ s1.pt = s.pt /\ s1.retired = s.retired
          /\ s1.tables = s.tables \cup {t}
      BY <3>1 DEF Typed, IsSys
    <3> QED
      BY <1>2, <3>3, <3>4 DEF Typed
  <2> QED
    BY <2>1, <2>2
<1> HIDE DEF s1, t
<1>4. ASSUME Typed(s1) PROVE Typed(s2) /\ s2.m = s1.m
  <2>1. /\ IsSys(s2) /\ s2.m = s1.m /\ s2.tables = s1.tables /\ s2.pool = s1.pool
        /\ s2.retired = s1.retired /\ s2.pt = [s1.pt EXCEPT ![PageOf(a)] = f]
    BY <1>4 DEF Typed, IsSys
  <2>2. f \in 0 .. Top
    BY TopIs, SysSizes
  <2>3. s2.pt \in [Pages -> 0 .. Top]
    <3>1. s1.pt \in [Pages -> 0 .. Top]
      BY <1>4 DEF Typed
    <3> QED
      BY <2>1, <2>2, <3>1, Put
  <2> HIDE DEF s2
  <2> QED
    BY <1>4, <2>1, <2>3 DEF Typed
<1> HIDE DEF s2
<1>5. a = FrameVar => t \in s.tables
  BY DEF t, Typed
<1> QED
  BY <1>1, <1>3, <1>4, <1>5

LEMMA TypedFree ==
    ASSUME NEW s, Typed(s), NEW a, NEW i, NEW refused, NEW x, x = FreeRound(s, a, i, refused)
    PROVE  Typed(x) /\ x.m = IF i \in refused THEN s.m ELSE VirtualFree(s.m, a).m
<1> DEFINE n  == PageOf(Add(a, i * Page))
           y  == IF i \in refused THEN s.m ELSE VirtualFree(s.m, a).m
           s1 == [s EXCEPT !.pt[n] = 0]
<1>1. x = [s1 EXCEPT !.m = y]
  BY DEF FreeRound, Typed, IsSys
<1> HIDE DEF n, y
<1>2. /\ IsSys(s1) /\ s1.tables = s.tables /\ s1.pool = s.pool /\ s1.retired = s.retired
      /\ s1.pt = [s.pt EXCEPT ![n] = 0]
  BY DEF Typed, IsSys
<1>3. s1.pt \in [Pages -> 0 .. Top]
  <2>1. s.pt \in [Pages -> 0 .. Top] /\ 0 \in 0 .. Top
    BY TopIs DEF Typed
  <2> QED
    BY <1>2, <2>1, Put
<1> HIDE DEF s1
<1>4. Typed(s1)
  BY <1>2, <1>3 DEF Typed
<1> QED
  BY <1>1, <1>4, TypedMap DEF y

-----------------------------------------------------------------------------
(* The loops keep the map whole                                            *)

\* A page of a range that starts above the kernel's own pages.
LEMMA RangePage ==
    ASSUME NEW base \in Floor .. Ceiling, NEW n \in Counts, NEW i \in 0 .. n - 1,
           NEW p, p = Add(base, i * Page)
    PROVE  /\ p \in Address /\ Floor =< p /\ p + Page < AddrMod
           /\ n - i \in Nat /\ p + (n - i) * Page < AddrMod
<1>1. n \in Nat /\ i \in Nat /\ n - i \in Nat /\ n - i - 1 \in Nat /\ Page \in Nat
  BY Asked, Numbers
<1>2. PICK x \in Nat, y \in Nat : x = i * Page /\ y = (n - i) * Page
  BY <1>1
<1>3. x + y = n * Page
  BY <1>1, <1>2
<1>4. y >= Page
  <2>1. (n - i) * Page = (n - i - 1) * Page + Page /\ (n - i - 1) * Page \in Nat
    BY <1>1
  <2> QED
    BY <1>1, <1>2, <2>1
<1>5. Ceiling + (x + y) < AddrMod
  BY <1>3, CountIs
<1>6. base + x + y < AddrMod /\ x \in Address /\ base \in Address
  BY <1>5, Numbers
<1>7. Add(base, x) = base + x
  BY <1>6, AddIs, Numbers
<1>8. p = base + x
  BY <1>2, <1>7
<1> QED
  BY <1>1, <1>2, <1>4, <1>6, <1>8, Numbers

LEMMA FreedValid ==
    ASSUME MaskedBuild, NEW s, Valid(s), NEW a \in Address, Floor =< a, a + Page < AddrMod,
           NEW n \in Nat, NEW refused, NEW x, x = FreedMultiple(s, a, n, refused)
    PROVE  Valid(x)
<1>1. PICK g : /\ x = g[n] /\ g[0] = s
               /\ \A i \in 1 .. n : g[i] = FreeRound(g[i - 1], a, i - 1, refused)
  BY FreedRounds
<1>2. ASSUME NEW y, Valid(y), NEW i PROVE Valid(FreeRound(y, a, i, refused))
  <2>1. PICK z : z = FreeRound(y, a, i, refused)
    OBVIOUS
  <2>2. Typed(z) /\ z.m = IF i \in refused THEN y.m ELSE VirtualFree(y.m, a).m
    BY <1>2, <2>1, TypedFree DEF Valid
  <2>3. Kept(VirtualFree(y.m, a).m)
    BY <1>2, VirtualFreeFits DEF Valid, Kept
  <2> QED
    BY <1>2, <2>1, <2>2, <2>3 DEF Valid
<1> DEFINE T == {i \in 0 .. n : ~Valid(g[i])}
<1>3. T = {}
  <2> SUFFICES ASSUME T # {} PROVE FALSE
    OBVIOUS
  <2>1. T \in SUBSET Nat
    OBVIOUS
  <2>2. PICK i \in T : \A y \in T : ~(y < i)
    <3> HIDE DEF T
    <3> QED
      BY <2>1, Least
  <2>3. i # 0
    BY <1>1, <2>2
  <2>4. i - 1 \in 0 .. n /\ i \in 1 .. n /\ i - 1 < i
    BY <2>2, <2>3
  <2>5. Valid(g[i - 1])
    BY <2>2, <2>4
  <2>6. Valid(g[i])
    BY <1>1, <1>2, <2>4, <2>5
  <2> QED
    BY <2>2, <2>6
<1>4. n \in 0 .. n
  OBVIOUS
<1> QED
  BY <1>1, <1>3, <1>4

LEMMA UnwindValid ==
    ASSUME MaskedBuild, NEW s, Valid(s), NEW base \in Floor .. Ceiling, NEW n \in Counts,
           NEW i \in 0 .. n - 1, NEW refused, NEW x, x = Unwind(s, base, Page, i, n, refused)
    PROVE  Valid(x)
<1>1. PICK s1 : s1 = IF i > 0 THEN FreedMultiple(s, base, i, refused) ELSE s
  OBVIOUS
<1>2. base \in Address /\ Floor =< base /\ base + Page < AddrMod /\ i \in Nat
  BY OnePage, Numbers
<1>3. Valid(s1)
  BY <1>1, <1>2, FreedValid
<1>4. PICK p : p = Add(base, i * Page)
  OBVIOUS
<1>5. /\ p \in Address /\ Floor =< p /\ p + Page < AddrMod
      /\ n - i \in Nat /\ p + (n - i) * Page < AddrMod
  BY <1>4, RangePage
<1>6. Kept(FreeMultiple(s1.m, p, n - i).m)
  BY <1>3, <1>5, FreeMultipleFits DEF Valid, Kept
<1>7. x = [s1 EXCEPT !.m = FreeMultiple(s1.m, p, n - i).m]
  BY <1>1, <1>3, <1>4 DEF Unwind, Valid, Typed, IsSys
<1> QED
  BY <1>3, <1>6, <1>7, TypedMap DEF Valid

\* The pages that i rounds got.
GotBy(base, i) == {Add(base, k * Page) : k \in 0 .. i - 1}

Goes(y, base, i) ==
    Valid(y.sys) /\ y.status \in {"ok", "panic"} /\ (y.got = {} \/ y.got = GotBy(base, i))

LEMMA RoundValid ==
    ASSUME MaskedBuild, NEW s, Valid(s), NEW base \in Floor .. Ceiling, NEW n \in Counts,
           NEW i \in 0 .. n - 1, NEW refused, NEW y, y = AllocRound(s, base, Page, i, n, refused)
    PROVE  Goes(y, base, i + 1)
<1> DEFINE f  == s.pool
           c  == Add(base, i * Page)
           s0 == [s EXCEPT !.pool = @ - 1]
           r  == PtMap(s0, c, f)
<1>1. y = IF f = 0 THEN Fails(Unwind(s, base, Page, i, n, refused))
          ELSE CASE r.ret = 0  -> Gets(r.sys, {Add(base, k * Page) : k \in 0 .. i})
                 [] r.ret = 1  -> Panics(r.sys)
                 [] r.ret = -1 -> Fails(Unwind(Retire(r.sys, f), base, Page, i, n, refused))
  BY DEF AllocRound
<1>2. CASE f = 0
  <2>1. PICK u : u = Unwind(s, base, Page, i, n, refused)
    OBVIOUS
  <2>2. y = Fails(u) /\ Valid(u)
    BY <1>1, <1>2, <2>1, UnwindValid
  <2> QED
    BY <2>2 DEF Goes, Fails
<1>3. CASE f # 0
  <2>1. Typed(s0) /\ s0.m = s.m /\ f \in 1 .. NumFrames
    BY <1>3, TypedTake DEF Valid
  <2>2. c \in Address
    BY RangePage
  <2> HIDE DEF s0, c
  <2>3. Typed(r.sys) /\ r.sys.m = s.m /\ r.ret \in {-1, 0, 1}
    BY <2>1, <2>2, TypedPtMap
  <2> HIDE DEF r
  <2>4. Valid(r.sys)
    BY <2>3 DEF Valid
  <2>5. CASE r.ret = 0
    <3>1. y = Gets(r.sys, {Add(base, k * Page) : k \in 0 .. i})
      BY <1>1, <1>3, <2>5
    <3>2. (i + 1) - 1 = i
      OBVIOUS
    <3> QED
      BY <2>4, <3>1, <3>2 DEF Goes, Gets, GotBy
  <2>6. CASE r.ret = 1
    <3>1. y = Panics(r.sys)
      BY <1>1, <1>3, <2>6
    <3> QED
      BY <2>4, <3>1 DEF Goes, Panics
  <2>7. CASE r.ret = -1
    <3>1. PICK v : v = Retire(r.sys, f)
      OBVIOUS
    <3>2. Valid(v)
      BY <2>1, <2>4, <3>1, TypedRetire DEF Valid
    <3>3. PICK u : u = Unwind(v, base, Page, i, n, refused)
      OBVIOUS
    <3>4. y = Fails(u) /\ Valid(u)
      BY <1>1, <1>3, <2>7, <3>1, <3>2, <3>3, UnwindValid
    <3> QED
      BY <3>4 DEF Goes, Fails
  <2> QED
    BY <2>3, <2>5, <2>6, <2>7
<1> QED
  BY <1>2, <1>3

(* The variable's page is mapped, so a round for it panics, or finds no    *)
(* frame.                                                                  *)
LEMMA VarRound ==
    ASSUME MaskedBuild, Placed, NEW s, Valid(s), s.pt[PageOf(FrameVar)] # 0,
           NEW stride \in Nat, NEW n \in Counts, NEW refused,
           NEW y, y = AllocRound(s, FrameVar, stride, 0, n, refused)
    PROVE  /\ Typed(y.sys) /\ (Below(y.sys.m) => Valid(y.sys))
           /\ y.got = {} /\ y.status \in {"ok", "panic"}
<1>1. Add(FrameVar, 0 * stride) = FrameVar /\ FrameVar \in Address
  <2>1. FrameVar \in Address /\ 0 * stride = 0 /\ 0 \in Address
    BY SysSizes DEF Address
  <2>2. FrameVar + 0 = FrameVar /\ FrameVar < AddrMod
    BY <2>1, Numbers
  <2> QED
    BY <2>1, <2>2, AddIs
<1> DEFINE f  == s.pool
           s0 == [s EXCEPT !.pool = @ - 1]
           r  == PtMap(s0, FrameVar, f)
<1>2. y = IF f = 0 THEN Fails(Unwind(s, FrameVar, stride, 0, n, refused))
          ELSE CASE r.ret = 0  -> Gets(r.sys, {Add(FrameVar, k * Page) : k \in 0 .. 0})
                 [] r.ret = 1  -> Panics(r.sys)
                 [] r.ret = -1 -> Fails(Unwind(Retire(r.sys, f), FrameVar, stride, 0, n, refused))
  <2>1. PICK c : c = Add(FrameVar, 0 * stride)
    OBVIOUS
  <2>2. c = FrameVar
    BY <1>1, <2>1
  <2> HIDE <1>1
  <2>3. y = IF f = 0 THEN Fails(Unwind(s, FrameVar, stride, 0, n, refused))
            ELSE CASE PtMap(s0, c, f).ret = 0  ->
                        Gets(PtMap(s0, c, f).sys, {Add(FrameVar, k * Page) : k \in 0 .. 0})
                   [] PtMap(s0, c, f).ret = 1  -> Panics(PtMap(s0, c, f).sys)
                   [] PtMap(s0, c, f).ret = -1 ->
                        Fails(Unwind(Retire(PtMap(s0, c, f).sys, f), FrameVar, stride, 0, n, refused))
    BY <2>1 DEF AllocRound
  <2> QED
    BY <2>2, <2>3
<1>3. CASE f = 0
  <2>1. PICK m2 : m2 = FreeMultiple(s.m, FrameVar, n).m
    OBVIOUS
  <2>2. n - 0 = n
    BY CountIs, Asked
  <2>3. Unwind(s, FrameVar, stride, 0, n, refused) = [s EXCEPT !.m = m2]
    BY <1>1, <2>1, <2>2 DEF Unwind, Valid, Typed, IsSys
  <2>4. PICK u : u = [s EXCEPT !.m = m2]
    OBVIOUS
  <2>5. y = Fails(u)
    BY <1>2, <1>3, <2>3, <2>4
  <2>6. Typed(u) /\ u.m = m2
    BY <2>4, TypedMap DEF Valid
  <2>7. Below(m2) => Kept(m2)
    BY <1>1, <2>1, FreeBelow DEF Valid, Placed
  <2>8. y.sys = u /\ y.got = {} /\ y.status = "ok"
    BY <2>5 DEF Fails
  <2> QED
    BY <2>6, <2>7, <2>8 DEF Valid
<1>4. CASE f # 0
  <2>1. Typed(s0) /\ s0.m = s.m /\ s0.pt = s.pt /\ f \in 1 .. NumFrames
    BY <1>4, TypedTake DEF Valid
  <2> HIDE DEF s0
  <2>2. Typed(r.sys) /\ r.sys.m = s.m /\ r.ret = 1
    BY <1>1, <2>1, TypedPtMap
  <2> HIDE DEF r
  <2>3. y = Panics(r.sys)
    BY <1>2, <1>4, <2>2
  <2> QED
    BY <2>2, <2>3 DEF Panics, Valid
<1> QED
  BY <1>3, <1>4

(* The map that the alloc_multiple functions start from.                   *)
LEMMA StartValid ==
    ASSUME Typed(Sys), Kept(vmap), NEW o, Fits(o), Below(o.m), NEW s0, s0 = [Sys EXCEPT !.m = o.m]
    PROVE  Valid(s0) /\ s0.pt = pt
<1>1. Typed(s0) /\ s0.m = o.m
  BY TypedMap
<1>2. s0.pt = pt
  BY SysIs, WithMap
<1> QED
  BY <1>1, <1>2 DEF Valid, Kept, Fits

LEMMA FaultValid ==
    ASSUME Typed(Sys), Kept(vmap), NEW o, o.status = "fault", NEW n, NEW base, NEW stride, NEW refused,
           NEW x, x = AllocMany(o, n, base, stride, refused)
    PROVE  Valid(x.sys) /\ x.got = {} /\ x.status = "fault"
<1>1. x = [Fails(Sys) EXCEPT !.status = "fault"]
  BY DEF AllocMany
<1>2. x.sys = Sys /\ x.got = {} /\ x.status = "fault"
  BY <1>1 DEF Fails
<1> QED
  BY <1>2 DEF Valid, Sys

LEMMA RefusedValid ==
    ASSUME Typed(Sys), Kept(vmap), NEW o, Fits(o), Below(o.m), o.status # "fault", o.ret # 0,
           NEW n, NEW base, NEW stride, NEW refused, NEW x, x = AllocMany(o, n, base, stride, refused)
    PROVE  Valid(x.sys) /\ x.got = {} /\ x.status = "ok"
<1>1. PICK s0 : s0 = [Sys EXCEPT !.m = o.m]
  OBVIOUS
<1>2. x = Fails(s0)
  BY <1>1 DEF AllocMany
<1>3. x.sys = s0 /\ x.got = {} /\ x.status = "ok"
  BY <1>2 DEF Fails
<1> QED
  BY <1>1, <1>3, StartValid

LEMMA ManyValid ==
    ASSUME MaskedBuild, Typed(Sys), Kept(vmap), NEW o, Fits(o), Below(o.m),
           NEW n \in Counts, NEW base \in Floor .. Ceiling, NEW refused,
           NEW x, x = AllocMany(o, n, base, Page, refused)
    PROVE  /\ Valid(x.sys) /\ x.status \in {"ok", "panic", "fault"}
           /\ x.got = {} \/ x.got = GotBy(base, n)
<1>1. CASE o.status = "fault" \/ o.ret # 0
  BY <1>1, FaultValid, RefusedValid
<1>2. CASE o.status # "fault" /\ o.ret = 0
  <2>1. PICK s0 : s0 = [Sys EXCEPT !.m = o.m]
    OBVIOUS
  <2>2. n \in Nat
    BY Asked
  <2>3. PICK g : x = g[n] /\ Runs(g, s0, n, base, Page, refused)
    BY <1>2, <2>1, <2>2, AllocRounds
  <2>4. Goes(g[0], base, 0) /\ g[0].got = {}
    BY <2>1, <2>3, StartValid DEF Runs, Gets, Goes
  <2> DEFINE T == {i \in 0 .. n : ~Goes(g[i], base, i)}
  <2>5. T = {}
    <3> SUFFICES ASSUME T # {} PROVE FALSE
      OBVIOUS
    <3>1. T \in SUBSET Nat
      OBVIOUS
    <3>2. PICK i \in T : \A y \in T : ~(y < i)
      <4> HIDE DEF T
      <4> QED
        BY <3>1, Least
    <3>3. i \in 0 .. n /\ ~Goes(g[i], base, i)
      BY <3>2
    <3>4. i # 0
      BY <2>4, <3>3
    <3> DEFINE k == i - 1
    <3>5. k \in 0 .. n /\ k \in 0 .. n - 1 /\ i \in 1 .. n /\ k < i /\ k + 1 = i
      BY <2>2, <3>3, <3>4
    <3>6. Goes(g[k], base, k)
      BY <3>2, <3>5
    <3>7. g[i] = IF i > 1 /\ g[k].got = {} THEN g[k]
                 ELSE AllocRound(g[k].sys, base, Page, k, n, refused)
      BY <2>3, <3>5 DEF Runs
    <3> HIDE DEF T, k
    <3>8. CASE g[i] = g[k] /\ g[k].got = {}
      BY <3>3, <3>6, <3>8 DEF Goes
    <3>9. CASE g[i] = AllocRound(g[k].sys, base, Page, k, n, refused)
      <4>1. Valid(g[k].sys)
        BY <3>6 DEF Goes
      <4>2. PICK y : y = AllocRound(g[k].sys, base, Page, k, n, refused)
        OBVIOUS
      <4>3. Goes(y, base, k + 1)
        BY <3>5, <4>1, <4>2, RoundValid
      <4> QED
        BY <3>3, <3>5, <3>9, <4>2, <4>3
    <3> QED
      BY <3>7, <3>8, <3>9
  <2>6. Goes(x, base, n)
    BY <2>2, <2>3, <2>5
  <2> QED
    BY <2>6 DEF Goes
<1> QED
  BY <1>1, <1>2

LEMMA VarValid ==
    ASSUME MaskedBuild, Placed, Typed(Sys), Kept(vmap), pt[PageOf(FrameVar)] # 0,
           NEW o, Fits(o), Below(o.m), NEW n \in Counts, NEW stride \in Nat, NEW refused,
           NEW x, x = AllocMany(o, n, FrameVar, stride, refused), Below(x.sys.m)
    PROVE  Valid(x.sys) /\ x.got = {} /\ x.status \in {"ok", "panic", "fault"}
<1>1. CASE o.status = "fault" \/ o.ret # 0
  BY <1>1, FaultValid, RefusedValid
<1>2. CASE o.status # "fault" /\ o.ret = 0
  <2>1. PICK s0 : s0 = [Sys EXCEPT !.m = o.m]
    OBVIOUS
  <2>2. n \in Nat
    BY Asked
  <2>3. PICK g : x = g[n] /\ Runs(g, s0, n, FrameVar, stride, refused)
    BY <1>2, <2>1, <2>2, AllocRounds
  <2>4. g[0] = Gets(s0, {})
    BY <2>3 DEF Runs
  <2>5. g[0].sys = s0 /\ g[0].got = {} /\ g[0].status = "ok" /\ Valid(s0) /\ s0.pt = pt
    <3>1. g[0].sys = s0 /\ g[0].got = {} /\ g[0].status = "ok"
      BY <2>4 DEF Gets
    <3> QED
      BY <2>1, <3>1, StartValid
  <2>6. CASE n = 0
    BY <2>3, <2>5, <2>6
  <2>7. CASE n # 0
    <3>1. 1 \in 1 .. n /\ ~(1 > 1) /\ 1 - 1 = 0
      BY <2>2, <2>7
    <3>2. g[1] = AllocRound(s0, FrameVar, stride, 0, n, refused)
      BY <2>3, <2>5, <3>1 DEF Runs
    <3>3. PICK y : y = AllocRound(s0, FrameVar, stride, 0, n, refused)
      OBVIOUS
    <3>4. /\ Typed(y.sys) /\ (Below(y.sys.m) => Valid(y.sys))
          /\ y.got = {} /\ y.status \in {"ok", "panic"}
      BY <2>5, <3>3, VarRound
    <3> DEFINE T == {i \in 1 .. n : g[i] # y}
    <3>5. T = {}
      <4> SUFFICES ASSUME T # {} PROVE FALSE
        OBVIOUS
      <4>1. T \in SUBSET Nat
        OBVIOUS
      <4>2. PICK i \in T : \A z \in T : ~(z < i)
        <5> HIDE DEF T
        <5> QED
          BY <4>1, Least
      <4>3. i \in 1 .. n /\ g[i] # y /\ i # 1
        BY <3>2, <3>3, <4>2
      <4>4. i - 1 \in 1 .. n /\ i - 1 < i /\ i > 1
        BY <2>2, <4>3
      <4>5. g[i - 1] = y
        BY <4>2, <4>4
      <4>6. g[i] = g[i - 1]
        BY <2>3, <3>4, <4>3, <4>4, <4>5 DEF Runs
      <4> QED
        BY <4>3, <4>5, <4>6
    <3>6. x = y
      BY <2>2, <2>3, <2>7, <3>5
    <3> QED
      BY <3>4, <3>6
  <2> QED
    BY <2>6, <2>7
<1> QED
  BY <1>1, <1>2

LEMMA OneValid ==
    ASSUME MaskedBuild, Placed, Typed(Sys), Kept(vmap), NEW o, Fits(o), Below(o.m), NEW target,
           o.ret = 0 => \/ target \in Floor .. Ceiling /\ o.frame = target
                        \/ target = FrameVar /\ pt[PageOf(FrameVar)] # 0,
           NEW x, x = AllocOne(o, target)
    PROVE  /\ Valid(x.sys) /\ x.status \in {"ok", "panic"}
           /\ x.got = {} \/ (x.got = {target} /\ target \in Floor .. Ceiling)
<1> DEFINE s == [Sys EXCEPT !.pool = @ - 1, !.m = o.m]
           r == PtMap(s, target, pool)
<1>1. x = IF pool = 0 THEN Fails(Sys)
          ELSE IF o.ret # 0 THEN Fails(Retire(s, pool))
          ELSE CASE r.ret = 0  -> Gets(r.sys, {o.frame})
                 [] r.ret = 1  -> Panics(r.sys)
                 [] r.ret = -1 ->
                      Fails([Retire(r.sys, pool) EXCEPT !.m = VirtualFree(@, target).m])
  BY DEF AllocOne
<1>2. CASE pool = 0
  <2>1. x = Fails(Sys)
    BY <1>1, <1>2
  <2> QED
    BY <2>1 DEF Fails, Valid, Sys
<1>3. CASE pool # 0
  <2> DEFINE s0 == [Sys EXCEPT !.pool = @ - 1]
  <2>1. s = [s0 EXCEPT !.m = o.m]
    OBVIOUS
  <2>2. Typed(s0) /\ s0.pt = pt /\ pool \in 1 .. NumFrames
    BY <1>3, SysIs, TypedTake
  <2> HIDE DEF s0, s
  <2>3. Typed(s) /\ s.m = o.m
    BY <2>1, <2>2, TypedMap
  <2>4. s.pt = pt
    BY <2>1, <2>2, WithMap DEF Typed
  <2>5. Valid(s)
    BY <2>3 DEF Valid, Kept, Fits
  <2>6. CASE o.ret # 0
    <3>1. PICK v : v = Retire(s, pool)
      OBVIOUS
    <3>2. Valid(v)
      BY <2>2, <2>5, <3>1, TypedRetire DEF Valid
    <3>3. x = Fails(v)
      BY <1>1, <1>3, <2>6, <3>1
    <3> QED
      BY <3>2, <3>3 DEF Fails
  <2>7. CASE o.ret = 0
    <3>1. target \in Address
      BY <2>7, SysSizes, Numbers
    <3>2. Typed(r.sys) /\ r.sys.m = s.m /\ r.ret \in {-1, 0, 1}
          /\ (target = FrameVar /\ pt[PageOf(target)] # 0 => r.ret = 1)
      BY <2>2, <2>3, <2>4, <3>1, TypedPtMap
    <3> HIDE DEF r
    <3>3. Valid(r.sys)
      BY <2>5, <3>2 DEF Valid
    <3>4. CASE r.ret = 1
      <4>1. x = Panics(r.sys)
        BY <1>1, <1>3, <2>7, <3>4
      <4> QED
        BY <3>3, <4>1 DEF Panics
    <3>5. r.ret # 1 => target \in Floor .. Ceiling /\ o.frame = target
      BY <2>7, <3>2
    <3>6. CASE r.ret = 0
      <4>1. x = Gets(r.sys, {target})
        BY <1>1, <1>3, <2>7, <3>5, <3>6
      <4> QED
        BY <3>3, <3>5, <3>6, <4>1 DEF Gets
    <3>7. CASE r.ret = -1
      <4>1. PICK v : v = Retire(r.sys, pool)
        OBVIOUS
      <4>2. Valid(v)
        BY <2>2, <3>3, <4>1, TypedRetire DEF Valid
      <4>3. PICK m2 : m2 = VirtualFree(v.m, target).m
        OBVIOUS
      <4>4. Floor =< target /\ target + Page < AddrMod
        BY <3>5, <3>7, OnePage, Numbers
      <4>5. Kept(m2)
        BY <3>1, <4>2, <4>3, <4>4, VirtualFreeFits DEF Valid, Kept
      <4>6. PICK u : u = [v EXCEPT !.m = m2]
        OBVIOUS
      <4>7. Valid(u)
        BY <4>2, <4>5, <4>6, TypedMap DEF Valid
      <4>8. [v EXCEPT !.m = VirtualFree(@, target).m] = u
        BY <4>3, <4>6
      <4>9. x = Fails(u)
        BY <1>1, <1>3, <2>7, <3>7, <4>1, <4>8
      <4> QED
        BY <4>7, <4>9 DEF Fails
    <3> QED
      BY <3>2, <3>4, <3>6, <3>7
  <2> QED
    BY <2>6, <2>7
<1> QED
  BY <1>2, <1>3

-----------------------------------------------------------------------------
(* The invariant of the state                                              *)

SysInv ==
    /\ Apart /\ Typed(Sys) /\ Kept(vmap) /\ Held
    /\ status \in {"ok", "fault", "panic"}

\* What the step leaves, and what FailureUnmapsAll says of it.
KeepsSys == SysInv' /\ ((own' = own /\ status' = "ok") => pt' = pt)

\* Addresses of pages that may be handed out.
MayGive(p) == p \in Address /\ Floor =< p /\ p + Page < AddrMod

LEMMA EndsKeeps ==
    ASSUME SysInv, NEW o, NEW x, Ends(o, x), Result(x), Valid(x.sys),
           x.status \in {"ok", "panic", "fault"}, \A p \in x.got : MayGive(p)
    PROVE  KeepsSys
<1>1. /\ vmap' = x.sys.m /\ pt' = x.sys.pt /\ tables' = x.sys.tables
      /\ pool' = x.sys.pool /\ retired' = x.sys.retired /\ status' = x.status
      /\ own' = [a \in Address |-> own[a] + (IF a \in x.got THEN 1 ELSE 0)]
  BY DEF Ends
<1>2. Apart'
  BY EndsApart DEF SysInv
<1>3. Sys' = x.sys
  BY <1>1 DEF Valid, Typed, IsSys, Sys
<1>4. Typed(Sys') /\ Kept(vmap')
  BY <1>1, <1>3 DEF Valid
<1>5. Held'
  <2>1. own' \in [Address -> Nat]
    BY <1>1 DEF SysInv, Held
  <2>2. \A a \in Address : own'[a] > 0 => Floor =< a /\ a + Page < AddrMod
    BY <1>1 DEF SysInv, Held, MayGive
  <2> QED
    BY <2>1, <2>2 DEF Held
<1>6. ASSUME own' = own, status' = "ok" PROVE pt' = pt
  <2>1. x.got = {}
    <3> SUFFICES ASSUME NEW p \in x.got PROVE FALSE
      OBVIOUS
    <3>1. p \in Address
      BY DEF MayGive
    <3>2. own'[p] = own[p] + 1 /\ own[p] \in Nat
      BY <1>1, <3>1 DEF SysInv, Held
    <3> QED
      BY <1>6, <3>2
  <2> QED
    BY <1>1, <1>6, <2>1 DEF Result
<1> QED
  BY <1>1, <1>2, <1>4, <1>5, <1>6 DEF KeepsSys, SysInv

LEMMA OneKeeps ==
    ASSUME MaskedBuild, Placed, SysInv, NEW o, Fits(o), NEW target,
           target = FrameVar \/ (target = o.frame /\ o.frame \in Address), One(o, target)
    PROVE  KeepsSys
<1>1. PICK x : x = AllocOne(o, target)
  OBVIOUS
<1>2. Ends(o, x) /\ Below(o.m)
  BY <1>1 DEF One, Ends, Below
<1>3. pt[PageOf(FrameVar)] # 0
  BY SysSizes DEF SysInv, Apart, Mapping
<1>4. Result(x)
  BY <1>1, <1>3, OneResult DEF SysInv, Apart
<1>5. o.ret = 0 /\ o.frame \in Address => o.frame \in Floor .. Ceiling
  BY <1>2, Numbers DEF Fits, NoFrame
<1>6. /\ Valid(x.sys) /\ x.status \in {"ok", "panic"}
      /\ x.got = {} \/ (x.got = {target} /\ target \in Floor .. Ceiling)
  <2>1. o.ret = 0 => \/ target \in Floor .. Ceiling /\ o.frame = target
                     \/ target = FrameVar /\ pt[PageOf(FrameVar)] # 0
    BY <1>3, <1>5
  <2> QED
    BY <1>1, <1>2, <2>1, OneValid DEF SysInv
<1>7. \A p \in Floor .. Ceiling : MayGive(p)
  BY OnePage, Numbers DEF MayGive
<1>8. \A p \in x.got : MayGive(p)
  BY <1>6, <1>7
<1> QED
  BY <1>2, <1>4, <1>6, <1>8, EndsKeeps

LEMMA ManyKeeps ==
    ASSUME MaskedBuild, SysInv, NEW o, Fits(o), NEW n \in Counts, NEW base \in Floor .. Ceiling,
           NEW refused, Many(o, n, base, Page, refused)
    PROVE  KeepsSys
<1>1. PICK x : x = AllocMany(o, n, base, Page, refused)
  OBVIOUS
<1>2. Ends(o, x) /\ Below(o.m)
  BY <1>1 DEF Many, Ends, Below
<1>3. n \in Nat /\ base \in Address /\ Page \in Nat
  BY Asked, Numbers
<1>4. Result(x)
  BY <1>1, <1>3, ManyResult DEF SysInv, Apart
<1>5. /\ Valid(x.sys) /\ x.status \in {"ok", "panic", "fault"}
      /\ x.got = {} \/ x.got = GotBy(base, n)
  BY <1>1, <1>2, ManyValid DEF SysInv
<1>6. \A p \in GotBy(base, n) : MayGive(p)
  BY RangePage DEF GotBy, MayGive
<1> QED
  BY <1>2, <1>4, <1>5, <1>6, EndsKeeps

LEMMA VarKeeps ==
    ASSUME MaskedBuild, Placed, SysInv, NEW o, Fits(o), NEW n \in Counts,
           NEW refused, ManyAtVar(o, n, refused)
    PROVE  KeepsSys
<1>1. PICK x : x = AllocMany(o, n, FrameVar, 8 * Page, refused)
  OBVIOUS
<1>2. Ends(o, x) /\ Below(o.m) /\ Below(x.sys.m)
  BY <1>1 DEF ManyAtVar, Many, Ends, Below
<1>3. n \in Nat /\ FrameVar \in Address /\ 8 * Page \in Nat
  BY Asked, SysSizes
<1>4. Result(x)
  BY <1>1, <1>3, ManyResult DEF SysInv, Apart
<1>5. pt[PageOf(FrameVar)] # 0
  BY SysSizes DEF SysInv, Apart, Mapping
<1>6. Valid(x.sys) /\ x.got = {} /\ x.status \in {"ok", "panic", "fault"}
  BY <1>1, <1>2, <1>3, <1>5, VarValid DEF SysInv
<1> QED
  BY <1>2, <1>4, <1>6, EndsKeeps

(* Pages that are given back were handed out, so they are above the        *)
(* kernel's own, and the map they are freed from stays whole.              *)
LEMMA FreesKeeps ==
    ASSUME SysInv, NEW P \in SUBSET Address, NEW s, Frees(P, s), Valid(s),
           s.tables = tables, s.pool = pool, s.retired = retired, Apart',
           P = {} => s.pt = pt
    PROVE  KeepsSys
<1>1. /\ vmap' = s.m /\ pt' = s.pt /\ tables' = s.tables /\ pool' = s.pool
      /\ retired' = s.retired /\ status' = status /\ \A p \in P : own[p] > 0
      /\ own' = [a \in Address |-> own[a] - (IF a \in P THEN 1 ELSE 0)]
  BY DEF Frees
<1>2. Sys' = s
  BY <1>1 DEF Valid, Typed, IsSys, Sys
<1>3. Typed(Sys') /\ Kept(vmap')
  BY <1>1, <1>2 DEF Valid
<1>4. Held'
  <2>1. \A a \in Address : own'[a] \in Nat /\ own'[a] =< own[a]
    BY <1>1 DEF SysInv, Held
  <2>2. own' \in [Address -> Nat]
    BY <1>1, <2>1
  <2>3. \A a \in Address : own'[a] > 0 => Floor =< a /\ a + Page < AddrMod
    BY <2>1 DEF SysInv, Held
  <2> QED
    BY <2>2, <2>3 DEF Held
<1>5. own' = own => P = {}
  <2> SUFFICES ASSUME own' = own, NEW p \in P PROVE FALSE
    OBVIOUS
  <2>1. own'[p] = own[p] - 1 /\ own[p] \in Nat
    BY <1>1 DEF SysInv, Held
  <2> QED
    BY <2>1
<1> QED
  BY <1>1, <1>3, <1>4, <1>5 DEF KeepsSys, SysInv

LEMMA FreeKeepsSys ==
    ASSUME MaskedBuild, SysInv, NEW a \in Address, NEW refused, PageFree(a, refused)
    PROVE  KeepsSys
<1>1. Frees({a}, Freed(Sys, a, refused)) /\ Apart'
  BY FreeStep DEF PageFree, SysInv
<1>2. own[a] > 0
  BY <1>1 DEF Frees
<1>3. Floor =< a /\ a + Page < AddrMod
  BY <1>2 DEF SysInv, Held
<1>4. PICK m2 : m2 = IF refused THEN vmap ELSE VirtualFree(vmap, a).m
  OBVIOUS
<1>5. Kept(m2)
  BY <1>3, <1>4, VirtualFreeFits DEF SysInv, Kept
<1> DEFINE s1 == [Sys EXCEPT !.pt[PageOf(a)] = 0]
<1>6. Freed(Sys, a, refused) = [s1 EXCEPT !.m = m2]
  BY <1>4 DEF Freed, Sys
<1>7. /\ IsSys(s1) /\ s1.tables = tables /\ s1.pool = pool /\ s1.retired = retired
      /\ s1.pt = [pt EXCEPT ![PageOf(a)] = 0]
  BY DEF Sys, IsSys
<1>8. [pt EXCEPT ![PageOf(a)] = 0] \in [Pages -> 0 .. Top]
  <2>1. pt \in [Pages -> 0 .. Top] /\ 0 \in 0 .. Top
    BY TopIs, SysIs DEF SysInv, Typed
  <2> QED
    BY <2>1, Put
<1> HIDE DEF s1
<1>9. Typed(s1)
  BY <1>7, <1>8 DEF SysInv, Typed, Sys
<1>10. PICK s : s = [s1 EXCEPT !.m = m2]
  OBVIOUS
<1>11. Valid(s)
  BY <1>5, <1>9, <1>10, TypedMap DEF Valid
<1>12. s.tables = tables /\ s.pool = pool /\ s.retired = retired
  BY <1>7, <1>10 DEF IsSys
<1>13. Frees({a}, s)
  BY <1>1, <1>6, <1>10
<1> QED
  BY <1>1, <1>11, <1>12, <1>13, FreesKeeps

\* page_free_multiple touches neither the tables nor the frames.
LEMMA FreedFrames ==
    ASSUME NEW s, Typed(s), NEW a, NEW n \in Nat, NEW refused, NEW x, x = FreedMultiple(s, a, n, refused)
    PROVE  x.tables = s.tables /\ x.pool = s.pool /\ x.retired = s.retired
<1> DEFINE Same(y) ==
              IsSys(y) /\ y.tables = s.tables /\ y.pool = s.pool /\ y.retired = s.retired
<1>1. PICK g : /\ x = g[n] /\ g[0] = s
               /\ \A i \in 1 .. n : g[i] = FreeRound(g[i - 1], a, i - 1, refused)
  BY FreedRounds
<1>2. ASSUME NEW y, Same(y), NEW i PROVE Same(FreeRound(y, a, i, refused))
  <2> DEFINE p  == PageOf(Add(a, i * Page))
             m2 == IF i \in refused THEN y.m ELSE VirtualFree(y.m, a).m
             s1 == [y EXCEPT !.pt[p] = 0]
  <2>1. FreeRound(y, a, i, refused) = [s1 EXCEPT !.m = m2]
    BY <1>2 DEF FreeRound, IsSys
  <2> HIDE DEF m2, p
  <2>2. Same(s1)
    BY <1>2 DEF IsSys
  <2> HIDE DEF s1
  <2>3. Same([s1 EXCEPT !.m = m2])
    BY <2>2 DEF IsSys
  <2> QED
    BY <2>1, <2>3
<1>3. Same(s)
  BY DEF Typed
<1> HIDE DEF Same
<1> DEFINE T == {i \in 0 .. n : ~Same(g[i])}
<1>4. T = {}
  <2> SUFFICES ASSUME T # {} PROVE FALSE
    OBVIOUS
  <2>1. T \in SUBSET Nat
    OBVIOUS
  <2>2. PICK i \in T : \A y \in T : ~(y < i)
    <3> HIDE DEF T
    <3> QED
      BY <2>1, Least
  <2>3. i # 0
    BY <1>1, <1>3, <2>2
  <2>4. i - 1 \in 0 .. n /\ i \in 1 .. n /\ i - 1 < i
    BY <2>2, <2>3
  <2>5. Same(g[i - 1])
    BY <2>2, <2>4
  <2>6. Same(g[i])
    BY <1>1, <1>2, <2>4, <2>5
  <2> QED
    BY <2>2, <2>6
<1>5. Same(x)
  BY <1>1, <1>4
<1> QED
  BY <1>5 DEF Same

LEMMA FreeMultipleKeeps ==
    ASSUME MaskedBuild, SysInv, NEW a \in Address, NEW n \in Counts, NEW refused,
           PageFreeMultiple(a, n, refused)
    PROVE  KeepsSys
<1> DEFINE P == {Add(a, i * Page) : i \in 0 .. n - 1}
<1>1. PICK s : s = FreedMultiple(Sys, a, n, refused)
  OBVIOUS
<1>2. n \in Nat /\ Apart' /\ Frees(P, s)
  BY <1>1, Asked, FreeMultipleStep DEF PageFreeMultiple, SysInv
<1>3. P \in SUBSET Address
  <2> SUFFICES ASSUME NEW i \in 0 .. n - 1 PROVE Add(a, i * Page) \in Address
    OBVIOUS
  <2>1. a \in Int /\ i * Page \in Int
    BY <1>2, SysSizes DEF Address
  <2> QED
    BY <2>1, AddType
<1>4. Typed(Sys) /\ Kept(vmap) /\ Valid(Sys)
  BY DEF SysInv, Valid, Sys
<1>5. s.tables = tables /\ s.pool = pool /\ s.retired = retired
  BY <1>1, <1>2, <1>4, FreedFrames DEF Sys
<1>6. CASE n = 0
  <2>1. s = Sys
    <3>1. n \in Nat
      BY <1>2
    <3> HIDE DEF P
    <3>2. PICK g : /\ s = g[n] /\ g[0] = Sys
                   /\ \A i \in 1 .. n : g[i] = FreeRound(g[i - 1], a, i - 1, refused)
      BY <1>1, <3>1, FreedRounds
    <3> QED
      BY <1>6, <3>2
  <2>2. Valid(s) /\ s.pt = pt
    BY <1>4, <2>1, SysIs
  <2> HIDE DEF P
  <2> QED
    BY <1>2, <1>3, <1>5, <2>2, FreesKeeps
<1>7. CASE n # 0
  <2>1. a \in P
    <3>1. 0 \in 0 .. n - 1 /\ 0 * Page = 0
      BY <1>2, <1>7, SysSizes
    <3>2. Add(a, 0) = a
      <4>1. a + 0 = a /\ a < AddrMod /\ 0 \in Address
        BY Numbers
      <4> QED
        BY <4>1, AddIs
    <3> QED
      BY <3>1, <3>2
  <2> HIDE DEF P
  <2>2. own[a] > 0
    BY <1>2, <2>1 DEF Frees
  <2>3. Floor =< a /\ a + Page < AddrMod
    BY <2>2 DEF SysInv, Held
  <2>4. Valid(s)
    BY <1>1, <1>2, <1>4, <2>3, FreedValid
  <2> QED
    BY <1>2, <1>3, <1>5, <2>1, <2>4, FreesKeeps
<1> QED
  BY <1>6, <1>7

LEMMA SysInvInit == ASSUME Placed, SysInit PROVE SysInv
<1> DEFINE mapped == {PageOf(a) : a \in Base0 .. Base0 + Length0} \cup {PageOf(FrameVar)}
<1>1. /\ Init /\ pt = [n \in Pages |-> IF n \in mapped THEN NumFrames + 1 + n ELSE 0]
      /\ tables = {n \div TableSpan : n \in mapped} /\ pool = NumFrames /\ retired = {}
  BY DEF SysInit
<1>2. Apart /\ Inv
  BY <1>1, ApartInit, InitInv
<1>3. \A a \in Base0 .. Base0 + Length0 : a \in Address
  BY Sizes, Numbers
<1>4. mapped \subseteq Pages /\ PageOf(FrameVar) \in mapped
  BY <1>3, PageOfAddress, SysSizes
<1> HIDE DEF mapped
<1>5. pt \in [Pages -> 0 .. Top]
  <2>1. \A n \in Pages : n \in Nat /\ n =< PageOf(AddrMod - 1)
    BY TopIs DEF Pages
  <2>2. \A n \in Pages : NumFrames + 1 + n \in 0 .. Top
    BY <2>1, TopIs, SysSizes DEF Top
  <2>3. 0 \in 0 .. Top
    BY TopIs
  <2> QED
    BY <1>1, <2>2, <2>3
<1>6. tables \subseteq Pages /\ PageOf(FrameVar) \div TableSpan \in tables
  BY <1>1, <1>4, TableOf
<1>7. Typed(Sys)
  BY <1>1, <1>5, <1>6, SysSizes DEF Typed, Sys, IsSys
<1> QED
  BY <1>2, <1>7 DEF SysInv, Inv, Kept

LEMMA Step == ASSUME MaskedBuild, Placed, SysInv, SysNext PROVE KeepsSys
<1>1. /\ Whole(vmap) /\ Ranged(vmap) /\ Addrs \subseteq Address /\ Addrs \subseteq Floor .. Ceiling
      /\ NoFrame \notin Address
  BY VirtualAssumption, Numbers DEF SysInv, Kept, Address, Placed, NoFrame
<1>2. CASE PageAlloc
  <2>1. PICK o : o = VirtualAlloc(vmap)
    OBVIOUS
  <2>2. Fits(o)
    BY <1>1, <2>1, VirtualAllocFits
  <2>3. o.frame \in Address
    <3>1. vmap.first \in Listed(vmap)
      BY <1>1, WholeHas
    <3>2. End(vmap, vmap.first) \in Address
      BY <1>1, <3>1, Numbers DEF Ranged
    <3> QED
      BY <2>1, <3>2 DEF VirtualAlloc, Returns
  <2> QED
    BY <1>2, <2>1, <2>2, <2>3, OneKeeps DEF PageAlloc
<1>3. ASSUME NEW a \in Addrs, PageAllocAt(a) PROVE KeepsSys
  <2>1. PICK o : o = AllocAt(vmap, a)
    OBVIOUS
  <2>2. Fits(o) /\ a \in Address
    BY <1>1, <2>1, AllocAtFits
  <2>3. o.frame = a
    BY <2>1 DEF AllocAt, PlaceAfter, Insert, Returns
  <2> QED
    BY <1>3, <2>1, <2>2, <2>3, OneKeeps DEF PageAllocAt
<1>4. ASSUME NEW b \in Addrs PROVE AllocAfter(vmap, b).frame \in Address
  <2>1. PICK t : t = Find(vmap, b)
    OBVIOUS
  <2>2. End(vmap, t) \in Address /\ b \in Address
    BY <1>1, <2>1, FindHas, Numbers
  <2> QED
    BY <2>1, <2>2 DEF AllocAfter, PlaceAfter, Insert, Returns
<1>5. ASSUME NEW b \in Addrs, PageAllocAfter(b) PROVE KeepsSys
  <2>1. PICK o : o = AllocAfter(vmap, b)
    OBVIOUS
  <2>2. Fits(o)
    BY <1>1, <2>1, AllocAfterFits
  <2> QED
    BY <1>4, <1>5, <2>1, <2>2, OneKeeps DEF PageAllocAfter
<1>6. ASSUME NEW b \in Addrs, NEW j \in Jumps, PageAllocBeyond(b, j) PROVE KeepsSys
  <2>1. PICK o : o = AllocBeyond(vmap, b, j)
    OBVIOUS
  <2>2. Fits(o)
    BY <1>1, <2>1, AllocBeyondFits
  <2> QED
    BY <1>6, <2>1, <2>2, OneKeeps DEF PageAllocBeyond
<1>7. ASSUME NEW b \in Addrs, NEW j \in Jumps, PageAllocBeyondEx(b, j) PROVE KeepsSys
  <2>1. PICK o : o = AllocBeyondEx(vmap, b, j)
    OBVIOUS
  <2>2. Fits(o)
    BY <1>1, <2>1, AllocBeyondExFits
  <2>3. o.frame \in Address
    <3> DEFINE blocked == {k \in BeforeOthers(vmap) :
                             NextBase(vmap, Chain(vmap)[k]) =< BeyondExFrame(vmap, b, j, k)}
    <3>1. PICK w : w = BeyondExWalk(vmap, b, j, blocked)
      OBVIOUS
    <3>2. b \in Address /\ w.f \in Address
      BY <1>1, <3>1, BeyondExWalkIs
    <3>3. o = IF j = 0 THEN AllocAfter(vmap, b) ELSE PlaceAfter(vmap, w.t, w.f, Page)
      BY <2>1, <3>1 DEF AllocBeyondEx
    <3>4. PlaceAfter(vmap, w.t, w.f, Page).frame = w.f
      BY DEF PlaceAfter, Insert, Returns
    <3> QED
      BY <1>4, <3>2, <3>3, <3>4
  <2> QED
    BY <1>7, <2>1, <2>2, <2>3, OneKeeps DEF PageAllocBeyondEx
<1>8. ASSUME NEW a \in Addrs, NEW n \in Counts, NEW r, PageAllocMultiple(a, n, r) PROVE KeepsSys
  BY <1>1, <1>8, AllocMultipleFits, ManyKeeps DEF PageAllocMultiple
<1>9. ASSUME NEW a \in Addrs, NEW n \in Counts, NEW r, PageAllocMultipleEx(a, n, r) PROVE KeepsSys
  BY <1>1, <1>9, AllocMultipleExFits, ManyKeeps DEF PageAllocMultipleEx
<1>10. ASSUME NEW a \in Addrs, NEW n \in Counts, NEW r, PageAllocMultipleAt(a, n, r) PROVE KeepsSys
  BY <1>1, <1>10, AllocMultipleAtFits, ManyKeeps DEF PageAllocMultipleAt
<1>11. ASSUME NEW b \in Addrs, NEW n \in Counts, NEW r, PageAllocMultipleAfter(b, n, r) PROVE KeepsSys
  BY <1>1, <1>11, AllocMultipleAfterFits, VarKeeps DEF PageAllocMultipleAfter
<1>12. ASSUME NEW b \in Addrs, NEW n \in Counts, NEW r, PageAllocMultipleAfterEx(b, n, r) PROVE KeepsSys
  BY <1>1, <1>12, AllocMultipleAfterExFits, VarKeeps DEF PageAllocMultipleAfterEx
<1>13. ASSUME NEW b \in Addrs, NEW n \in Counts, NEW j \in Jumps, NEW r,
              PageAllocMultipleBeyond(b, n, j, r)
       PROVE  KeepsSys
  BY <1>1, <1>13, AllocMultipleBeyondFits, VarKeeps DEF PageAllocMultipleBeyond
<1>14. ASSUME NEW b \in Addrs, NEW n \in Counts, NEW j \in Jumps, NEW r,
              PageAllocMultipleBeyondEx(b, n, j, r)
       PROVE  KeepsSys
  BY <1>1, <1>14, AllocMultipleBeyondExFits, VarKeeps DEF PageAllocMultipleBeyondEx
<1>15. ASSUME NEW a \in Address, NEW refused, PageFree(a, refused) PROVE KeepsSys
  BY <1>15, FreeKeepsSys
<1>16. ASSUME NEW a \in Address, NEW n \in Counts, NEW r, PageFreeMultiple(a, n, r) PROVE KeepsSys
  BY <1>16, FreeMultipleKeeps
<1> QED
  BY <1>2, <1>3, <1>5, <1>6, <1>7, <1>8, <1>9, <1>10, <1>11, <1>12, <1>13, <1>14, <1>15, <1>16
     DEF SysNext

LEMMA SysKeeps == ASSUME MaskedBuild, Placed, SysInv, [SysNext]_sysVars PROVE KeepsSys
<1>1. CASE SysNext
  BY <1>1, Step
<1>2. CASE UNCHANGED sysVars
  <2>1. /\ vmap' = vmap /\ own' = own /\ status' = status /\ pt' = pt /\ tables' = tables
        /\ pool' = pool /\ retired' = retired
    BY <1>2 DEF sysVars
  <2>2. Apart'
    BY <2>1 DEF SysInv, Apart, Given, Owned
  <2>3. Held' /\ Sys' = Sys
    BY <2>1 DEF SysInv, Held, Sys
  <2> QED
    BY <2>1, <2>2, <2>3 DEF SysInv, KeepsSys
<1> QED
  BY <1>1, <1>2

LEMMA SysInvTypes == SysInv => SysTypeOK
<1> SUFFICES ASSUME SysInv PROVE SysTypeOK
  OBVIOUS
<1>1. TypeOK
  BY InvSafe DEF SysInv, Inv, Kept
<1>2. /\ pt \in [Pages -> 0 .. NumFrames + 1 + PageOf(AddrMod - 1)] /\ tables \subseteq Pages
      /\ pool \in 0 .. NumFrames /\ retired \subseteq 1 .. NumFrames
  BY DEF SysInv, Typed, Sys, Top
<1> QED
  BY <1>1, <1>2 DEF SysTypeOK

(* Where the marks of an entry fit its word, and callers ask for addresses *)
(* at or above the end of the kernel's pages, every state that the         *)
(* page_alloc and page_free functions reach is well formed: the list of    *)
(* ranges, the translations, the tables, the frames left and those retired.*)
THEOREM SysTypes == ASSUME MaskedBuild, Placed PROVE SysSpec => []SysTypeOK
<1>1. SysInv /\ [SysNext]_sysVars => SysInv'
  BY SysKeeps DEF KeepsSys
<1> QED
  BY <1>1, SysInvInit, SysInvTypes, PTL DEF SysSpec

(* And a call that gives its caller nothing and takes nothing back leaves  *)
(* every translation as it was, at whatever page it failed.                *)
THEOREM FailuresUndone == ASSUME MaskedBuild, Placed PROVE SysSpec => FailureUnmapsAll
<1>1. SysInv /\ [SysNext]_sysVars => SysInv'
  BY SysKeeps DEF KeepsSys
<1>2. SysInv /\ [SysNext]_sysVars => [(own' = own /\ status' = "ok") => pt' = pt]_sysVars
  BY SysKeeps DEF KeepsSys
<1> QED
  BY <1>1, <1>2, SysInvInit, PTL DEF SysSpec, FailureUnmapsAll
=============================================================================
