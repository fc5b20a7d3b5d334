-------------------------- MODULE PageTables_proofs --------------------------
(***************************************************************************)
(* For every number of entries a table, every physical memory and every    *)
(* pool of frames: the kernel's page tables form a tree that no stale      *)
(* translation reaches, and the mapper implements AddressMap.              *)
(***************************************************************************)
EXTENDS PageTables, SequenceTheorems, TLAPS

Quads == Idx \X Idx \X Idx \X Idx
Kernel(v) == v[1] \notin {IdentityIndex, MirrorIndex}

-----------------------------------------------------------------------------
(* What every frame is: a table of one of the four levels, a frame that a  *)
(* caller obtained, one of the pool, or something else.                    *)
Kinds == {"root", "pdp", "pd", "pt", "data", "free", "other"}
Upper == {"root", "pdp", "pd"}
Under(k) == CASE k = "root" -> "pdp" [] k = "pdp" -> "pd" [] k = "pd" -> "pt"

Typed(m, pl, d, kind) ==
    /\ m \in [Frames -> [Idx -> Entry]]
    /\ pl \in Seq(Frames)
    /\ d \in SUBSET Frames
    /\ kind \in [Frames -> Kinds]

Labels(pl, d, kind) ==
    /\ \A f \in Frames : /\ f \in Roots <=> kind[f] = "root"
                         /\ f \in d <=> kind[f] = "data"
    /\ \A k \in 1 .. Len(pl) : kind[pl[k]] = "free"
    /\ \A j, k \in 1 .. Len(pl) : pl[j] = pl[k] => j = k

(* An entry of a table leads to one of the next level.                     *)
Links(m, kind) ==
    \A f \in Frames, i \in Idx : m[f][i].p =>
        /\ kind[f] \in Upper => kind[m[f][i].addr] = Under(kind[f])
        /\ kind[f] \in Upper /\ m[f][i].big => f = BootPd
        /\ kind[f] = "pt" /\ f # BootBig => kind[m[f][i].addr] = "data"

(* A table has one entry that leads to it, but for the firmware's, which   *)
(* all roots share under two indices.                                      *)
OneParent(m, kind) ==
    \A f, g \in Frames, i, j \in Idx :
        (kind[f] \in Upper /\ kind[g] \in Upper /\ m[f][i].p /\ m[g][j].p
            /\ m[f][i].addr = m[g][j].addr)
        => \/ f = g /\ i = j
           \/ {i, j} \subseteq {IdentityIndex, MirrorIndex} /\ kind[f] = "root"

(* The firmware's entries stay.                                            *)
BootStays(m, kind) ==
    /\ \A r \in Roots : m[r][IdentityIndex] = To(BootPdp) /\ m[r][MirrorIndex] = To(BootPdp)
    /\ m[BootPdp][0] = To(BootPd)
    /\ m[BootPd][0].p /\ m[BootPd][0].addr = BootBig
    /\ kind[BootPdp] = "pdp" /\ kind[BootPd] = "pd" /\ kind[BootBig] = "pt"

Shape(m, pl, d, kind) ==
    /\ Typed(m, pl, d, kind)
    /\ Labels(pl, d, kind)
    /\ Links(m, kind)
    /\ OneParent(m, kind)
    /\ BootStays(m, kind)

(* Stale translations lead to frames that callers obtained.                *)
Stale == \A t \in tlb : t[2] \in data

IInv ==
    /\ \E kind : Shape(mem, pool, data, kind)
    /\ current \in Roots
    /\ Stale

-----------------------------------------------------------------------------
(* The firmware's tables, before anything is mapped.                       *)
LEMMA InvInit == Init => IInv
<1> SUFFICES ASSUME Init PROVE IInv
  OBVIOUS
<1> DEFINE kind == [f \in Frames |->
              CASE f \in Roots -> "root" [] f = BootPdp -> "pdp" [] f = BootPd -> "pd"
                [] f = BootBig -> "pt"
                [] f \in {Pool0[k] : k \in 1 .. Len(Pool0)} -> "free" [] OTHER -> "other"]
<1> USE TablesAssumption, FramesAssumption
<1>1. PICK z \in {Absent, To(BootBig)} :
          mem = [f \in Frames |->
                   CASE f \in Roots -> [i \in Idx |-> IF i \in {IdentityIndex, MirrorIndex}
                                                      THEN To(BootPdp) ELSE Absent]
                     [] f = BootPdp -> [EmptyTable EXCEPT ![0] = To(BootPd)]
                     [] f = BootPd  -> [EmptyTable EXCEPT
                                           ![0] = [p |-> TRUE, big |-> TRUE, addr |-> BootBig]]
                     [] OTHER       -> [i \in Idx |-> z]]
  BY DEF Init
<1>2. Absent \in Entry /\ \A f \in Frames : To(f) \in Entry
  BY DEF Absent, To, Entry
<1>3. 0 \in Idx /\ EmptyTable \in [Idx -> Entry] /\ \A i \in Idx : EmptyTable[i] = Absent
  BY <1>2 DEF Idx, EmptyTable
<1>4. /\ \A r \in Roots, i \in Idx : mem[r][i] = IF i \in {IdentityIndex, MirrorIndex}
                                                 THEN To(BootPdp) ELSE Absent
      /\ \A i \in Idx : mem[BootPdp][i] = IF i = 0 THEN To(BootPd) ELSE Absent
      /\ \A i \in Idx : mem[BootPd][i] = IF i = 0 THEN [p |-> TRUE, big |-> TRUE, addr |-> BootBig]
                                         ELSE Absent
  BY <1>1, <1>3 DEF EmptyTable
<1>5. Typed(mem, pool, data, kind)
  <2>1. \A f \in Frames : mem[f] \in [Idx -> Entry]
    BY <1>1, <1>2, <1>3 DEF Entry
  <2>2. mem \in [Frames -> [Idx -> Entry]]
    BY <1>1, <2>1
  <2>3. kind \in [Frames -> Kinds]
    BY DEF Kinds
  <2> QED
    BY <2>2, <2>3 DEF Typed, Init
<1>6. Labels(pool, data, kind)
  BY DEF Labels, Init
<1>7. \A f \in Frames : kind[f] \in Upper => f \in Roots \/ f = BootPdp \/ f = BootPd
  BY DEF Upper
<1>8. /\ \A r \in Roots : kind[r] = "root"
      /\ kind[BootPdp] = "pdp" /\ kind[BootPd] = "pd" /\ kind[BootBig] = "pt"
  OBVIOUS
<1>9. \A f \in Frames, i \in Idx : kind[f] \in Upper /\ mem[f][i].p =>
        \/ f \in Roots /\ i \in {IdentityIndex, MirrorIndex} /\ mem[f][i] = To(BootPdp)
        \/ f = BootPdp /\ i = 0 /\ mem[f][i] = To(BootPd)
        \/ f = BootPd /\ i = 0 /\ mem[f][i].addr = BootBig
  BY <1>4, <1>7 DEF Absent
<1>10. Links(mem, kind)
  <2> SUFFICES ASSUME NEW f \in Frames, NEW i \in Idx, mem[f][i].p
               PROVE  /\ kind[f] \in Upper => kind[mem[f][i].addr] = Under(kind[f])
                      /\ kind[f] \in Upper /\ mem[f][i].big => f = BootPd
                      /\ kind[f] = "pt" /\ f # BootBig => kind[mem[f][i].addr] = "data"
    BY DEF Links
  <2>1. kind[f] = "pt" => f = BootBig
    OBVIOUS
  <2>2. CASE kind[f] \in Upper
    BY <1>8, <1>9, <2>2 DEF Upper, Under, To
  <2> QED
    BY <2>1, <2>2 DEF Upper
<1>12. OneParent(mem, kind)
  <2> HIDE DEF kind
  <2> QED
    BY <1>8, <1>9 DEF OneParent, To
<1>11. BootStays(mem, kind)
  BY <1>3, <1>4, <1>8 DEF BootStays, Idx
<1> QED
  BY <1>5, <1>6, <1>10, <1>11, <1>12 DEF Shape, IInv, Init, Stale

-----------------------------------------------------------------------------
(* The walk of a page below a root, level by level.                        *)
T3(m, r, u) == m[r][u[1]].addr
T2(m, r, u) == m[T3(m, r, u)][u[2]].addr
T1(m, r, u) == m[T2(m, r, u)][u[3]].addr
Leaf(m, r, u) == m[T1(m, r, u)][u[4]]
Has3(m, r, u) == m[r][u[1]].p
Has2(m, r, u) == Has3(m, r, u) /\ m[T3(m, r, u)][u[2]].p
Has1(m, r, u) == Has2(m, r, u) /\ m[T2(m, r, u)][u[3]].p

(* The tables on a walk have the kinds of their levels.                    *)
LEMMA WalkTyped ==
    ASSUME NEW m, NEW pl, NEW d, NEW kind, Shape(m, pl, d, kind),
           NEW r \in Roots, NEW u \in Quads
    PROVE  /\ r \in Frames /\ kind[r] = "root"
           /\ u[1] \in Idx /\ u[2] \in Idx /\ u[3] \in Idx /\ u[4] \in Idx
           /\ T3(m, r, u) \in Frames /\ T2(m, r, u) \in Frames /\ T1(m, r, u) \in Frames
           /\ Leaf(m, r, u) \in Entry
           /\ Has3(m, r, u) => kind[T3(m, r, u)] = "pdp"
           /\ Has2(m, r, u) => kind[T2(m, r, u)] = "pd"
           /\ Has1(m, r, u) => kind[T1(m, r, u)] = "pt"
<1>1. /\ m \in [Frames -> [Idx -> Entry]]
      /\ r \in Frames /\ kind[r] = "root"
  BY TablesAssumption DEF Shape, Typed, Labels
<1>2. u[1] \in Idx /\ u[2] \in Idx /\ u[3] \in Idx /\ u[4] \in Idx
  BY DEF Quads
<1>3. \A f \in Frames, i \in Idx : m[f][i] \in Entry /\ m[f][i].addr \in Frames
  BY <1>1 DEF Entry
<1>4. T3(m, r, u) \in Frames
  BY <1>1, <1>2, <1>3 DEF T3
<1>5. T2(m, r, u) \in Frames
  BY <1>4, <1>2, <1>3 DEF T2
<1>6. T1(m, r, u) \in Frames /\ Leaf(m, r, u) \in Entry
  BY <1>5, <1>2, <1>3 DEF T1, Leaf
<1>7. \A f \in Frames, i \in Idx : m[f][i].p /\ kind[f] \in Upper
                                    => kind[m[f][i].addr] = Under(kind[f])
  BY DEF Shape, Links
<1>8. Has3(m, r, u) => kind[T3(m, r, u)] = "pdp"
  BY <1>1, <1>2, <1>7 DEF Has3, T3, Upper, Under
<1>9. Has2(m, r, u) => kind[T2(m, r, u)] = "pd"
  BY <1>8, <1>4, <1>2, <1>7 DEF Has2, T2, Upper, Under
<1>10. Has1(m, r, u) => kind[T1(m, r, u)] = "pt"
  BY <1>9, <1>5, <1>2, <1>7 DEF Has1, T1, Upper, Under
<1> QED
  BY <1>1, <1>2, <1>4, <1>5, <1>6, <1>8, <1>9, <1>10

(* A walk of a page of the kernel meets another one only if they took the  *)
(* same path so far.                                                       *)
LEMMA OnePath ==
    ASSUME NEW m, NEW pl, NEW d, NEW kind, Shape(m, pl, d, kind),
           NEW r \in Roots, NEW s \in Roots, NEW u \in Quads, NEW v \in Quads, Kernel(u)
    PROVE  /\ Has3(m, r, u) /\ Has3(m, s, v) /\ T3(m, r, u) = T3(m, s, v)
                 => r = s /\ u[1] = v[1]
           /\ Has2(m, r, u) /\ Has2(m, s, v) /\ T2(m, r, u) = T2(m, s, v)
                 => r = s /\ u[1] = v[1] /\ u[2] = v[2]
           /\ Has1(m, r, u) /\ Has1(m, s, v) /\ T1(m, r, u) = T1(m, s, v)
                 => r = s /\ u[1] = v[1] /\ u[2] = v[2] /\ u[3] = v[3]
<1> USE WalkTyped
<1>1. ASSUME Has3(m, r, u), Has3(m, s, v), T3(m, r, u) = T3(m, s, v)
      PROVE  r = s /\ u[1] = v[1]
  BY <1>1 DEF Shape, OneParent, Has3, T3, Upper, Kernel
<1>2. ASSUME Has2(m, r, u), Has2(m, s, v), T2(m, r, u) = T2(m, s, v)
      PROVE  T3(m, r, u) = T3(m, s, v) /\ u[2] = v[2]
  BY <1>2 DEF Shape, OneParent, Has2, T2, Upper
<1>3. ASSUME Has1(m, r, u), Has1(m, s, v), T1(m, r, u) = T1(m, s, v)
      PROVE  T2(m, r, u) = T2(m, s, v) /\ u[3] = v[3]
  BY <1>3 DEF Shape, OneParent, Has1, T1, Upper, Has2
<1> QED
  BY <1>1, <1>2, <1>3 DEF Has1, Has2

(* It never comes to the firmware's tables, so every entry of it is one    *)
(* that page_map made.                                                     *)
LEMMA OffBoot ==
    ASSUME NEW m, NEW pl, NEW d, NEW kind, Shape(m, pl, d, kind),
           NEW r \in Roots, NEW u \in Quads, Kernel(u)
    PROVE  /\ Has2(m, r, u) => T2(m, r, u) # BootPd
           /\ Has1(m, r, u) => T1(m, r, u) # BootBig /\ ~m[T2(m, r, u)][u[3]].big
           /\ Has1(m, r, u) /\ Leaf(m, r, u).p => kind[Leaf(m, r, u).addr] = "data"
<1> DEFINE b == <<IdentityIndex, 0, 0, 0>>
<1>1. b \in Quads /\ r \in Roots /\ b[1] = IdentityIndex /\ b[2] = 0 /\ b[3] = 0
  BY TablesAssumption DEF Quads, Idx
<1>2. Has1(m, r, b) /\ T3(m, r, b) = BootPdp /\ T2(m, r, b) = BootPd /\ T1(m, r, b) = BootBig
  <2>1. m[r][b[1]] = To(BootPdp) /\ m[BootPdp][b[2]] = To(BootPd)
        /\ m[BootPd][b[3]].p /\ m[BootPd][b[3]].addr = BootBig
    BY <1>1 DEF Shape, BootStays
  <2> HIDE DEF b
  <2> QED
    BY <2>1 DEF Has1, Has2, Has3, T3, T2, T1, To
<1>3. u[1] # b[1]
  BY <1>1 DEF Kernel
<1>4. Has2(m, r, u) => T2(m, r, u) # BootPd
  BY <1>1, <1>2, <1>3, OnePath DEF Has1
<1>5. Has1(m, r, u) => T1(m, r, u) # BootBig
  BY <1>1, <1>2, <1>3, OnePath
<1>6. Has1(m, r, u) => ~m[T2(m, r, u)][u[3]].big
  BY <1>4, WalkTyped DEF Shape, Links, Has1, Upper
<1>7. Has1(m, r, u) /\ Leaf(m, r, u).p => kind[Leaf(m, r, u).addr] = "data"
  BY <1>5, WalkTyped DEF Shape, Links, Leaf
<1> QED
  BY <1>4, <1>5, <1>6, <1>7

(* The translation of a page of the kernel.                                *)
LEMMA Translated ==
    ASSUME NEW m, NEW pl, NEW d, NEW kind, Shape(m, pl, d, kind),
           NEW r \in Roots, NEW u \in Quads, Kernel(u)
    PROVE  /\ Translate(m, r, u) = IF Has1(m, r, u) /\ Leaf(m, r, u).p
                                   THEN Leaf(m, r, u).addr ELSE NoFrame
           /\ Translate(m, r, u) # NoFrame <=> Has1(m, r, u) /\ Leaf(m, r, u).p
           /\ Translate(m, r, u) # NoFrame => Translate(m, r, u) \in d
<1>1. Translate(m, r, u) = IF Has1(m, r, u) /\ Leaf(m, r, u).p
                           THEN Leaf(m, r, u).addr ELSE NoFrame
  BY OffBoot DEF Translate, Has1, Has2, Has3, T3, T2, T1, Leaf
<1>2. Leaf(m, r, u).addr \in Frames /\ NoFrame \notin Frames
  BY WalkTyped, FramesAssumption DEF Entry
<1>3. Has1(m, r, u) /\ Leaf(m, r, u).p => Leaf(m, r, u).addr \in d
  BY <1>2, OffBoot DEF Shape, Labels
<1> QED
  BY <1>1, <1>2, <1>3

-----------------------------------------------------------------------------
(* What the descents of page_map do to memory: tables stay what they were, *)
(* present entries of theirs stay, all else that is no frame of the pool   *)
(* is left alone, and new tables lead to new ones or are empty.            *)
Grows(m, kind, m2, kind2) ==
    /\ \A g \in Frames : kind[g] # "free" => kind2[g] = kind[g]
    /\ \A g \in Frames, j \in Idx : kind[g] # "free" /\ m[g][j].p => m2[g][j] = m[g][j]
    /\ \A g \in Frames : kind[g] \notin Upper \cup {"free"} => m2[g] = m[g]
    /\ \A g \in Frames, j \in Idx :
          (kind2[g] \in Upper /\ m2[g][j].p /\ (kind[g] = "free" \/ ~m[g][j].p))
             => kind[m2[g][j].addr] = "free"
    /\ \A g \in Frames, j \in Idx : kind[g] = "free" /\ kind2[g] = "pt" => ~m2[g][j].p

LEMMA GrowsNot == ASSUME NEW m, NEW kind PROVE Grows(m, kind, m, kind)
BY DEF Grows, Upper

LEMMA GrowsOn ==
    ASSUME NEW m1, NEW k1, NEW m2, NEW k2, NEW m3, NEW k3,
           m2 \in [Frames -> [Idx -> Entry]], m3 \in [Frames -> [Idx -> Entry]],
           Grows(m1, k1, m2, k2), Grows(m2, k2, m3, k3)
    PROVE  Grows(m1, k1, m3, k3)
<1>1. \A g \in Frames, j \in Idx : m3[g][j].addr \in Frames
  BY DEF Entry
<1>2. /\ \A g \in Frames : k1[g] # "free" => k3[g] = k1[g]
      /\ \A g \in Frames, j \in Idx : k1[g] # "free" /\ m1[g][j].p => m3[g][j] = m1[g][j]
      /\ \A g \in Frames : k1[g] \notin Upper \cup {"free"} => m3[g] = m1[g]
  <2>1. \A g \in Frames : k1[g] # "free" => k2[g] = k1[g] /\ k3[g] = k1[g]
    BY DEF Grows
  <2>2. \A g \in Frames, j \in Idx : k1[g] # "free" /\ m1[g][j].p => m3[g][j] = m1[g][j]
    <3>1. ASSUME NEW g \in Frames, NEW j \in Idx, k1[g] # "free", m1[g][j].p
          PROVE  m3[g][j] = m1[g][j]
      <4>1. m2[g][j] = m1[g][j] /\ k2[g] # "free"
        BY <3>1, <2>1 DEF Grows
      <4>2. m2[g][j].p
        BY <3>1, <4>1
      <4> QED
        BY <4>1, <4>2 DEF Grows
    <3> QED
      BY <3>1
  <2>3. \A g \in Frames : k1[g] \notin Upper \cup {"free"} => m3[g] = m1[g]
    BY <2>1 DEF Grows
  <2> QED
    BY <2>1, <2>2, <2>3
<1>3. ASSUME NEW g \in Frames, NEW j \in Idx, k3[g] \in Upper, m3[g][j].p,
             k1[g] = "free" \/ ~m1[g][j].p
      PROVE  k1[m3[g][j].addr] = "free"
  <2>1. CASE k2[g] # "free" /\ m2[g][j].p
    <3>1. m3[g][j] = m2[g][j] /\ k2[g] = k3[g]
      BY <2>1 DEF Grows
    <3> QED
      BY <1>3, <2>1, <3>1 DEF Grows, Upper
  <2>2. CASE k2[g] = "free" \/ ~m2[g][j].p
    <3>1. k2[m3[g][j].addr] = "free"
      BY <1>3, <2>2 DEF Grows
    <3> QED
      BY <1>1, <3>1 DEF Grows
  <2> QED
    BY <2>1, <2>2
<1>4. ASSUME NEW g \in Frames, NEW j \in Idx, k1[g] = "free", k3[g] = "pt"
      PROVE  ~m3[g][j].p
  <2>1. CASE k2[g] = "free"
    BY <1>4, <2>1 DEF Grows
  <2>2. CASE k2[g] # "free"
    BY <1>4, <2>2 DEF Grows, Upper
  <2> QED
    BY <2>1, <2>2
<1> QED
  BY <1>2, <1>3, <1>4, Zenon DEF Grows

(* They change no translation of a page of the kernel.                     *)
LEMMA GrowsUnseen ==
    ASSUME NEW m, NEW pl, NEW d, NEW kind, Shape(m, pl, d, kind),
           NEW m2, NEW pl2, NEW kind2, Shape(m2, pl2, d, kind2),
           Grows(m, kind, m2, kind2),
           NEW r \in Roots, NEW u \in Quads, Kernel(u)
    PROVE  Translate(m2, r, u) = Translate(m, r, u)
<1>1. /\ r \in Frames /\ kind[r] = "root"
      /\ u[1] \in Idx /\ u[2] \in Idx /\ u[3] \in Idx /\ u[4] \in Idx
      /\ T3(m, r, u) \in Frames /\ T2(m, r, u) \in Frames /\ T1(m, r, u) \in Frames
      /\ Leaf(m, r, u) \in Entry
      /\ Has3(m, r, u) => kind[T3(m, r, u)] = "pdp"
      /\ Has2(m, r, u) => kind[T2(m, r, u)] = "pd"
      /\ Has1(m, r, u) => kind[T1(m, r, u)] = "pt"
  BY WalkTyped
<1>2. /\ kind2[r] = "root"
      /\ T3(m2, r, u) \in Frames /\ T2(m2, r, u) \in Frames /\ T1(m2, r, u) \in Frames
      /\ Leaf(m2, r, u) \in Entry
      /\ Has3(m2, r, u) => kind2[T3(m2, r, u)] = "pdp"
      /\ Has2(m2, r, u) => kind2[T2(m2, r, u)] = "pd"
      /\ Has1(m2, r, u) => kind2[T1(m2, r, u)] = "pt"
  BY WalkTyped
<1>3. Has3(m, r, u) => Has3(m2, r, u) /\ T3(m2, r, u) = T3(m, r, u)
  BY <1>1 DEF Grows, Has3, T3
<1>4. Has2(m, r, u) => Has2(m2, r, u) /\ T2(m2, r, u) = T2(m, r, u)
  BY <1>1, <1>3 DEF Grows, Has2, T2
<1>5. Has1(m, r, u) => Has1(m2, r, u) /\ T1(m2, r, u) = T1(m, r, u) /\ Leaf(m2, r, u) = Leaf(m, r, u)
  BY <1>1, <1>4 DEF Grows, Has1, T1, Leaf, Upper
<1>6. Has3(m2, r, u) /\ ~Has3(m, r, u) => kind[T3(m2, r, u)] = "free"
  BY <1>1, <1>2 DEF Grows, Has3, T3, Upper
<1>7. Has2(m2, r, u) /\ ~Has2(m, r, u) => kind[T2(m2, r, u)] = "free"
  BY <1>1, <1>2, <1>3, <1>6 DEF Grows, Has2, T2, Upper
<1>8. Has1(m2, r, u) /\ ~Has1(m, r, u) => kind[T1(m2, r, u)] = "free"
  BY <1>1, <1>2, <1>4, <1>7 DEF Grows, Has1, T1, Upper
<1>9. Has1(m2, r, u) /\ ~Has1(m, r, u) => ~Leaf(m2, r, u).p
  BY <1>1, <1>2, <1>8 DEF Grows, Leaf
<1> QED
  BY <1>5, <1>9, Translated

-----------------------------------------------------------------------------
(* The memory m2 after frame f was cleared and entry i of table at leads to *)
(* it, and the kinds of the frames then (paging.c:26-66).                   *)
NewTable(m, kind, at, i, f, m2, k2) ==
    /\ m2 \in [Frames -> [Idx -> Entry]] /\ k2 \in [Frames -> Kinds]
    /\ \A g \in Frames, j \in Idx :
          m2[g][j] = IF g = at /\ j = i THEN To(f) ELSE IF g = f THEN Absent ELSE m[g][j]
    /\ \A g \in Frames : g # at /\ g # f => m2[g] = m[g]
    /\ k2[f] = Under(kind[at])
    /\ \A g \in Frames : g # f => k2[g] = kind[g]

LEMMA NewTableMade ==
    ASSUME NEW m \in [Frames -> [Idx -> Entry]], NEW kind \in [Frames -> Kinds],
           NEW at \in Frames, kind[at] \in Upper, NEW i \in Idx, NEW f \in Frames, f # at
    PROVE  NewTable(m, kind, at, i, f, [[m EXCEPT ![f] = EmptyTable] EXCEPT ![at][i] = To(f)],
                    [kind EXCEPT ![f] = Under(kind[at])])
<1>1. Absent \in Entry /\ To(f) \in Entry /\ EmptyTable \in [Idx -> Entry]
  BY TablesAssumption DEF Absent, To, Entry, EmptyTable
<1>2. Under(kind[at]) \in Kinds
  BY DEF Upper, Under, Kinds
<1> QED
  BY <1>1, <1>2 DEF NewTable, EmptyTable

(* What the pool gives is a frame of no table, and not in the rest of it.  *)
LEMMA Taken ==
    ASSUME NEW m, NEW pl, NEW d, NEW kind, Shape(m, pl, d, kind), pl # <<>>
    PROVE  /\ Head(pl) \in Frames /\ kind[Head(pl)] = "free"
           /\ Tail(pl) \in Seq(Frames)
           /\ \A k \in 1 .. Len(Tail(pl)) : /\ Tail(pl)[k] \in Frames /\ Tail(pl)[k] # Head(pl)
                                            /\ kind[Tail(pl)[k]] = "free"
           /\ \A j, k \in 1 .. Len(Tail(pl)) : Tail(pl)[j] = Tail(pl)[k] => j = k
<1>1. pl \in Seq(Frames) /\ Labels(pl, d, kind)
  BY DEF Shape, Typed
<1>2. /\ Head(pl) \in Frames /\ Head(pl) = pl[1] /\ Len(pl) \in Nat /\ Len(pl) >= 1
      /\ Tail(pl) \in Seq(Frames) /\ Len(Tail(pl)) = Len(pl) - 1
      /\ \A k \in 1 .. Len(Tail(pl)) : Tail(pl)[k] = pl[k + 1]
  BY <1>1
<1>3. \A k \in 1 .. Len(Tail(pl)) : k + 1 \in 1 .. Len(pl) /\ 1 \in 1 .. Len(pl) /\ k + 1 # 1
  BY <1>2
<1>4. \A k \in 1 .. Len(Tail(pl)) : Tail(pl)[k] \in Frames
  BY <1>2
<1> QED
  BY <1>1, <1>2, <1>3, <1>4 DEF Labels

(* No entry of a table leads to a frame of the pool.                       *)
LEMMA NotYet ==
    ASSUME NEW m, NEW pl, NEW d, NEW kind, Shape(m, pl, d, kind),
           NEW g \in Frames, NEW j \in Idx, m[g][j].p, kind[g] \in Upper \cup {"pt"}, g # BootBig
    PROVE  m[g][j].addr \in Frames /\ kind[m[g][j].addr] # "free"
BY DEF Shape, Typed, Entry, Links, Upper, Under

LEMMA Installed ==
    ASSUME NEW m, NEW pl, NEW d, NEW kind, Shape(m, pl, d, kind), pl # <<>>,
           NEW at \in Frames, kind[at] \in Upper, NEW i \in Idx, ~m[at][i].p,
           NEW m2, NEW k2, NewTable(m, kind, at, i, Head(pl), m2, k2)
    PROVE  Shape(m2, Tail(pl), d, k2) /\ Grows(m, kind, m2, k2)
<1> DEFINE f == Head(pl)
<1>1. /\ Typed(m, pl, d, kind) /\ Labels(pl, d, kind) /\ Links(m, kind)
      /\ OneParent(m, kind) /\ BootStays(m, kind)
  BY DEF Shape
<1>3. kind[f] = "free" /\ f # at /\ f \in Frames
  BY Taken DEF Upper
<1>6. /\ \A g \in Frames, j \in Idx :
            m2[g][j] = IF g = at /\ j = i THEN To(f) ELSE IF g = f THEN Absent ELSE m[g][j]
      /\ \A g \in Frames : g # at /\ g # f => m2[g] = m[g]
  BY DEF NewTable
<1>8. Under(kind[at]) \in {"pdp", "pd", "pt"}
  BY DEF Upper, Under
<1>9. /\ k2 \in [Frames -> Kinds] /\ k2[f] = Under(kind[at])
      /\ \A g \in Frames : g # f => k2[g] = kind[g]
  BY DEF NewTable
<1>10. \A g \in Frames, j \in Idx : m[g][j].p /\ kind[g] \in Upper => m[g][j].addr # f
  BY <1>1, <1>3, NotYet DEF BootStays, Upper
<1>11. \A g \in Frames, j \in Idx :
         m[g][j].p /\ kind[g] = "pt" /\ g # BootBig => m[g][j].addr # f
  BY <1>3, NotYet
<1>a. \A g \in Frames, j \in Idx : m2[g][j].p =>
         \/ g = at /\ j = i /\ m2[g][j] = To(f)
         \/ ~(g = at /\ j = i) /\ g # f /\ m2[g][j] = m[g][j]
  BY <1>6 DEF Absent
<1>b. \A g \in Frames, j \in Idx : m[g][j].addr \in Frames
  BY <1>1 DEF Typed, Entry
<1> HIDE DEF f
<1>12. Labels(Tail(pl), d, k2)
  <2>1. \A g \in Frames : (g \in Roots <=> k2[g] = "root") /\ (g \in d <=> k2[g] = "data")
    BY <1>1, <1>3, <1>8, <1>9 DEF Labels
  <2>2. \A k \in 1 .. Len(Tail(pl)) : k2[Tail(pl)[k]] = "free"
    BY <1>9, Taken DEF f
  <2> QED
    BY <2>1, <2>2, Taken DEF Labels
<1>13. Links(m2, k2)
  <2> SUFFICES ASSUME NEW g \in Frames, NEW j \in Idx, m2[g][j].p
               PROVE  /\ k2[g] \in Upper => k2[m2[g][j].addr] = Under(k2[g])
                      /\ k2[g] \in Upper /\ m2[g][j].big => g = BootPd
                      /\ k2[g] = "pt" /\ g # BootBig => k2[m2[g][j].addr] = "data"
    BY DEF Links
  <2>1. CASE g = at /\ j = i /\ m2[g][j] = To(f)
    BY <1>3, <1>9, <2>1 DEF To, Upper
  <2>2. CASE g # f /\ m2[g][j] = m[g][j]
    <3>1. k2[g] = kind[g] /\ m[g][j].p
      BY <1>9, <2>2
    <3>2. k2[g] \in Upper \/ (k2[g] = "pt" /\ g # BootBig)
             => k2[m[g][j].addr] = kind[m[g][j].addr]
      BY <1>9, <1>10, <1>11, <1>b, <3>1
    <3> QED
      BY <1>1, <2>2, <3>1, <3>2 DEF Links
  <2> QED
    BY <1>a, <2>1, <2>2
<1>14. OneParent(m2, k2)
  <2> SUFFICES ASSUME NEW g \in Frames, NEW h \in Frames, NEW j \in Idx, NEW k \in Idx,
                      k2[g] \in Upper, k2[h] \in Upper, m2[g][j].p, m2[h][k].p,
                      m2[g][j].addr = m2[h][k].addr
               PROVE  \/ g = h /\ j = k
                      \/ {j, k} \subseteq {IdentityIndex, MirrorIndex} /\ k2[g] = "root"
    BY DEF OneParent
  <2>1. ASSUME NEW x \in Frames, NEW y \in Idx, k2[x] \in Upper, m2[x][y].p, ~(x = at /\ y = i)
        PROVE  m2[x][y] = m[x][y] /\ k2[x] = kind[x] /\ m[x][y].addr # f
    BY <1>9, <1>10, <1>a, <2>1
  <2>2. m2[at][i].addr = f
    BY <1>6 DEF To
  <2>3. CASE g = at /\ j = i
    BY <2>1, <2>2, <2>3
  <2>4. CASE h = at /\ k = i
    BY <2>1, <2>2, <2>4
  <2>5. CASE ~(g = at /\ j = i) /\ ~(h = at /\ k = i)
    BY <1>1, <2>1, <2>5 DEF OneParent
  <2> QED
    BY <2>3, <2>4, <2>5
<1>15. BootStays(m2, k2)
  <2>1. /\ \A r \in Roots : r \in Frames /\ r # f
        /\ BootPdp # f /\ BootPd # f /\ BootBig # f
        /\ {BootPdp, BootPd, BootBig} \subseteq Frames
        /\ IdentityIndex \in Idx /\ MirrorIndex \in Idx /\ 0 \in Idx
    BY <1>1, <1>3, TablesAssumption DEF BootStays, Labels, Idx
  <2>2. /\ \A r \in Roots : m[r][IdentityIndex].p /\ m[r][MirrorIndex].p
        /\ m[BootPdp][0].p /\ m[BootPd][0].p
    BY <1>1 DEF BootStays, To
  <2>3. \A g \in Frames, j \in Idx : g # f /\ m[g][j].p => m2[g][j] = m[g][j]
    BY <1>6
  <2> QED
    BY <1>1, <1>9, <2>1, <2>2, <2>3 DEF BootStays
<1>16. Grows(m, kind, m2, k2)
  <2>1. \A g \in Frames : kind[g] # "free" => k2[g] = kind[g]
    BY <1>3, <1>9
  <2>2. \A g \in Frames, j \in Idx : kind[g] # "free" /\ m[g][j].p => m2[g][j] = m[g][j]
    BY <1>3, <1>6
  <2>3. \A g \in Frames : kind[g] \notin Upper \cup {"free"} => m2[g] = m[g]
    BY <1>3, <1>6
  <2>4. \A g \in Frames, j \in Idx :
          (k2[g] \in Upper /\ m2[g][j].p /\ (kind[g] = "free" \/ ~m[g][j].p))
             => kind[m2[g][j].addr] = "free"
    <3>1. ASSUME NEW g \in Frames, NEW j \in Idx, k2[g] \in Upper, m2[g][j].p,
                 kind[g] = "free" \/ ~m[g][j].p
          PROVE  kind[m2[g][j].addr] = "free"
      <4>1. g # f => kind[g] # "free"
        BY <1>9, <3>1 DEF Upper
      <4>2. m2[g][j] = To(f)
        BY <1>a, <3>1, <4>1
      <4> QED
        BY <1>3, <4>2 DEF To
    <3> QED
      BY <3>1
  <2>5. \A g \in Frames, j \in Idx : kind[g] = "free" /\ k2[g] = "pt" => ~m2[g][j].p
    BY <1>3, <1>9, <1>a
  <2> QED
    BY <2>1, <2>2, <2>3, <2>4, <2>5, Zenon DEF Grows
<1>17. Typed(m2, Tail(pl), d, k2)
  BY <1>1, Taken DEF Typed, NewTable
<1> QED
  BY <1>12, <1>13, <1>14, <1>15, <1>16, <1>17, Zenon DEF Shape

-----------------------------------------------------------------------------
(* One level of page_map's walk: it comes to a table of the next level, or *)
(* the frames have run out.                                                *)
State(m, pl, at) == [m |-> m, pool |-> pl, at |-> at, ok |-> TRUE]

LEMMA Descended ==
    ASSUME NEW m, NEW pl, NEW d, NEW kind, Shape(m, pl, d, kind),
           NEW at \in Frames, kind[at] \in Upper, NEW i \in Idx,
           NEW st, st = Descend(State(m, pl, at), i)
    PROVE  \E k2 :
             /\ Shape(st.m, st.pool, d, k2) /\ Grows(m, kind, st.m, k2)
             /\ st.at \in Frames /\ st.ok \in BOOLEAN
             /\ st.ok => /\ st.m[at][i].p /\ st.m[at][i].addr = st.at
                         /\ k2[st.at] = Under(kind[at]) /\ k2[at] = kind[at]
                         /\ st = State(st.m, st.pool, st.at)
             /\ ~st.ok => /\ st.m = m /\ st.pool = <<>> /\ pl = <<>> /\ ~m[at][i].p
<1>1. CASE m[at][i].p
  <2>1. st = State(m, pl, m[at][i].addr)
    BY <1>1 DEF Descend, State
  <2>2. m[at][i].addr \in Frames /\ kind[m[at][i].addr] = Under(kind[at])
    BY <1>1 DEF Shape, Typed, Entry, Links
  <2>3. st.m = m /\ st.pool = pl /\ st.at = m[at][i].addr /\ st.ok
    BY <2>1 DEF State
  <2>4. Grows(m, kind, st.m, kind)
    BY <2>3, GrowsNot
  <2> WITNESS kind
  <2> QED
    BY <1>1, <2>1, <2>2, <2>3, <2>4
<1>2. CASE ~m[at][i].p /\ pl = <<>>
  <2>1. st = [State(m, pl, at) EXCEPT !.ok = FALSE]
    BY <1>2 DEF Descend, State
  <2>2. st.m = m /\ st.pool = pl /\ st.at = at /\ st.ok = FALSE
    BY <2>1 DEF State
  <2>3. Grows(m, kind, st.m, kind)
    BY <2>2, GrowsNot
  <2> WITNESS kind
  <2> QED
    BY <1>2, <2>2, <2>3
<1>3. CASE ~m[at][i].p /\ pl # <<>>
  <2>2. Head(pl) \in Frames /\ kind[Head(pl)] = "free" /\ Head(pl) # at
    BY <1>3, Taken DEF Upper
  <2>3. m \in [Frames -> [Idx -> Entry]] /\ kind \in [Frames -> Kinds]
    BY DEF Shape, Typed
  <2>1. \E m2, k2 : /\ st = State(m2, Tail(pl), Head(pl))
                    /\ NewTable(m, kind, at, i, Head(pl), m2, k2)
    <3> DEFINE m2 == [[m EXCEPT ![Head(pl)] = EmptyTable] EXCEPT ![at][i] = To(Head(pl))]
    <3>1. st = State(m2, Tail(pl), Head(pl))
      BY <1>3 DEF Descend, State
    <3>2. NewTable(m, kind, at, i, Head(pl), m2, [kind EXCEPT ![Head(pl)] = Under(kind[at])])
      BY <2>2, <2>3, NewTableMade
    <3> QED
      BY <3>1, <3>2
  <2>4. PICK m2, k2 : /\ st = State(m2, Tail(pl), Head(pl))
                      /\ NewTable(m, kind, at, i, Head(pl), m2, k2)
    BY <2>1
  <2>5. Shape(m2, Tail(pl), d, k2) /\ Grows(m, kind, m2, k2)
    BY <1>3, <2>4, Installed
  <2>6. m2[at][i] = To(Head(pl)) /\ k2[Head(pl)] = Under(kind[at]) /\ k2[at] = kind[at]
    BY <2>2, <2>4 DEF NewTable
  <2>7. m2[at][i].p /\ m2[at][i].addr = Head(pl)
    BY <2>6 DEF To
  <2>8. st.m = m2 /\ st.pool = Tail(pl) /\ st.at = Head(pl) /\ st.ok
    <3> DEFINE h == Head(pl)
               t == Tail(pl)
    <3>1. st = State(m2, t, h)
      BY <2>4
    <3> HIDE DEF h, t
    <3>2. st.m = m2 /\ st.pool = t /\ st.at = h /\ st.ok
      BY <3>1 DEF State
    <3> QED
      BY <3>2 DEF h, t
  <2>9. st = State(st.m, st.pool, st.at)
    BY <2>4, <2>8
  <2> QED
    BY <2>2, <2>5, <2>6, <2>7, <2>8, <2>9
<1> QED
  BY <1>1, <1>2, <1>3

LEMMA Stopped == ASSUME NEW st, ~st.ok, NEW i PROVE Descend(st, i) = st
BY DEF Descend

(* page_map's three descents come to the page's last table, or stop short  *)
(* of it without frames.                                                   *)
Descents(m, pl, r, v) ==
    Descend(Descend(Descend(State(m, pl, r), v[1]), v[2]), v[3])

LEMMA Walked ==
    ASSUME NEW m, NEW pl, NEW d, NEW kind, Shape(m, pl, d, kind),
           NEW r \in Roots, NEW v \in Quads, NEW st, st = Descents(m, pl, r, v)
    PROVE  \E k2 :
             /\ Shape(st.m, st.pool, d, k2) /\ Grows(m, kind, st.m, k2)
             /\ st.ok \in BOOLEAN
             /\ st.ok => Has1(st.m, r, v) /\ T1(st.m, r, v) = st.at
             /\ ~st.ok => ~Has1(st.m, r, v) /\ st.pool = <<>>
<1> DEFINE s1 == Descend(State(m, pl, r), v[1])
           s2 == Descend(s1, v[2])
<1>1. st = Descend(s2, v[3])
  BY DEF Descents
<1>2. r \in Frames /\ kind[r] = "root" /\ v[1] \in Idx /\ v[2] \in Idx /\ v[3] \in Idx
  BY WalkTyped
<1>3. PICK k1 :
         /\ Shape(s1.m, s1.pool, d, k1) /\ Grows(m, kind, s1.m, k1)
         /\ s1.at \in Frames /\ s1.ok \in BOOLEAN
         /\ s1.ok => /\ s1.m[r][v[1]].p /\ s1.m[r][v[1]].addr = s1.at
                     /\ k1[s1.at] = "pdp" /\ k1[r] = "root"
                     /\ s1 = State(s1.m, s1.pool, s1.at)
         /\ ~s1.ok => s1.m = m /\ s1.pool = <<>> /\ ~m[r][v[1]].p
  BY <1>2, Descended DEF Upper, Under
<1> HIDE DEF s1
<1>4. CASE ~s1.ok
  <2>1. st = s1
    BY <1>1, <1>4, Stopped
  <2>2. ~Has1(st.m, r, v)
    BY <1>3, <1>4, <2>1 DEF Has1, Has2, Has3
  <2> QED
    BY <1>3, <1>4, <2>1, <2>2
<1>5. CASE s1.ok
  <2>0. s2 = Descend(State(s1.m, s1.pool, s1.at), v[2])
    BY <1>3, <1>5
  <2> HIDE DEF s2
  <2>1. PICK k2 :
         /\ Shape(s2.m, s2.pool, d, k2) /\ Grows(s1.m, k1, s2.m, k2)
         /\ s2.at \in Frames /\ s2.ok \in BOOLEAN
         /\ s2.ok => /\ s2.m[s1.at][v[2]].p /\ s2.m[s1.at][v[2]].addr = s2.at
                     /\ k2[s2.at] = "pd" /\ k2[s1.at] = "pdp"
                     /\ s2 = State(s2.m, s2.pool, s2.at)
         /\ ~s2.ok => s2.m = s1.m /\ s2.pool = <<>> /\ ~s1.m[s1.at][v[2]].p
    BY <1>2, <1>3, <1>5, <2>0, Descended DEF Upper, Under
  <2>2. Grows(m, kind, s2.m, k2)
    BY <1>3, <2>1, GrowsOn DEF Shape, Typed
  <2>3. s2.m[r][v[1]] = s1.m[r][v[1]]
    BY <1>2, <1>3, <1>5, <2>1 DEF Grows
  <2>4. Has3(s2.m, r, v) /\ T3(s2.m, r, v) = s1.at
    BY <1>3, <1>5, <2>3 DEF Has3, T3
  <2>5. CASE ~s2.ok
    <3>1. st = s2
      BY <1>1, <2>5, Stopped
    <3>2. ~Has1(st.m, r, v)
      BY <2>1, <2>4, <2>5, <3>1 DEF Has1, Has2
    <3> QED
      BY <2>1, <2>2, <2>5, <3>1, <3>2
  <2>6. CASE s2.ok
    <3>1. PICK k3 :
         /\ Shape(st.m, st.pool, d, k3) /\ Grows(s2.m, k2, st.m, k3)
         /\ st.at \in Frames /\ st.ok \in BOOLEAN
         /\ st.ok => st.m[s2.at][v[3]].p /\ st.m[s2.at][v[3]].addr = st.at
         /\ ~st.ok => st.m = s2.m /\ st.pool = <<>> /\ ~s2.m[s2.at][v[3]].p
      BY <1>1, <1>2, <2>1, <2>6, Descended DEF Upper, Under
    <3>2. Grows(m, kind, st.m, k3)
      BY <2>1, <2>2, <3>1, GrowsOn DEF Shape, Typed
    <3>3. k2[r] = "root" /\ s2.m[r][v[1]].p /\ s2.m[s1.at][v[2]].p /\ k2[s1.at] = "pdp"
      BY <1>2, <1>3, <1>5, <2>1, <2>3, <2>6 DEF Grows
    <3>4. st.m[r][v[1]] = s2.m[r][v[1]] /\ st.m[s1.at][v[2]] = s2.m[s1.at][v[2]]
      BY <1>2, <1>3, <3>1, <3>3 DEF Grows
    <3>5. Has2(st.m, r, v) /\ T2(st.m, r, v) = s2.at
      BY <1>3, <1>5, <2>1, <2>3, <2>6, <3>3, <3>4 DEF Has3, T3, Has2, T2
    <3>6. st.ok => Has1(st.m, r, v) /\ T1(st.m, r, v) = st.at
      BY <3>1, <3>5 DEF Has1, T1
    <3>7. ~st.ok => ~Has1(st.m, r, v)
      BY <3>1, <3>5 DEF Has1
    <3> QED
      BY <3>1, <3>2, <3>6, <3>7
  <2> QED
    BY <2>1, <2>5, <2>6
<1> QED
  BY <1>3, <1>4, <1>5

-----------------------------------------------------------------------------
(* The memory m2 after entry i of frame at became e: what page_map and     *)
(* page_unmap do to a last table, and a caller to a frame of its own.      *)
EntrySet(m, at, i, e, m2) ==
    /\ m2 \in [Frames -> [Idx -> Entry]]
    /\ \A g \in Frames, j \in Idx : m2[g][j] = IF g = at /\ j = i THEN e ELSE m[g][j]

LEMMA EntrySetMade ==
    ASSUME NEW m \in [Frames -> [Idx -> Entry]], NEW at \in Frames, NEW i \in Idx,
           NEW e \in Entry
    PROVE  EntrySet(m, at, i, e, [m EXCEPT ![at][i] = e])
BY DEF EntrySet

LEMMA EntryShape ==
    ASSUME NEW m, NEW pl, NEW d, NEW kind, Shape(m, pl, d, kind),
           NEW at \in Frames, NEW i \in Idx, NEW e \in Entry, NEW m2,
           EntrySet(m, at, i, e, m2),
           kind[at] = "data" \/ (kind[at] = "pt" /\ (e.p => e.addr \in d))
    PROVE  /\ Shape(m2, pl, d, kind)
           /\ \A g \in Frames, j \in Idx : kind[g] \in Upper => m2[g][j] = m[g][j]
<1>1. /\ Typed(m, pl, d, kind) /\ Labels(pl, d, kind) /\ Links(m, kind)
      /\ OneParent(m, kind) /\ BootStays(m, kind)
  BY DEF Shape
<1>2. \A g \in Frames, j \in Idx : kind[g] \in Upper => m2[g][j] = m[g][j]
  BY DEF EntrySet, Upper
<1>3. Typed(m2, pl, d, kind)
  BY <1>1 DEF Typed, EntrySet
<1>4. \A f \in d : kind[f] = "data"
  BY <1>1 DEF Typed, Labels
<1>5. Links(m2, kind)
  BY <1>1, <1>2, <1>4 DEF Links, EntrySet, Upper
<1>6. OneParent(m2, kind)
  BY <1>1, <1>2 DEF OneParent
<1>7. BootStays(m2, kind)
  <2>1. /\ \A r \in Roots : r \in Frames /\ kind[r] \in Upper
        /\ BootPdp \in Frames /\ kind[BootPdp] \in Upper
        /\ BootPd \in Frames /\ kind[BootPd] \in Upper
        /\ IdentityIndex \in Idx /\ MirrorIndex \in Idx /\ 0 \in Idx
    BY <1>1, TablesAssumption DEF Labels, BootStays, Upper, Idx
  <2> QED
    BY <1>1, <1>2, <2>1 DEF BootStays
<1> QED
  BY <1>1, <1>2, <1>3, <1>5, <1>6, <1>7 DEF Shape

(* A walk goes through the upper levels only.                              *)
LEMMA WalkKept ==
    ASSUME NEW m, NEW pl, NEW d, NEW kind, Shape(m, pl, d, kind),
           NEW m2, \A g \in Frames, j \in Idx : kind[g] \in Upper => m2[g][j] = m[g][j],
           NEW r \in Roots, NEW u \in Quads
    PROVE  /\ Has1(m2, r, u) <=> Has1(m, r, u)
           /\ Has1(m, r, u) => T1(m2, r, u) = T1(m, r, u)
<1>1. Has3(m2, r, u) = Has3(m, r, u) /\ T3(m2, r, u) = T3(m, r, u)
  BY WalkTyped DEF Has3, T3, Upper
<1>2. /\ Has2(m2, r, u) <=> Has2(m, r, u)
      /\ Has2(m, r, u) => T2(m2, r, u) = T2(m, r, u)
  BY <1>1, WalkTyped DEF Has2, T2, Upper
<1> QED
  BY <1>2, WalkTyped DEF Has1, T1, Upper

(* An entry of the last table of page v below root r is the translation of *)
(* that page alone.                                                        *)
LEMMA LeafChanged ==
    ASSUME NEW m, NEW pl, NEW d, NEW kind, Shape(m, pl, d, kind),
           NEW r \in Roots, NEW v \in Quads, Has1(m, r, v),
           NEW e \in Entry, e.p => e.addr \in d,
           NEW m2, EntrySet(m, T1(m, r, v), v[4], e, m2)
    PROVE  /\ Shape(m2, pl, d, kind)
           /\ \A s \in Roots, u \in Quads : Kernel(u) =>
                 Translate(m2, s, u) =
                    IF s = r /\ u = v THEN IF e.p THEN e.addr ELSE NoFrame
                    ELSE Translate(m, s, u)
<1>1. T1(m, r, v) \in Frames /\ kind[T1(m, r, v)] = "pt" /\ v[4] \in Idx
  BY WalkTyped
<1>2. /\ Shape(m2, pl, d, kind)
      /\ \A g \in Frames, j \in Idx : kind[g] \in Upper => m2[g][j] = m[g][j]
  BY <1>1, EntryShape
<1>3. ASSUME NEW s \in Roots, NEW u \in Quads, Kernel(u)
      PROVE  Translate(m2, s, u) = IF s = r /\ u = v THEN IF e.p THEN e.addr ELSE NoFrame
                                   ELSE Translate(m, s, u)
  <2>1. /\ Has1(m2, s, u) <=> Has1(m, s, u)
        /\ Has1(m, s, u) => T1(m2, s, u) = T1(m, s, u)
    BY <1>2, WalkKept
  <2>2. T1(m, s, u) \in Frames /\ u[4] \in Idx
    BY WalkTyped
  <2>3. CASE s = r /\ u = v
    <3>1. Leaf(m2, s, u) = e
      BY <2>1, <2>2, <2>3 DEF Leaf, EntrySet
    <3> QED
      BY <1>2, <1>3, <2>1, <2>3, <3>1, Translated
  <2>4. CASE ~(s = r /\ u = v)
    <3>1. Has1(m, s, u) => ~(T1(m, s, u) = T1(m, r, v) /\ u[4] = v[4])
      <4>1. ASSUME Has1(m, s, u), T1(m, s, u) = T1(m, r, v), u[4] = v[4]
            PROVE  s = r /\ u = v
        <5>1. s = r /\ u[1] = v[1] /\ u[2] = v[2] /\ u[3] = v[3]
          BY <1>3, <4>1, OnePath
        <5> QED
          BY <4>1, <5>1 DEF Quads
      <4> QED
        BY <2>4, <4>1
    <3>2. Has1(m, s, u) => Leaf(m2, s, u) = Leaf(m, s, u)
      BY <2>1, <2>2, <3>1 DEF Leaf, EntrySet
    <3> QED
      BY <1>2, <1>3, <2>1, <2>4, <3>2, Translated
  <2> QED
    BY <2>3, <2>4
<1> QED
  BY <1>2, <1>3

-----------------------------------------------------------------------------
(* page_map: the page has the caller's frame if it had none and the frames *)
(* lasted, no other translation changes, and the result says so.           *)
MapResult(m, pl, d, r, v, f, res) ==
    /\ \E k2 : Shape(res.m, res.pool, d, k2)
    /\ \A s \in Roots, u \in Quads : Kernel(u) =>
          Translate(res.m, s, u) = IF s = r /\ u = v /\ res.ret = 0 THEN f
                                   ELSE Translate(m, s, u)
    /\ res.ret \in {0, 1, -1}
    /\ Kernel(v) =>
          /\ res.ret = 0 => Translate(m, r, v) = NoFrame
          /\ res.ret = 1 => Translate(m, r, v) # NoFrame
          /\ res.ret = -1 => Translate(m, r, v) = NoFrame /\ res.pool = <<>>

LEMMA Mapped ==
    ASSUME NEW m, NEW pl, NEW d, NEW kind, Shape(m, pl, d, kind),
           NEW r \in Roots, NEW v \in Quads, NEW f \in d,
           NEW res, res = MapIn(m, pl, r, v, f)
    PROVE  MapResult(m, pl, d, r, v, f, res)
<1> DEFINE st == Descents(m, pl, r, v)
<1>1. res = IF ~st.ok THEN [m |-> st.m, pool |-> st.pool, ret |-> -1]
            ELSE IF st.m[st.at][v[4]].p THEN [m |-> st.m, pool |-> st.pool, ret |-> 1]
            ELSE [m |-> [st.m EXCEPT ![st.at][v[4]] = To(f)], pool |-> st.pool, ret |-> 0]
  BY DEF MapIn, Descents, State
<1>2. PICK k2 :
         /\ Shape(st.m, st.pool, d, k2) /\ Grows(m, kind, st.m, k2)
         /\ st.ok \in BOOLEAN
         /\ st.ok => Has1(st.m, r, v) /\ T1(st.m, r, v) = st.at
         /\ ~st.ok => ~Has1(st.m, r, v) /\ st.pool = <<>>
  BY Walked
<1> HIDE DEF st
<1>3. \A s \in Roots, u \in Quads : Kernel(u) => Translate(st.m, s, u) = Translate(m, s, u)
  BY <1>2, GrowsUnseen
<1>4. Kernel(v) => (Translate(st.m, r, v) # NoFrame <=> Has1(st.m, r, v) /\ Leaf(st.m, r, v).p)
  BY <1>2, Translated
<1>5. CASE ~st.ok
  <2>1. res.m = st.m /\ res.pool = st.pool /\ res.ret = -1
    BY <1>1, <1>5
  <2> QED
    BY <1>2, <1>3, <1>4, <1>5, <2>1 DEF MapResult
<1>6. CASE st.ok /\ st.m[st.at][v[4]].p
  <2>1. res.m = st.m /\ res.pool = st.pool /\ res.ret = 1
    BY <1>1, <1>6
  <2> QED
    BY <1>2, <1>3, <1>4, <1>6, <2>1 DEF MapResult, Leaf
<1>7. CASE st.ok /\ ~st.m[st.at][v[4]].p
  <2>1. res.m = [st.m EXCEPT ![st.at][v[4]] = To(f)] /\ res.pool = st.pool /\ res.ret = 0
    BY <1>1, <1>7
  <2>2. f \in Frames /\ To(f) \in Entry /\ To(f).p /\ To(f).addr = f
    BY DEF Shape, Typed, To, Entry
  <2>3. T1(st.m, r, v) \in Frames /\ v[4] \in Idx
    BY <1>2, WalkTyped
  <2>4. EntrySet(st.m, T1(st.m, r, v), v[4], To(f), res.m)
    <3>1. st.m \in [Frames -> [Idx -> Entry]]
      BY <1>2 DEF Shape, Typed
    <3>2. EntrySet(st.m, st.at, v[4], To(f), [st.m EXCEPT ![st.at][v[4]] = To(f)])
      BY <1>2, <1>7, <2>2, <2>3, <3>1, EntrySetMade
    <3> QED
      BY <1>2, <1>7, <2>1, <3>2
  <2>5. /\ Shape(res.m, st.pool, d, k2)
        /\ \A s \in Roots, u \in Quads : Kernel(u) =>
              Translate(res.m, s, u) = IF s = r /\ u = v THEN f ELSE Translate(st.m, s, u)
    <3> DEFINE e == To(f)
    <3>1. e \in Entry /\ e.p /\ e.addr = f
      BY <2>2
    <3>2. EntrySet(st.m, T1(st.m, r, v), v[4], e, res.m)
      BY <2>4
    <3> HIDE DEF e
    <3>3. /\ Shape(res.m, st.pool, d, k2)
          /\ \A s \in Roots, u \in Quads : Kernel(u) =>
                Translate(res.m, s, u) =
                   IF s = r /\ u = v THEN IF e.p THEN e.addr ELSE NoFrame
                   ELSE Translate(st.m, s, u)
      BY <1>2, <1>7, <3>1, <3>2, LeafChanged
    <3> QED
      BY <3>1, <3>3
  <2>6. ~Leaf(st.m, r, v).p
    BY <1>2, <1>7 DEF Leaf
  <2> QED
    BY <1>3, <1>4, <2>1, <2>5, <2>6 DEF MapResult
<1> QED
  BY <1>2, <1>5, <1>6, <1>7

-----------------------------------------------------------------------------
(* The steps.                                                              *)
MapStep(r, v, f) == MapIn(mem, pool, r, v, f)

LEMMA PagesTyped ==
    /\ \A v \in MapPages : v \in Quads /\ Kernel(v)
    /\ \A v \in UnmapPages : v \in Quads
BY TablesAssumption, FramesAssumption DEF Quads, Idx, Kernel

LEMMA MapInTableStep ==
    ASSUME IInv, NEW r \in Roots, NEW v \in MapPages, NEW f \in data, PageMapInTable(r, v, f)
    PROVE  IInv' /\ MapResult(mem, pool, data, r, v, f, MapStep(r, v, f))
<1>1. PICK kind : Shape(mem, pool, data, kind)
  BY DEF IInv
<1>2. MapResult(mem, pool, data, r, v, f, MapStep(r, v, f))
  BY <1>1, Mapped, PagesTyped DEF MapStep
<1>3. /\ mem' = MapStep(r, v, f).m /\ pool' = MapStep(r, v, f).pool
      /\ UNCHANGED <<current, data, tlb>>
  BY DEF PageMapInTable, MapStep
<1>4. \E k2 : Shape(mem', pool', data', k2)
  BY <1>2, <1>3 DEF MapResult
<1> QED
  BY <1>2, <1>3, <1>4 DEF IInv, Stale

LEMMA PhysicalAllocDataStep == ASSUME IInv, PhysicalAllocData PROVE IInv'
<1>1. PICK kind : Shape(mem, pool, data, kind)
  BY DEF IInv
<1>2. /\ pool # <<>> /\ pool' = Tail(pool) /\ data' = data \cup {Head(pool)}
      /\ mem' = mem /\ current' = current /\ tlb' = tlb
  BY DEF PhysicalAllocData
<1> DEFINE f == Head(pool)
           k2 == [kind EXCEPT ![f] = "data"]
<1>3. /\ f \in Frames /\ kind[f] = "free"
      /\ Tail(pool) \in Seq(Frames)
      /\ \A k \in 1 .. Len(Tail(pool)) : /\ Tail(pool)[k] \in Frames /\ Tail(pool)[k] # f
                                         /\ kind[Tail(pool)[k]] = "free"
      /\ \A j, k \in 1 .. Len(Tail(pool)) : Tail(pool)[j] = Tail(pool)[k] => j = k
  BY <1>1, <1>2, Taken
<1>4. /\ Typed(mem, pool, data, kind) /\ Labels(pool, data, kind) /\ Links(mem, kind)
      /\ OneParent(mem, kind) /\ BootStays(mem, kind)
  BY <1>1 DEF Shape
<1>5. k2 \in [Frames -> Kinds] /\ k2[f] = "data" /\ \A g \in Frames : g # f => k2[g] = kind[g]
  BY <1>3, <1>4 DEF Typed, Kinds
<1>6. \A g \in Frames, j \in Idx : mem[g][j].addr \in Frames
  BY <1>4 DEF Typed, Entry
<1>7. \A g \in Frames, j \in Idx :
         mem[g][j].p /\ (kind[g] \in Upper \/ (kind[g] = "pt" /\ g # BootBig))
            => mem[g][j].addr # f
  BY <1>1, <1>3, <1>4, NotYet DEF BootStays, Upper
<1> HIDE DEF f, k2
<1>8. Typed(mem, Tail(pool), data \cup {f}, k2)
  BY <1>3, <1>4, <1>5 DEF Typed
<1>9. Labels(Tail(pool), data \cup {f}, k2)
  BY <1>3, <1>4, <1>5 DEF Labels
<1>10. Links(mem, k2)
  BY <1>4, <1>5, <1>6, <1>7 DEF Links, Upper
<1>11. OneParent(mem, k2)
  BY <1>4, <1>5 DEF OneParent, Upper
<1>12. BootStays(mem, k2)
  BY <1>3, <1>4, <1>5, TablesAssumption DEF BootStays
<1>13. Shape(mem, Tail(pool), data \cup {f}, k2)
  BY <1>8, <1>9, <1>10, <1>11, <1>12, Zenon DEF Shape
<1>14. \E k : Shape(mem', pool', data', k)
  BY <1>2, <1>13 DEF f
<1> QED
  BY <1>2, <1>14 DEF IInv, Stale

LEMMA TouchStep == ASSUME IInv, NEW v \in MapPages, Touch(v) PROVE IInv'
<1>1. PICK kind : Shape(mem, pool, data, kind)
  BY DEF IInv
<1>2. Translate(mem, current, v) \in data
  BY <1>1, Translated, PagesTyped DEF IInv, Touch
<1>3. Stale'
  BY <1>2 DEF IInv, Stale, Touch
<1> QED
  BY <1>1, <1>3 DEF IInv, Touch

LEMMA WriteStep ==
    ASSUME IInv, NEW t \in tlb, NEW i \in WriteIdx, Write(t, i)
    PROVE  IInv' /\ \A s \in Roots, u \in Quads :
                       Kernel(u) => Translate(mem', s, u) = Translate(mem, s, u)
<1>1. PICK kind : Shape(mem, pool, data, kind)
  BY DEF IInv
<1> DEFINE e == To(BootBig)
<1>2. t[2] \in Frames /\ kind[t[2]] = "data" /\ i \in Idx /\ e \in Entry
  BY <1>1, TablesAssumption DEF IInv, Stale, Shape, Typed, Labels, Idx, To, Entry
<1>3. EntrySet(mem, t[2], i, e, mem')
  <2>1. mem \in [Frames -> [Idx -> Entry]]
    BY <1>1 DEF Shape, Typed
  <2>2. EntrySet(mem, t[2], i, e, [mem EXCEPT ![t[2]][i] = e])
    BY <1>2, <2>1, EntrySetMade
  <2> QED
    BY <2>2 DEF Write
<1> HIDE DEF e
<1>4. /\ Shape(mem', pool, data, kind)
      /\ \A g \in Frames, j \in Idx : kind[g] \in Upper => mem'[g][j] = mem[g][j]
  BY <1>1, <1>2, <1>3, EntryShape
<1>5. ASSUME NEW s \in Roots, NEW u \in Quads, Kernel(u)
      PROVE  Translate(mem', s, u) = Translate(mem, s, u)
  <2>1. /\ Has1(mem', s, u) <=> Has1(mem, s, u)
        /\ Has1(mem, s, u) => T1(mem', s, u) = T1(mem, s, u)
    BY <1>1, <1>4, WalkKept
  <2>2. Has1(mem, s, u) => Leaf(mem', s, u) = Leaf(mem, s, u)
    <3>1. T1(mem, s, u) \in Frames /\ u[4] \in Idx
          /\ (Has1(mem, s, u) => kind[T1(mem, s, u)] = "pt")
      BY <1>1, WalkTyped
    <3> QED
      BY <1>2, <1>3, <2>1, <3>1 DEF Leaf, EntrySet
  <2> QED
    BY <1>1, <1>4, <1>5, <2>1, <2>2, Translated
<1> QED
  BY <1>4, <1>5 DEF IInv, Stale, Write

(* page_unmap is given a page that is mapped, so its walk, which looks at  *)
(* no present bit (paging.c:100-103), comes to the page's last table.      *)
LEMMA UnmapStep ==
    ASSUME IInv, NEW v \in UnmapPages, Translate(mem, current, v) # NoFrame, PageUnmap(v)
    PROVE  /\ IInv'
           /\ \/ mem' = mem
              \/ \A s \in Roots, u \in Quads : Kernel(u) =>
                    Translate(mem', s, u) = IF s = current /\ u = v THEN NoFrame
                                            ELSE Translate(mem, s, u)
<1>1. PICK kind : Shape(mem, pool, data, kind)
  BY DEF IInv
<1>2. current \in Roots /\ v \in Quads
  BY PagesTyped DEF IInv
<1>3. CASE InMirrorGuard(v)
  BY <1>1, <1>3 DEF PageUnmap, IInv, Stale
<1>4. CASE ~InMirrorGuard(v)
  <2>1. Has1(mem, current, v)
    BY DEF Translate, Has1, Has2, Has3, T3, T2
  <2> DEFINE t == T1(mem, current, v)
             e == [mem[t][v[4]] EXCEPT !.p = FALSE]
  <2>2. mem' = [mem EXCEPT ![t][v[4]].p = FALSE] /\ UNCHANGED <<current, pool, data, tlb>>
    BY <1>4 DEF PageUnmap, UnmapWalk, T1, T2, T3
  <2>3. mem \in [Frames -> [Idx -> Entry]] /\ t \in Frames /\ v[4] \in Idx /\ mem[t][v[4]] \in Entry
    BY <1>1, <1>2, WalkTyped DEF Shape, Typed, Leaf
  <2>4. e \in Entry /\ ~e.p
    BY <2>3 DEF Entry
  <2>5. EntrySet(mem, t, v[4], e, mem')
    <3>1. mem' = [mem EXCEPT ![t][v[4]] = e]
      BY <2>2
    <3> HIDE DEF e, t
    <3> QED
      BY <2>3, <2>4, <3>1, EntrySetMade
  <2> HIDE DEF e
  <2>6. /\ Shape(mem', pool, data, kind)
        /\ \A s \in Roots, u \in Quads : Kernel(u) =>
              Translate(mem', s, u) =
                 IF s = current /\ u = v THEN IF e.p THEN e.addr ELSE NoFrame
                 ELSE Translate(mem, s, u)
    BY <1>1, <1>2, <2>1, <2>4, <2>5, LeafChanged
  <2> QED
    BY <2>2, <2>4, <2>6 DEF IInv, Stale
<1> QED
  BY <1>3, <1>4

LEMMA PageMapSetStep == ASSUME IInv, NEW root \in Roots, PageMapSet(root) PROVE IInv'
BY DEF PageMapSet, IInv, Stale

-----------------------------------------------------------------------------
(* page_map_multiple of two frames: the second page is mapped if the first *)
(* was.                                                                    *)
First(v, fs)  == MapIn(mem, pool, current, MultiplePage(v, 0), fs[1])
Second(v, fs) == MapIn(First(v, fs).m, First(v, fs).pool, current, MultiplePage(v, 1), fs[2])

LEMMA MapInRecord ==
    ASSUME NEW m, NEW pl, NEW r, NEW v, NEW f, NEW y
    PROVE  /\ [MapIn(m, pl, r, v, f) EXCEPT !.ret = y].m    = MapIn(m, pl, r, v, f).m
           /\ [MapIn(m, pl, r, v, f) EXCEPT !.ret = y].pool = MapIn(m, pl, r, v, f).pool
           /\ [MapIn(m, pl, r, v, f) EXCEPT !.ret = y].ret  = y
BY DEF MapIn

LEMMA MultipleTwice ==
    ASSUME NEW v, NEW fs, DOMAIN fs = 1 .. 2, Len(fs) = 2
    PROVE  /\ MapMultiple(v, fs).m    = IF First(v, fs).ret = 0 THEN Second(v, fs).m
                                        ELSE First(v, fs).m
           /\ MapMultiple(v, fs).pool = IF First(v, fs).ret = 0 THEN Second(v, fs).pool
                                        ELSE First(v, fs).pool
<1>1. \A y : /\ [First(v, fs) EXCEPT !.ret = y].m    = First(v, fs).m
             /\ [First(v, fs) EXCEPT !.ret = y].pool = First(v, fs).pool
             /\ [First(v, fs) EXCEPT !.ret = y].ret  = y
  BY MapInRecord DEF First
<1>2. \A y : /\ [Second(v, fs) EXCEPT !.ret = y].m    = Second(v, fs).m
             /\ [Second(v, fs) EXCEPT !.ret = y].pool = Second(v, fs).pool
             /\ [Second(v, fs) EXCEPT !.ret = y].ret  = y
  BY MapInRecord DEF Second
<1> DEFINE Body(s) == [k \in 0 .. Len(fs) |->
          IF k = 0 THEN [m |-> mem, pool |-> pool, ret |-> 0]
          ELSE IF s[k - 1].ret # 0 THEN s[k - 1]
          ELSE LET r == MapIn(s[k - 1].m, s[k - 1].pool, current, MultiplePage(v, k - 1), fs[k])
               IN  [r EXCEPT !.ret = IF @ = 0 THEN 0 ELSE k]]
           S == CHOOSE s : s = Body(s)
<1>3. MapMultiple(v, fs) = S[2]
  <2>1. MapMultiple(v, fs) = S[Len(fs)]
    BY DEF MapMultiple
  <2> HIDE DEF S
  <2> QED
    BY <2>1
<1> DEFINE s0 == [m |-> mem, pool |-> pool, ret |-> 0]
           s1 == [First(v, fs) EXCEPT !.ret = IF @ = 0 THEN 0 ELSE 1]
           s2 == IF s1.ret # 0 THEN s1
                 ELSE [Second(v, fs) EXCEPT !.ret = IF @ = 0 THEN 0 ELSE 2]
           W  == [k \in 0 .. Len(fs) |-> IF k = 0 THEN s0 ELSE IF k = 1 THEN s1 ELSE s2]
<1>4. /\ s1.m = First(v, fs).m /\ s1.pool = First(v, fs).pool
      /\ s1.ret = 0 <=> First(v, fs).ret = 0
  BY <1>1
<1>5. /\ s2.m = IF First(v, fs).ret = 0 THEN Second(v, fs).m ELSE First(v, fs).m
      /\ s2.pool = IF First(v, fs).ret = 0 THEN Second(v, fs).pool ELSE First(v, fs).pool
  BY <1>1, <1>2, <1>4
<1>6. \A s, k : s = Body(s) /\ k \in 0 .. 2 =>
         s[k] = IF k = 0 THEN s0
                ELSE IF s[k - 1].ret # 0 THEN s[k - 1]
                ELSE [MapIn(s[k - 1].m, s[k - 1].pool, current, MultiplePage(v, k - 1), fs[k])
                         EXCEPT !.ret = IF @ = 0 THEN 0 ELSE k]
  OBVIOUS
<1>7. W = Body(W)
  <2>1. W[0] = s0 /\ W[1] = s1 /\ W[2] = s2
    <3> HIDE DEF s0, s1, s2
    <3> QED
      OBVIOUS
  <2>2. Body(W)[0] = s0
    OBVIOUS
  <2>3. Body(W)[1] = s1
    <3>1. W[1 - 1].m = mem /\ W[1 - 1].pool = pool /\ ~(W[1 - 1].ret # 0)
      BY <2>1
    <3> HIDE DEF W
    <3> QED
      BY <3>1 DEF First
  <2>4. Body(W)[2] = s2
    <3> HIDE DEF W, s1, s2
    <3>1. W[2 - 1] = s1
      BY <2>1
    <3>2. Body(W)[2] = IF W[2 - 1].ret # 0 THEN W[2 - 1]
                ELSE [MapIn(W[2 - 1].m, W[2 - 1].pool, current, MultiplePage(v, 2 - 1), fs[2])
                         EXCEPT !.ret = IF @ = 0 THEN 0 ELSE 2]
      OBVIOUS
    <3> QED
      BY <1>4, <3>1, <3>2 DEF Second, s2
  <2> HIDE DEF W, s0, s1, s2
  <2> QED
    BY <2>1, <2>2, <2>3, <2>4 DEF W
<1>8. S = Body(S)
  BY <1>7
<1> HIDE DEF S, Body, W
<1>9. S[2] = s2
  <2> HIDE DEF s0
  <2>0. \A k \in 0 .. 2 :
         S[k] = IF k = 0 THEN s0
                ELSE IF S[k - 1].ret # 0 THEN S[k - 1]
                ELSE [MapIn(S[k - 1].m, S[k - 1].pool, current, MultiplePage(v, k - 1), fs[k])
                         EXCEPT !.ret = IF @ = 0 THEN 0 ELSE k]
    BY <1>6, <1>8
  <2>1. /\ S[0] = s0
        /\ S[1] = IF S[0].ret # 0 THEN S[0]
                  ELSE [MapIn(S[0].m, S[0].pool, current, MultiplePage(v, 0), fs[1])
                            EXCEPT !.ret = IF @ = 0 THEN 0 ELSE 1]
        /\ S[2] = IF S[1].ret # 0 THEN S[1]
                  ELSE [MapIn(S[1].m, S[1].pool, current, MultiplePage(v, 1), fs[2])
                            EXCEPT !.ret = IF @ = 0 THEN 0 ELSE 2]
    BY <2>0
  <2>2. S[1] = s1
    BY <2>1 DEF First, s0
  <2> HIDE DEF s1
  <2> QED
    BY <1>4, <2>1, <2>2 DEF Second
<1> HIDE DEF s2
<1> QED
  BY <1>3, <1>5, <1>9

LEMMA MultiplePageTyped ==
    ASSUME NEW v \in Quads, NEW k \in Nat PROVE MultiplePage(v, k) \in Quads
<1>1. N \in Nat /\ N > 0 /\ \A a \in Int : a % N \in Idx
  BY TablesAssumption DEF Idx
<1>2. /\ N * N \in Int /\ N * N > 0
      /\ N * N * N \in Int /\ N * N * N > 0
  <2>1. \A a, b \in Int : a > 0 /\ b > 0 => a * b \in Int /\ a * b > 0
    BY SMT
  <2> QED
    BY <1>1, <2>1
<1>3. \A n \in Int : PageOf(n) \in Quads
  <2> SUFFICES ASSUME NEW n \in Int PROVE PageOf(n) \in Quads
    OBVIOUS
  <2>1. \A a, b \in Int : b > 0 => a \div b \in Int
    OBVIOUS
  <2>2. n \div (N * N * N) \in Int /\ n \div (N * N) \in Int /\ n \div N \in Int
    BY <1>1, <1>2, <2>1
  <2> QED
    BY <1>1, <2>2 DEF PageOf, Quads
<1>4. PageNumber(v) * N + k \in Int
  <2>1. v[1] \in Int /\ v[2] \in Int /\ v[3] \in Int /\ v[4] \in Int
    BY DEF Quads, Idx
  <2>2. \A a, b \in Int : a * b \in Int /\ a + b \in Int
    OBVIOUS
  <2>3. PageNumber(v) \in Int
    BY <1>1, <2>1, <2>2 DEF PageNumber
  <2> QED
    BY <1>1, <2>2, <2>3
<1> QED
  BY <1>3, <1>4 DEF MultiplePage

LEMMA PageMapMultipleStep ==
    ASSUME IInv, NEW v \in MultiplePages, NEW fs \in [1 .. 2 -> data], PageMapMultiple(v, fs)
    PROVE  /\ IInv'
           /\ MapResult(mem, pool, data, current, MultiplePage(v, 0), fs[1], First(v, fs))
           /\ First(v, fs).ret # 0 => mem' = First(v, fs).m
           /\ First(v, fs).ret = 0 =>
                 /\ mem' = Second(v, fs).m
                 /\ MapResult(First(v, fs).m, First(v, fs).pool, data, current,
                              MultiplePage(v, 1), fs[2], Second(v, fs))
<1>1. PICK kind : Shape(mem, pool, data, kind)
  BY DEF IInv
<1>2. v \in Quads
  BY TablesAssumption DEF Quads, Idx
<1>3. /\ current \in Roots /\ fs[1] \in data /\ fs[2] \in data
      /\ MultiplePage(v, 0) \in Quads /\ MultiplePage(v, 1) \in Quads
  BY <1>2, MultiplePageTyped DEF IInv
<1>4. MapResult(mem, pool, data, current, MultiplePage(v, 0), fs[1], First(v, fs))
  BY <1>1, <1>3, Mapped DEF First
<1>5. PICK k1 : Shape(First(v, fs).m, First(v, fs).pool, data, k1)
  BY <1>4 DEF MapResult
<1>6. MapResult(First(v, fs).m, First(v, fs).pool, data, current,
                MultiplePage(v, 1), fs[2], Second(v, fs))
  BY <1>3, <1>5, Mapped DEF Second
<1>7. DOMAIN fs = 1 .. 2 /\ Len(fs) = 2
  OBVIOUS
<1>8. /\ mem'  = IF First(v, fs).ret = 0 THEN Second(v, fs).m ELSE First(v, fs).m
      /\ pool' = IF First(v, fs).ret = 0 THEN Second(v, fs).pool ELSE First(v, fs).pool
      /\ UNCHANGED <<current, data, tlb>>
  BY <1>7, MultipleTwice DEF PageMapMultiple
<1>9. \E k2 : Shape(mem', pool', data', k2)
  BY <1>5, <1>6, <1>8 DEF MapResult
<1>10. IInv'
  BY <1>8, <1>9 DEF IInv, Stale
<1> QED
  BY <1>4, <1>6, <1>8, <1>10

-----------------------------------------------------------------------------
LEMMA InvNext == IInv /\ [Next]_vars => IInv'
<1> SUFFICES ASSUME IInv, [Next]_vars PROVE IInv'
  OBVIOUS
<1>1. ASSUME NEW v \in MapPages, NEW f \in data, PageMap(v, f) PROVE IInv'
  BY <1>1, MapInTableStep DEF IInv, PageMap, PageMapInTable
<1>2. ASSUME NEW r \in Roots, NEW v \in MapPages, NEW f \in data, PageMapInTable(r, v, f)
      PROVE  IInv'
  BY <1>2, MapInTableStep
<1>3. CASE UnmapMapped
  BY <1>3, UnmapStep DEF UnmapMapped
<1>4. ASSUME NEW root \in Roots, PageMapSet(root) PROVE IInv'
  BY <1>4, PageMapSetStep
<1>5. CASE PhysicalAllocData
  BY <1>5, PhysicalAllocDataStep
<1>6. ASSUME NEW v \in MapPages, Touch(v) PROVE IInv'
  BY <1>6, TouchStep
<1>7. ASSUME NEW t \in tlb, NEW i \in WriteIdx, Write(t, i) PROVE IInv'
  BY <1>7, WriteStep
<1>8. ASSUME NEW v \in MultiplePages, NEW fs \in [1 .. 2 -> data], PageMapMultiple(v, fs)
      PROVE  IInv'
  BY <1>8, PageMapMultipleStep
<1>9. CASE UNCHANGED vars
  BY <1>9 DEF vars, IInv, Stale
<1> QED
  BY <1>1, <1>2, <1>3, <1>4, <1>5, <1>6, <1>7, <1>8, <1>9 DEF Next

THEOREM Invariant == Spec => []IInv
BY InvInit, InvNext, PTL DEF Spec

(* TableAt, given the entries of the walk.                                 *)
Chosen(e4, e3, e2, k) ==
    CASE k = 1 -> IF e4.p THEN e4.addr ELSE NoFrame
      [] k = 2 -> IF e4.p /\ e3.p THEN e3.addr ELSE NoFrame
      [] k = 3 -> IF e4.p /\ e3.p /\ e2.p /\ ~e2.big THEN e2.addr ELSE NoFrame

(* The tables of the walk of a page of the kernel.                         *)
LEMMA TableOnWalk ==
    ASSUME NEW kind, Shape(mem, pool, data, kind), NEW r \in Roots, NEW v \in MapPages,
           NEW k \in 1 .. 3, TableAt(mem, r, v, k) # NoFrame
    PROVE  /\ k = 1 => Has3(mem, r, v) /\ TableAt(mem, r, v, k) = T3(mem, r, v)
           /\ k = 2 => Has2(mem, r, v) /\ TableAt(mem, r, v, k) = T2(mem, r, v)
           /\ k = 3 => Has1(mem, r, v) /\ TableAt(mem, r, v, k) = T1(mem, r, v)
           /\ TableAt(mem, r, v, k) \in Frames
           /\ kind[TableAt(mem, r, v, k)] = CASE k = 1 -> "pdp" [] k = 2 -> "pd" [] k = 3 -> "pt"
<1>1. k = 1 \/ k = 2 \/ k = 3
  OBVIOUS
<1>2. /\ k = 1 => Has3(mem, r, v) /\ TableAt(mem, r, v, k) = T3(mem, r, v)
      /\ k = 2 => Has2(mem, r, v) /\ TableAt(mem, r, v, k) = T2(mem, r, v)
      /\ k = 3 => Has1(mem, r, v) /\ TableAt(mem, r, v, k) = T1(mem, r, v)
  <2>1. CASE k = 1
    BY <2>1 DEF TableAt, Has3, T3
  <2>2. CASE k = 2
    BY <2>2 DEF TableAt, Has3, T3, Has2, T2
  <2>3. CASE k = 3
    <3>1. TableAt(mem, r, v, k) =
             IF Has1(mem, r, v) /\ ~mem[T2(mem, r, v)][v[3]].big THEN T1(mem, r, v) ELSE NoFrame
      <4> DEFINE e4 == mem[r][v[1]]
                 e3 == mem[e4.addr][v[2]]
                 e2 == mem[e3.addr][v[3]]
      <4>1. TableAt(mem, r, v, k) = IF e4.p /\ e3.p /\ e2.p /\ ~e2.big THEN e2.addr ELSE NoFrame
        <5>1. TableAt(mem, r, v, k) = Chosen(e4, e3, e2, k)
          BY DEF TableAt, Chosen
        <5> HIDE DEF e2, e3, e4
        <5>2. Chosen(e4, e3, e2, k) = IF e4.p /\ e3.p /\ e2.p /\ ~e2.big THEN e2.addr ELSE NoFrame
          BY <2>3 DEF Chosen
        <5> QED
          BY <5>1, <5>2
      <4>2. e2 = mem[T2(mem, r, v)][v[3]] /\ T1(mem, r, v) = e2.addr
        BY DEF T1, T2, T3
      <4>3. Has1(mem, r, v) = (e4.p /\ e3.p /\ e2.p)
        BY Zenon DEF Has1, Has2, Has3, T2, T3
      <4> HIDE DEF e2, e3, e4
      <4> QED
        BY <4>1, <4>2, <4>3
    <3> QED
      BY <2>3, <3>1
  <2> QED
    BY <1>1, <2>1, <2>2, <2>3
<1> QED
  BY <1>1, <1>2, WalkTyped, PagesTyped

(* Two walks meet in a table only on the same path: a table page_map       *)
(* installs (paging.c:26-66) serves one position of one address space,     *)
(* whatever the frames hold and however often a walk ran out of them.      *)
THEOREM Tree == Spec => []TablesAreATree
<1>1. IInv => TablesAreATree
  <2> SUFFICES ASSUME IInv, NEW r \in Roots, NEW s \in Roots,
                      NEW v \in MapPages, NEW u \in MapPages, NEW j \in 1 .. 3, NEW k \in 1 .. 3,
                      TableAt(mem, r, v, j) = TableAt(mem, s, u, k),
                      TableAt(mem, r, v, j) # NoFrame
               PROVE  r = s /\ j = k /\ \A i \in 1 .. k : v[i] = u[i]
    BY DEF TablesAreATree
  <2>1. PICK kind : Shape(mem, pool, data, kind)
    BY DEF IInv
  <2>2. j = k
    BY <2>1, TableOnWalk
  <2>3. /\ k = 1 => r = s /\ v[1] = u[1]
        /\ k = 2 => r = s /\ v[1] = u[1] /\ v[2] = u[2]
        /\ k = 3 => r = s /\ v[1] = u[1] /\ v[2] = u[2] /\ v[3] = u[3]
    BY <2>1, <2>2, TableOnWalk, OnePath, PagesTyped
  <2>4. k = 1 \/ k = 2 \/ k = 3
    OBVIOUS
  <2> QED
    BY <2>2, <2>3, <2>4
<1> QED
  BY <1>1, Invariant, PTL

(* No translation that page_unmap left behind leads to a page table.       *)
THEOREM OutOfReach == Spec => []TablesOutOfReach
<1>1. IInv => TablesOutOfReach
  <2> SUFFICES ASSUME IInv, NEW t \in tlb, t[2] \in TableFrames PROVE FALSE
    BY DEF TablesOutOfReach
  <2>1. PICK kind : Shape(mem, pool, data, kind)
    BY DEF IInv
  <2>2. t[2] \in Frames /\ kind[t[2]] = "data"
    BY <2>1 DEF IInv, Stale, Shape, Typed, Labels
  <2>3. t[2] \notin Roots
    BY <2>1, <2>2 DEF Shape, Labels
  <2>4. PICK r \in Roots, v \in MapPages, k \in 1 .. 3 :
           t[2] = TableAt(mem, r, v, k) /\ t[2] # NoFrame
    BY <2>3 DEF TableFrames
  <2>5. kind[t[2]] = CASE k = 1 -> "pdp" [] k = 2 -> "pd" [] k = 3 -> "pt"
    BY <2>1, <2>4, TableOnWalk
  <2>6. k = 1 \/ k = 2 \/ k = 3
    OBVIOUS
  <2> QED
    BY <2>2, <2>5, <2>6
<1> QED
  BY <1>1, Invariant, PTL

(* What page_map returns is true of the tables (memory.h:62-68), whatever  *)
(* call is made of it, and a call that does not return 0 changes no        *)
(* translation (paging.c:21-77).                                           *)
THEOREM Reports == Spec => []MapReports
<1>1. IInv => MapReports
  <2> SUFFICES ASSUME IInv, NEW r \in Roots, NEW v \in MapPages, NEW f \in data
               PROVE  LET call   == MapStep(r, v, f)
                          before == Translate(mem, r, v)
                      IN  /\ call.ret = 0  => before = NoFrame /\ Translate(call.m, r, v) = f
                          /\ call.ret = 1  => before # NoFrame
                          /\ call.ret = -1 => before = NoFrame /\ call.pool = <<>>
                          /\ call.ret # 0  => \A s \in Roots, u \in MapPages :
                                                Translate(call.m, s, u) = Translate(mem, s, u)
    BY DEF MapStep, MapReports
  <2>1. PICK kind : Shape(mem, pool, data, kind)
    BY DEF IInv
  <2>2. MapResult(mem, pool, data, r, v, f, MapStep(r, v, f))
    BY <2>1, Mapped, PagesTyped DEF MapStep
  <2> QED
    BY <2>2, PagesTyped DEF MapResult
<1> QED
  BY <1>1, Invariant, PTL

-----------------------------------------------------------------------------
(* The tables implement AddressMap.                                        *)
Maps(m) == [r \in Roots |-> [v \in MapPages |-> Translate(m, r, v)]]

(* Only the mapping of page v in space r changed, to f.                    *)
Becomes(m, r, v, f, m2) == Maps(m2) = [Maps(m) EXCEPT ![r][v] = f]

LEMMA MapsMade ==
    ASSUME NEW m, NEW m2, NEW r \in Roots, NEW v \in MapPages, NEW f,
           \A s \in Roots, u \in MapPages :
              Translate(m2, s, u) = IF s = r /\ u = v THEN f ELSE Translate(m, s, u)
    PROVE  Becomes(m, r, v, f, m2)
BY DEF Maps, Becomes

LEMMA BecomesSame ==
    ASSUME NEW m, NEW n, NEW m2, NEW n2, Maps(m) = Maps(n), Maps(m2) = Maps(n2),
           NEW r, NEW v, NEW f, Becomes(m, r, v, f, m2)
    PROVE  Becomes(n, r, v, f, n2)
BY Zenon DEF Becomes

LEMMA MapsSame ==
    ASSUME NEW m, NEW m2,
           \A s \in Roots, u \in MapPages : Translate(m2, s, u) = Translate(m, s, u)
    PROVE  Maps(m2) = Maps(m)
BY DEF Maps

(* One call of page_map, in memory m with the space current: an abstract   *)
(* Map of the page or, if it failed or is not among the observed, nothing. *)
LEMMA MapResultMaps ==
    ASSUME NEW m, NEW pl, NEW d \in SUBSET Frames, NEW r \in Roots, NEW v \in Quads,
           NEW f \in d, NEW res, MapResult(m, pl, d, r, v, f, res)
    PROVE  \/ Maps(res.m) = Maps(m)
           \/ /\ v \in MapPages /\ Maps(m)[r][v] = NoFrame /\ f \in Frames
              /\ Becomes(m, r, v, f, res.m)
<1>1. \A s \in Roots, u \in MapPages :
         Translate(res.m, s, u) = IF s = r /\ u = v /\ res.ret = 0 THEN f ELSE Translate(m, s, u)
  BY PagesTyped DEF MapResult
<1>2. CASE res.ret # 0 \/ v \notin MapPages
  <2>1. \A s \in Roots, u \in MapPages : Translate(res.m, s, u) = Translate(m, s, u)
    BY <1>1, <1>2
  <2> QED
    BY <2>1, MapsSame
<1>3. CASE res.ret = 0 /\ v \in MapPages
  <2>1. Translate(m, r, v) = NoFrame
    BY <1>3, PagesTyped DEF MapResult
  <2>2. Becomes(m, r, v, f, res.m)
    BY <1>1, <1>3, MapsMade
  <2> QED
    BY <1>3, <2>1, <2>2 DEF Maps
<1> QED
  BY <1>2, <1>3

(* AddressMap has no step that maps two pages: at most one of the two that *)
(* a call of page_map_multiple is for is observed.  The kernel never calls *)
(* it (paging.c:79-86), and without calls the condition is void.           *)
OneObserved ==
    \A v \in MultiplePages : ~(MultiplePage(v, 0) \in MapPages /\ MultiplePage(v, 1) \in MapPages)

LEMMA AbstractInit == IInv /\ Init => Abstract!MapInit
<1> SUFFICES ASSUME IInv, Init PROVE Abstract!MapInit
  OBVIOUS
<1>1. PICK kind : Shape(mem, pool, data, kind)
  BY DEF IInv
<1>2. \A r \in Roots, v \in MapPages : Translate(mem, r, v) \in Frames \cup {NoFrame}
  BY <1>1, Translated, PagesTyped DEF Shape, Typed
<1> QED
  BY <1>2 DEF Abstract!MapInit, IInv

LEMMA AbstractMaps ==
    ASSUME NEW r \in Roots, NEW v \in MapPages, NEW f \in Frames,
           Maps(mem)[r][v] = NoFrame, Becomes(mem, r, v, f, mem'),
           current' = current
    PROVE  Abstract!MapNext
BY DEF Abstract!MapNext, Abstract!Map, Maps, Becomes

LEMMA AbstractStays ==
    ASSUME Maps(mem') = Maps(mem), current' = current
    PROVE  UNCHANGED Abstract!mapVars
BY DEF Abstract!mapVars, Maps

LEMMA AbstractNext == OneObserved /\ IInv /\ [Next]_vars => [Abstract!MapNext]_(Abstract!mapVars)
<1> SUFFICES ASSUME OneObserved, IInv, [Next]_vars
             PROVE  Abstract!MapNext \/ UNCHANGED Abstract!mapVars
  OBVIOUS
<1>0. PICK kind : Shape(mem, pool, data, kind)
  BY DEF IInv
<1>d. data \in SUBSET Frames /\ current \in Roots
  BY <1>0 DEF IInv, Shape, Typed
<1>2. ASSUME NEW r \in Roots, NEW v \in MapPages, NEW f \in data, PageMapInTable(r, v, f)
      PROVE  Abstract!MapNext \/ UNCHANGED Abstract!mapVars
  <2>1. MapResult(mem, pool, data, r, v, f, MapStep(r, v, f)) /\ v \in Quads
    BY <1>2, MapInTableStep, PagesTyped
  <2>2. mem' = MapStep(r, v, f).m /\ current' = current
    BY <1>2 DEF PageMapInTable, MapStep
  <2>3. \/ Maps(mem') = Maps(mem)
        \/ /\ Maps(mem)[r][v] = NoFrame /\ f \in Frames
           /\ Becomes(mem, r, v, f, mem')
    BY <1>d, <2>1, <2>2, MapResultMaps
  <2> QED
    BY <2>2, <2>3, AbstractMaps, AbstractStays
<1>1. ASSUME NEW v \in MapPages, NEW f \in data, PageMap(v, f)
      PROVE  Abstract!MapNext \/ UNCHANGED Abstract!mapVars
  <2>1. PageMapInTable(current, v, f)
    BY <1>1 DEF PageMap, PageMapInTable
  <2> QED
    BY <1>2, <1>d, <2>1
<1>3. CASE UnmapMapped
  <2>1. PICK v \in UnmapPages : Translate(mem, current, v) # NoFrame /\ PageUnmap(v)
    BY <1>3 DEF UnmapMapped
  <2>2. \/ mem' = mem
        \/ \A s \in Roots, u \in Quads : Kernel(u) =>
              Translate(mem', s, u) = IF s = current /\ u = v THEN NoFrame
                                      ELSE Translate(mem, s, u)
    BY <2>1, UnmapStep
  <2>3. current' = current
    BY <2>1 DEF PageUnmap
  <2>4. CASE mem' = mem
    BY <2>3, <2>4, AbstractStays
  <2>5. CASE mem' # mem /\ v \in MapPages
    <3>1. \A s \in Roots, u \in MapPages :
             Translate(mem', s, u) = IF s = current /\ u = v THEN NoFrame ELSE Translate(mem, s, u)
      BY <2>2, <2>5, PagesTyped
    <3>2. Becomes(mem, current, v, NoFrame, mem')
      BY <1>d, <2>5, <3>1, MapsMade
    <3> QED
      BY <2>3, <2>5, <3>2 DEF Abstract!MapNext, Abstract!Unmap, Maps, Becomes
  <2>6. CASE mem' # mem /\ v \notin MapPages
    <3>1. \A s \in Roots, u \in MapPages : Translate(mem', s, u) = Translate(mem, s, u)
      BY <2>2, <2>6, PagesTyped
    <3> QED
      BY <2>3, <3>1, MapsSame, AbstractStays
  <2> QED
    BY <2>4, <2>5, <2>6
<1>4. ASSUME NEW root \in Roots, PageMapSet(root)
      PROVE  Abstract!MapNext \/ UNCHANGED Abstract!mapVars
  BY <1>4 DEF PageMapSet, Abstract!MapNext, Abstract!Switch
<1>5. CASE PhysicalAllocData
  BY <1>5, AbstractStays DEF PhysicalAllocData
<1>6. ASSUME NEW v \in MapPages, Touch(v)
      PROVE  Abstract!MapNext \/ UNCHANGED Abstract!mapVars
  BY <1>6, AbstractStays DEF Touch
<1>7. ASSUME NEW t \in tlb, NEW i \in WriteIdx, Write(t, i)
      PROVE  Abstract!MapNext \/ UNCHANGED Abstract!mapVars
  <2>1. \A s \in Roots, u \in MapPages : Translate(mem', s, u) = Translate(mem, s, u)
    BY <1>7, WriteStep, PagesTyped
  <2> QED
    BY <1>7, <2>1, MapsSame, AbstractStays DEF Write
<1>8. ASSUME NEW v \in MultiplePages, NEW fs \in [1 .. 2 -> data], PageMapMultiple(v, fs)
      PROVE  Abstract!MapNext \/ UNCHANGED Abstract!mapVars
  <2>1. /\ MapResult(mem, pool, data, current, MultiplePage(v, 0), fs[1], First(v, fs))
        /\ First(v, fs).ret # 0 => mem' = First(v, fs).m
        /\ First(v, fs).ret = 0 =>
              /\ mem' = Second(v, fs).m
              /\ MapResult(First(v, fs).m, First(v, fs).pool, data, current,
                           MultiplePage(v, 1), fs[2], Second(v, fs))
    BY <1>8, PageMapMultipleStep
  <2>2. MultiplePage(v, 0) \in Quads /\ MultiplePage(v, 1) \in Quads
    <3>1. v \in Quads
      BY TablesAssumption DEF Quads, Idx
    <3> QED
      BY <3>1, MultiplePageTyped
  <2>3. current' = current /\ fs[1] \in data /\ fs[2] \in data
    BY <1>8 DEF PageMapMultiple
  <2>4. \/ Maps(First(v, fs).m) = Maps(mem)
        \/ /\ MultiplePage(v, 0) \in MapPages
           /\ Maps(mem)[current][MultiplePage(v, 0)] = NoFrame /\ fs[1] \in Frames
           /\ Becomes(mem, current, MultiplePage(v, 0), fs[1], First(v, fs).m)
    BY <1>d, <2>1, <2>2, <2>3, MapResultMaps
  <2>5. CASE First(v, fs).ret # 0
    BY <1>d, <2>1, <2>3, <2>4, <2>5, AbstractMaps, AbstractStays
  <2>6. CASE First(v, fs).ret = 0
    <3>1. \/ Maps(mem') = Maps(First(v, fs).m)
          \/ /\ MultiplePage(v, 1) \in MapPages
             /\ Maps(First(v, fs).m)[current][MultiplePage(v, 1)] = NoFrame /\ fs[2] \in Frames
             /\ Becomes(First(v, fs).m, current, MultiplePage(v, 1), fs[2], mem')
      BY <1>d, <2>1, <2>2, <2>3, <2>6, MapResultMaps
    <3>2. ~(MultiplePage(v, 0) \in MapPages /\ MultiplePage(v, 1) \in MapPages)
      BY DEF OneObserved
    <3>3. CASE Maps(First(v, fs).m) = Maps(mem) /\ Maps(mem') = Maps(mem)
      BY <2>3, <3>3, AbstractStays
    <3>4. CASE /\ MultiplePage(v, 0) \in MapPages
               /\ Maps(mem)[current][MultiplePage(v, 0)] = NoFrame /\ fs[1] \in Frames
               /\ Becomes(mem, current, MultiplePage(v, 0), fs[1], First(v, fs).m)
               /\ Maps(mem') = Maps(First(v, fs).m)
      <4>1. Becomes(mem, current, MultiplePage(v, 0), fs[1], mem')
        BY <3>4, BecomesSame
      <4> QED
        BY <1>d, <2>3, <3>4, <4>1, AbstractMaps
    <3>5. CASE /\ Maps(First(v, fs).m) = Maps(mem)
               /\ MultiplePage(v, 1) \in MapPages
               /\ Maps(First(v, fs).m)[current][MultiplePage(v, 1)] = NoFrame /\ fs[2] \in Frames
               /\ Becomes(First(v, fs).m, current, MultiplePage(v, 1), fs[2], mem')
      <4>1. Becomes(mem, current, MultiplePage(v, 1), fs[2], mem')
        BY <3>5, BecomesSame
      <4> QED
        BY <1>d, <2>3, <3>5, <4>1, AbstractMaps
    <3> QED
      BY <2>4, <3>1, <3>2, <3>3, <3>4, <3>5
  <2> QED
    BY <2>5, <2>6
<1>9. CASE UNCHANGED vars
  BY <1>9, AbstractStays DEF vars
<1> QED
  BY <1>1, <1>2, <1>3, <1>4, <1>5, <1>6, <1>7, <1>8, <1>9 DEF Next

(* Every call of the mapper concerns the translation of the one page it is *)
(* for, in one address space, and writes to mapped pages change none       *)
(* (paging.c:13-76, 88-104).                                               *)
THEOREM Refines == OneObserved => (Spec => ImplementsAddressMap)
<1>1. CASE OneObserved
  <2>1. IInv /\ [Next]_vars => [Abstract!MapNext]_(Abstract!mapVars)
    BY <1>1, AbstractNext
  <2>2. Spec => ImplementsAddressMap
    BY <2>1, InvInit, AbstractInit, Invariant, PTL DEF Spec, ImplementsAddressMap, Abstract!MapSpec
  <2> QED
    BY <2>2
<1> QED
  BY <1>1
=============================================================================
