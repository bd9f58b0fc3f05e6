--------------------------- MODULE WatchTree_proofs ---------------------------
(* Proofs about WatchTree, for any finite tree of paths, any number of inodes,    *)
(* watches, descriptors and users' operations, and users in any haste (Hurry).    *)
EXTENDS WatchTree, FiniteSetTheorems, SequenceTheorems, TLAPS

LEMMA SamePath ==
    ASSUME NEW s \in AnyPath, NEW t \in AnyPath, Len(s) = Len(t),
           \A i \in 1..Len(s) : s[i] = t[i]
    PROVE  s = t
BY DEF AnyPath

LEMMA WithinIs ==
    ASSUME NEW p \in AnyPath, NEW top \in AnyPath
    PROVE  Within(p, top) <=> /\ Len(top) <= Len(p)
                              /\ \A i \in 1..Len(top) : top[i] = p[i]
<1>1. ASSUME Len(top) <= Len(p)
      PROVE  /\ SubSeq(top, 1, Len(top)) = top
             /\ SubSeq(p, 1, Len(top)) \in AnyPath
             /\ Len(SubSeq(p, 1, Len(top))) = Len(top)
             /\ \A i \in 1..Len(top) : SubSeq(p, 1, Len(top))[i] = p[i]
  BY <1>1 DEF AnyPath
<1>2. CASE Len(top) <= Len(p)
  BY <1>1, <1>2, SamePath DEF Within, IsPrefix
<1>3. CASE ~(Len(top) <= Len(p))
  BY <1>3 DEF Within, IsPrefix
<1> QED BY <1>2, <1>3

LEMMA PieceIs ==
    ASSUME NEW s \in AnyPath, NEW m \in 1..Len(s) + 1, NEW n \in 0..Len(s), m <= n + 1
    PROVE  /\ SubSeq(s, m, n) \in AnyPath
           /\ Len(SubSeq(s, m, n)) = n - m + 1
           /\ \A i \in 1..n - m + 1 : SubSeq(s, m, n)[i] = s[m + i - 1]
<1>1. Len(s) \in Nat /\ m \in Int /\ n \in Int /\ \A i \in m..n : s[i] \in Names \cup {"none"}
  BY DEF AnyPath
<1> QED BY <1>1, SubSeqProperties DEF AnyPath

Rebased(x, p, a, b) ==
    /\ x \in AnyPath /\ Len(x) = Len(b) + Len(p) - Len(a)
    /\ \A i \in 1..Len(b) : x[i] = b[i]
    /\ \A i \in Len(b) + 1..Len(x) : x[i] = p[i - Len(b) + Len(a)]

LEMMA RebaseIs ==
    ASSUME NEW p \in AnyPath, NEW a \in AnyPath, NEW b \in AnyPath, Len(a) <= Len(p)
    PROVE  Rebased(Rebase(p, a, b), p, a, b)
<1>0. /\ Len(a) + 1 \in 1..Len(p) + 1 /\ Len(p) \in 0..Len(p) /\ Len(a) \in Nat
      /\ Len(p) \in Nat /\ Len(a) + 1 <= Len(p) + 1
  BY DEF AnyPath
<1>1. PICK r \in AnyPath : r = SubSeq(p, Len(a) + 1, Len(p))
  BY <1>0, PieceIs
<1>2. Len(r) = Len(p) - Len(a) /\ \A i \in 1..Len(r) : r[i] = p[i + Len(a)]
  <2>1. /\ Len(SubSeq(p, Len(a) + 1, Len(p))) = Len(p) - (Len(a) + 1) + 1
        /\ \A i \in 1..Len(p) - (Len(a) + 1) + 1 :
               SubSeq(p, Len(a) + 1, Len(p))[i] = p[(Len(a) + 1) + i - 1]
    BY <1>0, PieceIs
  <2>2. \A i \in Int : (Len(a) + 1) + i - 1 = i + Len(a)
    BY <1>0
  <2> QED BY <1>0, <1>1, <2>1, <2>2
<1>3. b \o r \in AnyPath /\ Len(b \o r) = Len(b) + Len(r)
  BY DEF AnyPath
<1>4. \A i \in 1..Len(b) : (b \o r)[i] = b[i]
  BY DEF AnyPath
<1>5. \A i \in Len(b)+1..Len(b) + Len(r) : (b \o r)[i] = r[i - Len(b)]
  BY DEF AnyPath
<1>6. \A i \in Len(b)+1..Len(b) + Len(r) : i - Len(b) \in 1..Len(r)
  BY <1>2 DEF AnyPath
<1>7. \A i \in Len(b)+1..Len(b) + Len(r) : (b \o r)[i] = p[i - Len(b) + Len(a)]
  BY <1>2, <1>5, <1>6 DEF AnyPath
<1>8. Rebased(b \o r, p, a, b)
  BY <1>0, <1>2, <1>3, <1>4, <1>7 DEF Rebased
<1> QED BY <1>1, <1>8 DEF Rebase

LEMMA RebaseBack ==
    ASSUME NEW p \in AnyPath, NEW a \in AnyPath, NEW b \in AnyPath, Within(p, a)
    PROVE  /\ Rebase(p, a, b) \in AnyPath
           /\ Within(Rebase(p, a, b), b)
           /\ Rebase(Rebase(p, a, b), b, a) = p
<1>1. Len(a) <= Len(p) /\ \A i \in 1..Len(a) : a[i] = p[i]
  BY WithinIs
<1>2. PICK r \in AnyPath : r = Rebase(p, a, b) /\ Rebased(r, p, a, b)
  <2>1. Rebased(Rebase(p, a, b), p, a, b)
    BY <1>1, RebaseIs
  <2> QED BY <2>1 DEF Rebased
<1>3. Len(a) \in Nat /\ Len(b) \in Nat /\ Len(p) \in Nat /\ Len(b) <= Len(r)
  BY <1>1, <1>2 DEF AnyPath, Rebased
<1>4. Within(r, b)
  BY <1>1, <1>2, <1>3, WithinIs DEF Rebased
<1>5. PICK x \in AnyPath : x = Rebase(r, b, a) /\ Rebased(x, r, b, a)
  <2>1. Rebased(Rebase(r, b, a), r, b, a)
    BY <1>3, RebaseIs
  <2> QED BY <2>1 DEF Rebased
<1>6. Len(x) = Len(p) /\ \A i \in 1..Len(x) : x[i] = p[i]
  <2>1. Len(x) = Len(p)
    BY <1>2, <1>3, <1>5 DEF Rebased
  <2> SUFFICES ASSUME NEW i \in 1..Len(x) PROVE x[i] = p[i]
    BY <2>1
  <2>2. CASE i \in 1..Len(a)
    BY <2>2, <1>1, <1>5 DEF Rebased
  <2>3. CASE i \notin 1..Len(a)
    <3>1. /\ i \in Len(a) + 1..Len(x) /\ i - Len(a) + Len(b) \in Len(b) + 1..Len(r)
          /\ (i - Len(a) + Len(b)) - Len(b) + Len(a) = i
      BY <2>1, <2>3, <1>2, <1>3 DEF Rebased
    <3> QED BY <3>1, <1>2, <1>5 DEF Rebased
  <2> QED BY <2>2, <2>3
<1>7. x = p
  BY <1>6, SamePath
<1> QED BY <1>2, <1>4, <1>5, <1>7

\* Two tops of one path lie one within the other; within is transitive.
LEMMA WithinOrder ==
    ASSUME NEW p \in AnyPath, NEW a \in AnyPath, NEW b \in AnyPath
    PROVE  /\ Within(p, a) /\ Within(p, b) => Within(a, b) \/ Within(b, a)
           /\ Within(p, a) /\ Within(a, b) => Within(p, b)
           /\ Within(p, a) /\ Within(a, p) => p = a
           /\ Within(p, p)
<1>1. Len(a) \in Nat /\ Len(b) \in Nat /\ Len(p) \in Nat
  BY DEF AnyPath
<1> QED BY <1>1, WithinIs, SamePath

LEMMA RebaseKeeps ==
    ASSUME NEW p \in AnyPath, NEW z \in AnyPath, NEW a \in AnyPath, NEW b \in AnyPath,
           Within(p, z), Within(z, a)
    PROVE  /\ Within(Rebase(p, a, b), Rebase(z, a, b))
           /\ Rebase(p, a, b) = Rebase(z, a, b) => p = z
<1>1. Within(p, a)
  BY WithinOrder
<1>2. /\ Len(a) \in Nat /\ Len(b) \in Nat /\ Len(p) \in Nat /\ Len(z) \in Nat
      /\ Len(a) <= Len(z) /\ Len(z) <= Len(p) /\ Len(a) <= Len(p)
      /\ \A i \in 1..Len(z) : z[i] = p[i]
  BY WithinIs DEF AnyPath
<1>3. PICK r \in AnyPath : r = Rebase(p, a, b) /\ Rebased(r, p, a, b)
  <2>1. Rebased(Rebase(p, a, b), p, a, b)
    BY <1>2, RebaseIs
  <2> QED BY <2>1 DEF Rebased
<1>4. PICK s \in AnyPath : s = Rebase(z, a, b) /\ Rebased(s, z, a, b)
  <2>1. Rebased(Rebase(z, a, b), z, a, b)
    BY <1>2, RebaseIs
  <2> QED BY <2>1 DEF Rebased
<1>5. \A i \in 1..Len(s) : s[i] = r[i]
  <2> TAKE i \in 1..Len(s)
  <2>1. CASE i \in 1..Len(b)
    BY <2>1, <1>3, <1>4 DEF Rebased
  <2>2. CASE i \notin 1..Len(b)
    <3>1. /\ i \in Len(b) + 1..Len(s) /\ i \in Len(b) + 1..Len(r)
          /\ i - Len(b) + Len(a) \in 1..Len(z)
      BY <2>2, <1>2, <1>3, <1>4 DEF Rebased
    <3> QED BY <3>1, <1>2, <1>3, <1>4 DEF Rebased
  <2> QED BY <2>1, <2>2
<1>6. Len(s) <= Len(r)
  BY <1>2, <1>3, <1>4 DEF Rebased
<1>7. Within(r, s)
  BY <1>5, <1>6, WithinIs
<1>8. r = s => p = z
  <2>1. Rebase(Rebase(p, a, b), b, a) = p /\ Rebase(Rebase(z, a, b), b, a) = z
    BY <1>1, RebaseBack
  <2> QED BY <1>3, <1>4, <2>1
<1> QED BY <1>3, <1>4, <1>7, <1>8

LEMMA ParentIs ==
    ASSUME NEW p \in AnyPath, p # Root
    PROVE  /\ Parent(p) \in AnyPath /\ Len(Parent(p)) = Len(p) - 1
           /\ Within(p, Parent(p)) /\ p # Parent(p)
           /\ \A z \in AnyPath : Within(p, z) /\ p # z => Within(Parent(p), z)
<1>1. Len(p) \in Nat \ {0}
  BY DEF AnyPath, Root
<1>0. /\ SubSeq(p, 1, Len(p) - 1) \in AnyPath
      /\ Len(SubSeq(p, 1, Len(p) - 1)) = (Len(p) - 1) - 1 + 1
      /\ \A i \in 1..(Len(p) - 1) - 1 + 1 : SubSeq(p, 1, Len(p) - 1)[i] = p[1 + i - 1]
  <2>1. 1 \in 1..Len(p) + 1 /\ Len(p) - 1 \in 0..Len(p) /\ 1 <= (Len(p) - 1) + 1
    BY <1>1
  <2> QED BY <2>1, PieceIs
<1>2. PICK f \in AnyPath : f = Parent(p)
  BY <1>0 DEF Parent, Front
<1>3. Len(f) = Len(p) - 1 /\ \A i \in 1..Len(f) : f[i] = p[i]
  <2>1. f = SubSeq(p, 1, Len(p) - 1)
    BY <1>2 DEF Parent, Front
  <2>2. \A i \in Int : 1 + i - 1 = i
    OBVIOUS
  <2> QED BY <1>0, <1>1, <2>1, <2>2
<1>4. Within(p, f) /\ p # f
  BY <1>1, <1>3, WithinIs
<1>5. ASSUME NEW z \in AnyPath, Within(p, z), p # z
      PROVE  Within(f, z)
  <2>1. Len(z) \in Nat /\ Len(z) <= Len(p) /\ \A i \in 1..Len(z) : z[i] = p[i]
    BY <1>5, WithinIs DEF AnyPath
  <2>2. Len(z) # Len(p)
    BY <1>5, <2>1, SamePath
  <2> QED BY <1>1, <1>3, <2>1, <2>2, WithinIs
<1> QED BY <1>2, <1>3, <1>4, <1>5

LEMMA NamesAre ==
    /\ Paths \subseteq AnyPath /\ DirPaths \subseteq Paths
    /\ \A p \in Paths \ {Root} : Last(p) \in Names
<1>1. ASSUME NEW p \in Paths
      PROVE  p \in AnyPath
  <2>1. p \in Seq(STRING) /\ Len(p) \in Nat
    BY ConstantsAssumption
  <2>2. ASSUME NEW i \in 1..Len(p)
        PROVE  p[i] \in Names
    <3>1. /\ SubSeq(p, 1, i) \in Seq(STRING)
          /\ Len(SubSeq(p, 1, i)) = i
          /\ SubSeq(p, 1, i)[i] = p[i]
      <4>1. /\ 1 \in Int /\ i \in Int /\ 1 <= i /\ i - 1 + 1 = i /\ 1 + i - 1 = i
            /\ \A k \in 1..i : p[k] \in STRING
        BY <2>1
      <4>2. /\ SubSeq(p, 1, i) \in Seq(STRING)
            /\ Len(SubSeq(p, 1, i)) = i
            /\ \A k \in 1..i - 1 + 1 : SubSeq(p, 1, i)[k] = p[1 + k - 1]
        BY <4>1, SubSeqProperties
      <4>3. i \in 1..i - 1 + 1
        BY <4>1
      <4> QED BY <4>1, <4>2, <4>3
    <3>2. SubSeq(p, 1, i) \in Paths
      BY <2>1, ConstantsAssumption
    <3>3. SubSeq(p, 1, i) # Root
      BY <3>1 DEF Root
    <3>4. Last(SubSeq(p, 1, i)) = p[i]
      BY <3>1 DEF Last
    <3> QED BY <3>2, <3>3, <3>4 DEF Names
  <2>3. p \in [1..Len(p) -> Names \cup {"none"}]
    BY <2>1, <2>2
  <2> QED BY <2>1, <2>3 DEF AnyPath
<1>2. DirPaths \subseteq Paths
  BY DEF DirPaths
<1> QED BY <1>1, <1>2 DEF Names

\* Paths has every prefix, and what is above a path is a directory.
LEMMA PathsAbove ==
    ASSUME NEW p \in Paths, NEW z \in AnyPath, Within(p, z)
    PROVE  /\ z \in Paths /\ p \in AnyPath
           /\ p # z => z \in DirPaths
           /\ p # z => \E x \in Paths \ {Root} : Parent(x) = z /\ Within(p, x)
<1>1. p \in AnyPath
  BY NamesAre
<1>2. ASSUME NEW q \in AnyPath, Within(p, q)
      PROVE  q \in Paths
  <2>1. Len(q) \in 0..Len(p) /\ \A i \in 1..Len(q) : q[i] = p[i]
    BY <1>1, <1>2, WithinIs DEF AnyPath
  <2>2. /\ SubSeq(p, 1, Len(q)) \in AnyPath
        /\ Len(SubSeq(p, 1, Len(q))) = Len(q) - 1 + 1
        /\ \A i \in 1..Len(q) - 1 + 1 : SubSeq(p, 1, Len(q))[i] = p[1 + i - 1]
    <3>1. 1 \in 1..Len(p) + 1 /\ 1 <= Len(q) + 1
      BY <1>1, <2>1 DEF AnyPath
    <3> QED BY <1>1, <2>1, <3>1, PieceIs
  <2>3. PICK x \in AnyPath : x = SubSeq(p, 1, Len(q))
    BY <2>2
  <2>4. Len(x) = Len(q) /\ \A i \in 1..Len(q) : x[i] = q[i]
    BY <2>1, <2>2, <2>3
  <2>5. x = q
    BY <2>4, SamePath
  <2>6. SubSeq(p, 1, Len(q)) \in Paths
    BY <2>1, ConstantsAssumption
  <2> QED BY <2>3, <2>5, <2>6
<1>3. ASSUME p # z
      PROVE  \E x \in Paths \ {Root} : Parent(x) = z /\ Within(p, x)
  <2>1. Len(z) \in Nat /\ Len(z) < Len(p) /\ Len(p) \in Nat
        /\ \A i \in 1..Len(z) : z[i] = p[i]
    BY <1>1, <1>3, WithinIs, SamePath DEF AnyPath
  <2>2. /\ SubSeq(p, 1, Len(z) + 1) \in AnyPath
        /\ Len(SubSeq(p, 1, Len(z) + 1)) = (Len(z) + 1) - 1 + 1
        /\ \A i \in 1..(Len(z) + 1) - 1 + 1 : SubSeq(p, 1, Len(z) + 1)[i] = p[1 + i - 1]
    <3>1. 1 \in 1..Len(p) + 1 /\ 1 <= (Len(z) + 1) + 1 /\ Len(z) + 1 \in 0..Len(p)
      BY <2>1
    <3> QED BY <1>1, <3>1, PieceIs
  <2>3. PICK x \in AnyPath : x = SubSeq(p, 1, Len(z) + 1)
    BY <2>2
  <2>4. Len(x) = Len(z) + 1 /\ \A i \in 1..Len(x) : x[i] = p[i]
    <3>1. \A i \in Int : 1 + i - 1 = i
      OBVIOUS
    <3> QED BY <2>1, <2>2, <2>3, <3>1
  <2>5. x \in Paths /\ x # Root
    <3>1. Len(z) + 1 \in 0..Len(p)
      BY <2>1
    <3>2. SubSeq(p, 1, Len(z) + 1) \in Paths
      BY <3>1, ConstantsAssumption
    <3> QED BY <2>1, <2>3, <2>4, <3>2 DEF Root
  <2>6. Parent(x) \in AnyPath /\ Len(Parent(x)) = Len(z) /\ Within(x, Parent(x))
    BY <2>1, <2>4, <2>5, ParentIs
  <2>7. \A i \in 1..Len(z) : Parent(x)[i] = z[i]
    BY <2>1, <2>4, <2>6, WithinIs
  <2>8. Parent(x) = z
    BY <2>6, <2>7, SamePath
  <2>9. Within(p, x)
    BY <1>1, <2>1, <2>4, WithinIs
  <2> QED BY <2>5, <2>8, <2>9
<1>4. ASSUME p # z
      PROVE  z \in DirPaths
  BY <1>3, <1>4, ConstantsAssumption DEF Parent
<1> QED BY <1>1, <1>2, <1>3, <1>4

LEMMA SeqOfSet ==
    ASSUME NEW S, IsFiniteSet(S)
    PROVE  /\ SetToSeq(S) \in Seq(S)
           /\ \A n \in 1..Cardinality(S) : SetToSeq(S)[n] \in S
<1>1. Cardinality(S) \in Nat /\ ExistsBijection(1..Cardinality(S), S)
  BY FS_CardinalityType
<1>2. \E f \in [1..Cardinality(S) -> S] : IsInjective(f)
  BY <1>1 DEF ExistsBijection, Bijection, Injection, IsInjective
<1>3. SetToSeq(S) \in [1..Cardinality(S) -> S]
  BY <1>2 DEF SetToSeq
<1>4. SetToSeq(S) \in Seq(S)
  BY <1>1, <1>3
<1> QED BY <1>3, <1>4

-------------------------------------------------------------------------------
(* The inductive invariant, by the part of the state it is about.            *)

\* A notice but that of an overflow names a watch, and the half of a rename its cookie.
Letter == {n \in Notice : /\ n.what # "OVERFLOW" => n.wd \in Wds
                          /\ n.what \in {"FROM", "TO"} => n.cookie \in Cookies}

\* The disk is a tree: what is above a thing that exists is a directory.
DiskOK == /\ disk \in [Paths -> {None, FileEntry} \cup Inodes]
          /\ \A p \in Exists, q \in Paths : Under(p, q) => IsDir(q)

KernelOK == /\ mark \in [Inodes -> 0..MaxWd] /\ nextWd \in 1..(MaxWd + 1)
            /\ kq \in Seq(Letter)

TreeOK == /\ byWd \in [Wds -> AnyPath] /\ byPath \in [DirPaths -> 0..MaxWd]
          /\ Registry

\* A walk that reads a directory has one to read, and one that registers a watch
\* has placed it.
WorkOK == /\ pending \in [Cookies -> Half]
          /\ job \in [Jobs -> Task] /\ placed \in [Jobs -> 0..MaxWd]
          /\ \A j \in Jobs :
                 /\ job[j].at \in {"read", "scan", "register"} => job[j].todo # << >>
                 /\ job[j].at = "register" => placed[j] \in Wds

RestOK == /\ view \subseteq Paths /\ ops \in 0..MaxOps
          /\ rootGone \in BOOLEAN /\ resync \in BOOLEAN /\ fatal \in BOOLEAN
          /\ stopped \in BOOLEAN /\ blind \in BOOLEAN

Inv == DiskOK /\ KernelOK /\ TreeOK /\ WorkOK /\ RestOK

LEMMA LettersAreNotices == ASSUME NEW s \in Seq(Letter) PROVE s \in Seq(Notice)
BY DEF Letter

LEMMA InvImplies == Inv => TypeOK /\ Registry
BY LettersAreNotices DEF Inv, DiskOK, KernelOK, TreeOK, WorkOK, RestOK, TypeOK

LEMMA InitPaths ==
    /\ Root \in AnyPath /\ NoPath \in AnyPath
    /\ NoPath # Root /\ Root \in Paths /\ Root \in DirPaths
<1>1. NoPath \in AnyPath
  BY DEF AnyPath, NoPath
<1>2. Root \in AnyPath
  BY DEF AnyPath, Root
<1>3. Root \in Paths /\ NoPath # Root /\ Root \in DirPaths
  BY ConstantsAssumption DEF DirPaths, IsFile
<1> QED BY <1>1, <1>2, <1>3

LEMMA InitHolds == Init => Inv
<1> SUFFICES ASSUME Init PROVE Inv
  OBVIOUS
<1>1. 1 \in Inodes /\ 1 \in Wds /\ 1 \in 0..MaxWd /\ 2 \in 1..(MaxWd + 1)
  BY ConstantsAssumption DEF Inodes, Wds
<1>2. /\ Root \in AnyPath /\ NoPath \in AnyPath
      /\ NoPath # Root /\ Root \in Paths /\ Root \in DirPaths
  BY InitPaths
<1>3. DiskOK
  <2>1. Exists = {}
    BY DEF Init, Exists
  <2> QED BY <1>1, <1>2, <2>1 DEF Init, DiskOK, None
<1>4. KernelOK
  <2>1. kq \in Seq(Letter) /\ nextWd \in 1..(MaxWd + 1)
    BY <1>1 DEF Init
  <2>2. mark \in [Inodes -> 0..MaxWd]
    BY <1>1, ConstantsAssumption DEF Init, None
  <2> QED BY <2>1, <2>2 DEF KernelOK
<1>5. TreeOK
  <2>1. byWd \in [Wds -> AnyPath]
    BY <1>2 DEF Init
  <2>2. byPath \in [DirPaths -> 0..MaxWd]
    BY <1>1, ConstantsAssumption DEF Init, None
  <2>3. Registry
    BY <1>1 DEF Init, Registry, None
  <2> QED BY <2>1, <2>2, <2>3 DEF TreeOK
<1>6. WorkOK
  <2>1. NoHalf \in Half
    BY <1>2 DEF NoHalf, Half
  <2>2. Idle \in Task /\ Idle.at = "idle"
    BY <1>2 DEF Idle, Task
  <2>3. pending \in [Cookies -> Half]
    BY <2>1 DEF Init
  <2>4. job \in [Jobs -> Task] /\ \A j \in Jobs : job[j].at = "idle"
    BY <2>2 DEF Init
  <2>5. placed \in [Jobs -> 0..MaxWd]
    BY ConstantsAssumption DEF Init, None
  <2> QED BY <2>3, <2>4, <2>5 DEF WorkOK
<1>7. RestOK
  <2>1. ops \in 0..MaxOps
    BY ConstantsAssumption DEF Init
  <2>2. view \subseteq Paths /\ rootGone \in BOOLEAN /\ resync \in BOOLEAN
    BY DEF Init
  <2>3. fatal \in BOOLEAN /\ stopped \in BOOLEAN /\ blind \in BOOLEAN
    BY DEF Init
  <2> QED BY <2>1, <2>2, <2>3 DEF RestOK
<1> QED BY <1>3, <1>4, <1>5, <1>6, <1>7 DEF Inv

-------------------------------------------------------------------------------
(* What users do to the disk.                                                *)

Disks == [Paths -> {None, FileEntry} \cup Inodes]

LEMMA FileEntryIs == FileEntry # None /\ FileEntry \notin Inodes /\ None \notin Inodes
BY ConstantsAssumption DEF FileEntry, None, Inodes

LEMMA ParentIsDir ==
    ASSUME DiskOK, NEW p \in Paths \ {Root}, p \in Exists \/ IsDir(Parent(p))
    PROVE  Parent(p) \in Paths /\ IsDir(Parent(p))
<1>1. p \in AnyPath /\ p # Root
  BY NamesAre
<1>2. Parent(p) \in AnyPath /\ Within(p, Parent(p)) /\ p # Parent(p)
  BY <1>1, ParentIs
<1>3. Parent(p) \in Paths
  BY <1>2, PathsAbove
<1> QED BY <1>2, <1>3 DEF DiskOK, Under, Within, IsStrictPrefix

\* Above a directory there are directories.
LEMMA DirsAbove ==
    ASSUME DiskOK, NEW y \in Paths, NEW z \in Paths, IsDir(y), Within(y, z)
    PROVE  IsDir(z)
<1>1. y \in AnyPath /\ z \in AnyPath
  BY NamesAre
<1>2. CASE y = z
  BY <1>2
<1>3. CASE y # z
  <2>1. y # Root
    BY <1>1, <1>3, WithinIs, SamePath DEF Root, AnyPath
  <2>2. y \in Exists
    BY <2>1, FileEntryIs DEF IsDir, Exists
  <2> QED BY <2>2, <1>3 DEF DiskOK, Under, Within, IsStrictPrefix
<1> QED BY <1>2, <1>3

\* A place that is made, with at most files put in it, where the parent is a directory.
LEMMA DiskGrows ==
    ASSUME DiskOK, NEW p \in Paths \ {Root}, IsDir(Parent(p)), disk[p] = None,
           NEW d \in Disks,
           \A x \in Paths : \/ d[x] = disk[x]
                            \/ x = p
                            \/ IsFile(x) /\ Parent(x) = p /\ x # Root /\ d[p] \in Inodes,
           disk' = d
    PROVE  DiskOK'
<1> SUFFICES ASSUME NEW x \in Exists', NEW q \in Paths, Under(x, q)
             PROVE  IsDir(q)'
  BY DEF DiskOK, Disks, Under, IsStrictPrefix
<1>1. x \in Paths \ {Root} /\ x \in AnyPath /\ q \in AnyPath /\ p \in AnyPath
  BY NamesAre DEF Exists
<1>2. Within(x, q) /\ x # q
  BY DEF Under, Within, IsStrictPrefix
<1>3. q \in DirPaths /\ ~IsFile(q)
  BY <1>1, <1>2, PathsAbove DEF DirPaths
<1>4. ASSUME IsDir(q) PROVE IsDir(q)'
  BY <1>3, <1>4, FileEntryIs DEF IsDir, Disks
<1>5. CASE d[x] = disk[x]
  <2>1. x \in Exists
    BY <1>5 DEF Exists
  <2> QED BY <2>1, <1>4 DEF DiskOK
<1>6. CASE x = p
  <2>1. Within(Parent(p), q) /\ Parent(p) \in Paths
    BY <1>1, <1>2, <1>6, ParentIs DEF IsDir
  <2> QED BY <2>1, <1>4, DirsAbove
<1>7. CASE IsFile(x) /\ Parent(x) = p /\ d[p] \in Inodes
  <2>1. Within(p, q)
    BY <1>1, <1>2, <1>7, ParentIs
  <2>2. CASE q = p
    BY <2>2, <1>7 DEF IsDir
  <2>3. CASE q # p
    <3>1. Within(Parent(p), q) /\ Parent(p) \in Paths
      BY <1>1, <2>1, <2>3, ParentIs DEF IsDir
    <3> QED BY <3>1, <1>4, DirsAbove
  <2> QED BY <2>2, <2>3
<1> QED BY <1>1, <1>5, <1>6, <1>7

\* Things that are gone, with nothing left below them.
LEMMA DiskShrinks ==
    ASSUME DiskOK, NEW d \in Disks,
           \A x \in Paths : d[x] = disk[x] \/ d[x] = None,
           \A x, q \in Paths : x \in Exists /\ d[q] # disk[q] /\ Under(x, q) => d[x] = None,
           disk' = d
    PROVE  DiskOK'
<1> SUFFICES ASSUME NEW x \in Exists', NEW q \in Paths, Under(x, q)
             PROVE  IsDir(q)'
  BY DEF DiskOK, Disks, Under, IsStrictPrefix
<1>1. x \in Paths /\ x \in Exists /\ d[x] # None
  BY DEF Exists
<1>2. IsDir(q) /\ d[q] = disk[q]
  BY <1>1 DEF DiskOK
<1> QED BY <1>2 DEF IsDir

\* What has no children has nothing below it.
LEMMA Childless ==
    ASSUME DiskOK, NEW p \in Paths, disk[p] = None \/ IsFile(p) \/ Children(p) = {},
           NEW x \in Exists
    PROVE  ~Under(x, p)
<1> SUFFICES ASSUME Under(x, p) PROVE FALSE
  OBVIOUS
<1>1. x \in Paths /\ p \in AnyPath /\ Within(x, p) /\ x # p
  BY NamesAre DEF Exists, Under, Within, IsStrictPrefix
<1>2. IsDir(p) /\ disk[p] # None
  BY FileEntryIs DEF DiskOK, IsDir
<1>3. p \in DirPaths /\ ~IsFile(p)
  BY <1>1, PathsAbove DEF DirPaths
<1>4. PICK c \in Paths \ {Root} : Parent(c) = p /\ Within(x, c)
  BY <1>1, PathsAbove
<1>5. CASE c = x
  BY <1>2, <1>3, <1>4, <1>5 DEF Children
<1>6. CASE c # x
  <2>1. IsDir(c)
    BY <1>4, <1>6 DEF DiskOK, Under, Within, IsStrictPrefix
  <2> QED BY <1>2, <1>3, <1>4, <2>1, FileEntryIs DEF Children, Exists, IsDir
<1> QED BY <1>5, <1>6

\* A rename keeps the tree a tree.
LEMMA DiskMoves ==
    ASSUME DiskOK, NEW p \in Paths, NEW q \in Paths, CanMove(p, q), disk' = Moved(p, q)
    PROVE  DiskOK'
<1>1. /\ p \in Exists /\ p # Root /\ q # Root /\ p \in AnyPath /\ q \in AnyPath
      /\ ~Within(q, p) /\ IsDir(Parent(q))
      /\ \A x \in Exists : Within(x, p) => Rebase(x, p, q) \in Paths
  BY NamesAre DEF CanMove, FreeName, Exists
<1>2. \A x \in Exists : ~Under(x, q)
  BY <1>1, Childless DEF CanMove
<1>3. disk' \in Disks
  BY DEF DiskOK, Disks, Moved
<1>4. ASSUME NEW x \in Paths, NEW z \in AnyPath, Within(x, z)
      PROVE  z \in Paths /\ x \in AnyPath
  BY <1>4, PathsAbove
\* What is new at x was at s, or has been at x already.
<1>5. ASSUME NEW x \in Paths, disk'[x] # None, Within(x, q)
      PROVE  LET s == Rebase(x, q, p) IN s \in Paths /\ disk'[x] = disk[s]
  <2>1. x \in AnyPath /\ x # Root
    BY <1>1, <1>5, NamesAre, WithinIs DEF Root, AnyPath
  <2>2. CASE Rebase(x, q, p) \in Paths
    BY <1>5, <2>2 DEF Moved
  <2>3. CASE Rebase(x, q, p) \notin Paths
    <3>1. disk'[x] = disk[x]
      BY <1>5, <2>3 DEF Moved
    <3>2. x \in Exists
      BY <2>1, <1>5, <3>1 DEF Exists
    <3>3. x = q
      BY <1>2, <1>5, <3>2 DEF Under, Within, IsStrictPrefix
    <3>4. Rebase(q, q, p) = p
      <4>1. Rebased(Rebase(q, q, p), q, q, p)
        BY <1>1, RebaseIs DEF AnyPath
      <4>2. PICK r \in AnyPath : r = Rebase(q, q, p) /\ Rebased(r, q, q, p)
        BY <4>1 DEF Rebased
      <4>3. Len(r) = Len(p) /\ \A i \in 1..Len(r) : r[i] = p[i]
        BY <1>1, <4>2 DEF Rebased, AnyPath
      <4> QED BY <1>1, <4>2, <4>3, SamePath
    <3> QED BY <2>3, <3>3, <3>4
  <2> QED BY <2>2, <2>3
<1>6. ASSUME NEW z \in Paths, IsDir(z), ~Within(z, q), ~Within(z, p)
      PROVE  IsDir(z)'
  BY <1>6 DEF IsDir, Moved
<1> SUFFICES ASSUME NEW x \in Exists', NEW z \in Paths, Under(x, z)
             PROVE  IsDir(z)'
  BY <1>3 DEF DiskOK, Disks, Under, IsStrictPrefix
<1>7. x \in Paths \ {Root} /\ x \in AnyPath /\ z \in AnyPath /\ disk'[x] # None
  BY NamesAre DEF Exists
<1>8. Within(x, z) /\ x # z
  BY DEF Under, Within, IsStrictPrefix
<1>9. CASE Within(x, q)
  <2>1. CASE Within(z, q)
    <3>1. PICK s \in Paths : s = Rebase(x, q, p) /\ disk'[x] = disk[s]
      BY <1>5, <1>7, <1>9
    <3>2. PICK t \in AnyPath : t = Rebase(z, q, p)
      BY <1>1, <1>7, <2>1, RebaseBack
    <3>3. Within(s, t) /\ s # t
      BY <1>1, <1>7, <1>8, <2>1, <3>1, <3>2, RebaseKeeps
    <3>4. Within(t, p)
      BY <1>1, <1>7, <2>1, <3>2, RebaseBack
    <3>5. t \in Paths /\ s # Root
      <4>1. t \in Paths /\ s \in AnyPath
        BY <1>4, <3>2, <3>3
      <4>2. s # Root
        BY <3>2, <3>3, <4>1, WithinIs, SamePath DEF Root, AnyPath
      <4> QED BY <4>1, <4>2
    <3>6. IsDir(t)
      BY <1>7, <3>1, <3>3, <3>5 DEF DiskOK, Exists, Under, Within, IsStrictPrefix
    <3> QED BY <2>1, <3>2, <3>5, <3>6 DEF IsDir, Moved
  <2>2. CASE ~Within(z, q)
    <3>1. Within(q, z) /\ q # z
      BY <1>1, <1>7, <1>8, <1>9, <2>2, WithinOrder
    <3>2. Within(Parent(q), z) /\ Parent(q) \in Paths
      BY <1>1, <1>7, <3>1, ParentIs DEF IsDir
    <3>3. IsDir(z)
      BY <1>1, <3>2, DirsAbove
    <3>4. ~Within(z, p)
      BY <1>1, <1>7, <3>1, WithinOrder
    <3> QED BY <1>6, <2>2, <3>3, <3>4
  <2> QED BY <2>1, <2>2
<1>10. CASE ~Within(x, q)
  <2>1. ~Within(x, p) /\ disk'[x] = disk[x]
    BY <1>7, <1>10 DEF Moved
  <2>2. x \in Exists
    BY <1>7, <2>1 DEF Exists
  <2>3. ~Within(z, q) /\ ~Within(z, p)
    BY <1>1, <1>7, <1>8, <1>10, <2>1, WithinOrder
  <2> QED BY <1>6, <2>2, <2>3 DEF DiskOK
<1> QED BY <1>9, <1>10

-------------------------------------------------------------------------------
(* What the kernel queues.                                                   *)

LEMMA LettersOfUsers ==
    ASSUME Inv
    PROVE  /\ \A p \in Paths \ {Root}, what \in {"CREATE", "DELETE"} :
                  IsDir(Parent(p)) => Told(p, what, 0) \in Seq(Letter)
           /\ \A p \in Paths \ {Root}, what \in {"FROM", "TO"}, c \in Cookies :
                  IsDir(Parent(p)) => Told(p, what, c) \in Seq(Letter)
           /\ \A i \in Inodes, what \in {"DELETE", "MOVED", "IGNORED"} :
                  ToldSelf(i, what) \in Seq(Letter)
           /\ \A p \in Paths : Destroyed(p) \in Seq(Letter)
           /\ \A w \in Wds : Ignored(w) \in Letter
           /\ Overflowed \in Letter
<1>1. mark \in [Inodes -> 0..MaxWd] /\ \A w \in 0..MaxWd : w # None => w \in Wds
  BY ConstantsAssumption DEF Inv, KernelOK, Wds, None
<1>2. 0 \in Jobs /\ Cookies \subseteq Jobs /\ None \in 0..MaxWd /\ Wds \subseteq 0..MaxWd
  BY ConstantsAssumption DEF Jobs, Cookies, None, Wds
<1>3. ASSUME NEW p \in Paths \ {Root}, IsDir(Parent(p)), NEW c \in Jobs,
             NEW what \in {"CREATE", "DELETE", "FROM", "TO"},
             what \in {"FROM", "TO"} => c \in Cookies
      PROVE  Told(p, what, c) \in Seq(Letter)
  <2>1. PICK w \in 0..MaxWd : w = mark[disk[Parent(p)]]
    BY <1>1, <1>3 DEF IsDir
  <2>2. CASE w = None
    BY <2>1, <2>2 DEF Told
  <2>3. CASE w # None
    <3>1. [wd |-> w, what |-> what, name |-> Last(p), cookie |-> c] \in Letter
      BY <1>1, <1>3, <2>3, NamesAre DEF Letter, Notice
    <3> QED BY <2>1, <2>3, <3>1 DEF Told
  <2> QED BY <2>2, <2>3
<1>4. ASSUME NEW i \in Inodes, NEW what \in {"DELETE", "MOVED", "IGNORED"}
      PROVE  ToldSelf(i, what) \in Seq(Letter)
  <2>1. CASE mark[i] = None
    BY <2>1 DEF ToldSelf
  <2>2. CASE mark[i] # None
    <3>1. [wd |-> mark[i], what |-> what, name |-> Self, cookie |-> 0] \in Letter
      BY <1>1, <1>2, <2>2 DEF Letter, Notice
    <3> QED BY <2>2, <3>1 DEF ToldSelf
  <2> QED BY <2>1, <2>2
<1>5. \A p \in Paths : Destroyed(p) \in Seq(Letter)
  BY <1>4 DEF Destroyed, IsDir
<1>6. \A w \in Wds : Ignored(w) \in Letter
  BY <1>2 DEF Ignored, Letter, Notice
<1>7. Overflowed \in Letter
  BY <1>2 DEF Overflowed, Letter, Notice
<1> QED BY <1>2, <1>3, <1>4, <1>5, <1>6, <1>7

LEMMA QueueKeeps ==
    ASSUME Inv, NEW p \in Paths, NEW ns \in Seq(Letter), Queue(p, ns)
    PROVE  kq' \in Seq(Letter)
<1>1. kq \in Seq(Letter) /\ Overflowed \in Letter
  BY LettersOfUsers DEF Inv, KernelOK
<1>2. kq \o ns \in Seq(Letter) /\ Append(kq, Overflowed) \in Seq(Letter)
  BY <1>1
<1> QED BY <1>2 DEF Queue

LEMMA UnmarkedIs ==
    ASSUME Inv, NEW p \in Paths
    PROVE  Unmarked(p) \in [Inodes -> 0..MaxWd]
<1>1. mark \in [Inodes -> 0..MaxWd] /\ None \in 0..MaxWd
  BY ConstantsAssumption DEF Inv, KernelOK, None
<1>2. CASE IsDir(p)
  <2>1. [mark EXCEPT ![disk[p]] = None] \in [Inodes -> 0..MaxWd]
    BY <1>1
  <2> QED BY <1>2, <2>1 DEF Unmarked
<1>3. CASE ~IsDir(p)
  BY <1>1, <1>3 DEF Unmarked
<1> QED BY <1>2, <1>3

\* What the operations of users leave alone.
LEMMA UnheardKeeps ==
    ASSUME Inv, UserMoves, rootGone' \in BOOLEAN,
           UNCHANGED <<tree, pending, placed, job, signals, view>>
    PROVE  TreeOK' /\ WorkOK' /\ RestOK' /\ ops + 1 \in Cookies
<1>1. ops' \in 0..MaxOps /\ ops + 1 \in Cookies
  BY ConstantsAssumption DEF Inv, RestOK, UserMoves, Cookies
<1>2. TreeOK'
  BY DEF Inv, TreeOK, Registry, tree
<1>3. WorkOK'
  BY DEF Inv, WorkOK
<1>4. RestOK'
  BY <1>1 DEF Inv, RestOK, signals
<1> QED BY <1>1, <1>2, <1>3, <1>4

LEMMA FreshIs ==
    ASSUME InodesLeft
    PROVE  FreshInode \in Inodes
BY DEF InodesLeft, FreshInode

LEMMA MakeKeeps == ASSUME Inv, NEW p \in Paths, Make(p) PROVE Inv'
<1>1. /\ p \in Paths \ {Root} /\ IsDir(Parent(p)) /\ disk[p] = None /\ UserMoves
      /\ FreshInode \in Inodes
  BY FreshIs DEF Make, FreeName
<1>2. DiskOK'
  <2> DEFINE d == [disk EXCEPT ![p] = IF IsFile(p) THEN FileEntry ELSE FreshInode]
  <2>1. d \in Disks /\ \A x \in Paths : d[x] = disk[x] \/ x = p
    BY <1>1 DEF Inv, DiskOK, Disks
  <2>2. disk' = d
    BY DEF Make
  <2> HIDE DEF d
  <2> QED BY <1>1, <2>1, <2>2, DiskGrows DEF Inv
<1>3. KernelOK'
  <2>1. Told(p, "CREATE", 0) \in Seq(Letter)
    BY <1>1, LettersOfUsers
  <2>2. kq' \in Seq(Letter)
    BY <2>1, QueueKeeps DEF Make
  <2> QED BY <2>2 DEF Make, Unheard, Inv, KernelOK
<1>4. TreeOK' /\ WorkOK' /\ RestOK'
  BY <1>1, UnheardKeeps DEF Make, Unheard, Inv, RestOK
<1> QED BY <1>2, <1>3, <1>4 DEF Inv

LEMMA UnlinkKeeps == ASSUME Inv, NEW p \in Paths, Unlink(p) PROVE Inv'
<1>1. p \in Paths \ {Root} /\ p \in Exists /\ UserMoves
  BY DEF Unlink, Exists
<1>2. IsDir(Parent(p))
  BY <1>1, ParentIsDir DEF Inv
<1>3. DiskOK'
  <2> DEFINE d == [disk EXCEPT ![p] = None]
  <2>1. d \in Disks /\ \A x \in Paths : d[x] = disk[x] \/ (x = p /\ d[x] = None)
    BY DEF Inv, DiskOK, Disks
  <2>2. disk' = d
    BY DEF Unlink
  <2> HIDE DEF d
  <2>3. \A x \in Exists : ~Under(x, p)
    BY <1>1, Childless DEF Unlink, Inv
  <2> QED BY <1>1, <2>1, <2>2, <2>3, DiskShrinks DEF Inv
<1>4. KernelOK'
  <2>1. Told(p, "DELETE", 0) \in Seq(Letter) /\ Destroyed(p) \in Seq(Letter)
    BY <1>1, <1>2, LettersOfUsers
  <2>2. Destroyed(p) \o Told(p, "DELETE", 0) \in Seq(Letter)
    BY <2>1
  <2>3. kq' \in Seq(Letter)
    BY <2>2, QueueKeeps DEF Unlink
  <2> QED BY <2>3, UnmarkedIs DEF Unlink, Unheard, Inv, KernelOK
<1>5. TreeOK' /\ WorkOK' /\ RestOK'
  BY <1>1, UnheardKeeps DEF Unlink, Unheard, Inv, RestOK
<1> QED BY <1>3, <1>4, <1>5 DEF Inv

LEMMA RenameKeeps == ASSUME Inv, NEW p \in Paths, NEW q \in Paths, Rename(p, q) PROVE Inv'
<1>1. /\ p \in Paths \ {Root} /\ p \in Exists /\ UserMoves /\ CanMove(p, q)
      /\ q \in Paths \ {Root} /\ IsDir(Parent(q))
  BY DEF Rename, CanMove, Exists, FreeName
<1>2. IsDir(Parent(p))
  BY <1>1, ParentIsDir DEF Inv
<1>3. DiskOK'
  BY <1>1, DiskMoves DEF Rename, Inv
<1>4. TreeOK' /\ WorkOK' /\ RestOK' /\ ops + 1 \in Cookies
  BY <1>1, UnheardKeeps DEF Rename, Unheard, Inv, RestOK
<1>5. KernelOK'
  <2>1. /\ Told(p, "FROM", ops + 1) \in Seq(Letter) /\ Told(q, "TO", ops + 1) \in Seq(Letter)
        /\ Destroyed(q) \in Seq(Letter)
    BY <1>1, <1>2, <1>4, LettersOfUsers
  <2>2. Told(p, "FROM", ops + 1) \o Told(q, "TO", ops + 1) \o Destroyed(q) \in Seq(Letter)
    BY <2>1
  <2>3. kq' \in Seq(Letter)
    BY <2>2, QueueKeeps DEF Rename
  <2> QED BY <2>3, UnmarkedIs DEF Rename, Unheard, Inv, KernelOK
<1> QED BY <1>3, <1>4, <1>5 DEF Inv

LEMMA MoveOutKeeps == ASSUME Inv, NEW p \in Paths, MoveOut(p) PROVE Inv'
<1>1. p \in Paths \ {Root} /\ p \in Exists /\ UserMoves
  BY DEF MoveOut, Exists
<1>2. IsDir(Parent(p))
  BY <1>1, ParentIsDir DEF Inv
<1>3. DiskOK'
  <2> DEFINE d == [x \in Paths |-> IF Within(x, p) THEN None ELSE disk[x]]
  <2>1. d \in Disks /\ \A x \in Paths : d[x] = IF Within(x, p) THEN None ELSE disk[x]
    BY DEF Inv, DiskOK, Disks
  <2>2. disk' = d
    BY DEF MoveOut
  <2> HIDE DEF d
  <2>3. ASSUME NEW x \in Paths, NEW q \in Paths, d[q] # disk[q], Under(x, q)
        PROVE  d[x] = None
    <3>1. Within(q, p) /\ Within(x, q) /\ x \in AnyPath /\ q \in AnyPath /\ p \in AnyPath
      BY <2>1, <2>3, NamesAre DEF Under, Within, IsStrictPrefix
    <3>2. Within(x, p)
      BY <3>1, WithinOrder
    <3> QED BY <2>1, <3>2
  <2> QED BY <2>1, <2>2, <2>3, DiskShrinks DEF Inv
<1>4. TreeOK' /\ WorkOK' /\ RestOK' /\ ops + 1 \in Cookies
  BY <1>1, UnheardKeeps DEF MoveOut, Unheard, Inv, RestOK
<1>5. KernelOK'
  <2>1. Told(p, "FROM", ops + 1) \in Seq(Letter)
    BY <1>1, <1>2, <1>4, LettersOfUsers
  <2>2. kq' \in Seq(Letter)
    BY <2>1, QueueKeeps DEF MoveOut
  <2> QED BY <2>2 DEF MoveOut, Unheard, Inv, KernelOK
<1> QED BY <1>3, <1>4, <1>5 DEF Inv

LEMMA MoveInKeeps == ASSUME Inv, NEW p \in Paths, MoveIn(p) PROVE Inv'
<1>1. /\ p \in Paths \ {Root} /\ IsDir(Parent(p)) /\ disk[p] = None /\ UserMoves
      /\ FreshInode \in Inodes
  BY FreshIs DEF MoveIn, FreeName
<1>2. DiskOK'
  <2> DEFINE d == [x \in Paths |-> IF x = p THEN FreshInode
                                   ELSE IF Under(x, p) /\ IsFile(x) /\ Parent(x) = p
                                   THEN FileEntry ELSE disk[x]]
  <2>1. d \in Disks
    BY <1>1 DEF Inv, DiskOK, Disks
  <2>2. \A x \in Paths : \/ d[x] = disk[x]
                         \/ x = p
                         \/ IsFile(x) /\ Parent(x) = p /\ x # Root /\ d[p] \in Inodes
    BY <1>1 DEF IsFile
  <2>3. disk' = d
    BY DEF MoveIn
  <2> HIDE DEF d
  <2> QED BY <1>1, <2>1, <2>2, <2>3, DiskGrows DEF Inv
<1>3. TreeOK' /\ WorkOK' /\ RestOK' /\ ops + 1 \in Cookies
  BY <1>1, UnheardKeeps DEF MoveIn, Unheard, Inv, RestOK
<1>4. KernelOK'
  <2>1. Told(p, "TO", ops + 1) \in Seq(Letter)
    BY <1>1, <1>3, LettersOfUsers
  <2>2. kq' \in Seq(Letter)
    BY <2>1, QueueKeeps DEF MoveIn
  <2> QED BY <2>2 DEF MoveIn, Unheard, Inv, KernelOK
<1> QED BY <1>2, <1>3, <1>4 DEF Inv

LEMMA LoseRootKeeps == ASSUME Inv, LoseRoot PROVE Inv'
<1>1. UserMoves /\ rootGone' \in BOOLEAN
  BY DEF LoseRoot
<1>2. DiskOK'
  BY DEF LoseRoot, Inv, DiskOK, Exists, IsDir
<1>3. TreeOK' /\ WorkOK' /\ RestOK'
  BY <1>1, UnheardKeeps DEF LoseRoot
<1>4. KernelOK'
  <2>1. 1 \in Inodes
    BY ConstantsAssumption DEF Inodes
  <2>2. ToldSelf(1, "MOVED") \in Seq(Letter)
    BY <2>1, LettersOfUsers
  <2> QED BY <2>2 DEF LoseRoot, Inv, KernelOK
<1> QED BY <1>2, <1>3, <1>4 DEF Inv

LEMMA UserStepKeeps == ASSUME Inv, UserStep PROVE Inv'
BY MakeKeeps, UnlinkKeeps, MoveOutKeeps, MoveInKeeps, RenameKeeps, LoseRootKeeps DEF UserStep

-------------------------------------------------------------------------------
(* The operations of the registry.                                           *)

\* A descriptor given a path loses the one it had.
LEMMA TreeAddKeeps ==
    ASSUME TreeOK, NEW w \in Wds, NEW p \in AnyPath, TreeAdd(w, p)
    PROVE  TreeOK'
<1>1. byWd' \in [Wds -> AnyPath]
  BY DEF TreeOK, TreeAdd
<1>2. byPath' \in [DirPaths -> 0..MaxWd]
  BY ConstantsAssumption DEF TreeOK, TreeAdd, None, Wds
<1>3. ASSUME NEW q \in DirPaths, byPath'[q] # None
      PROVE  byWd'[byPath'[q]] = q
  <2>1. CASE q = p
    BY <2>1 DEF TreeOK, TreeAdd
  <2>2. CASE q # p
    <3>1. q # byWd[w] /\ byPath'[q] = byPath[q]
      BY <1>3, <2>2 DEF TreeAdd
    <3>2. byWd[byPath[q]] = q /\ byPath[q] \in Wds
      BY <1>3, <3>1 DEF TreeOK, Registry, None, Wds
    <3>3. byPath[q] # w
      BY <3>1, <3>2
    <3> QED BY <3>1, <3>2, <3>3 DEF TreeOK, TreeAdd
  <2> QED BY <2>1, <2>2
<1> QED BY <1>1, <1>2, <1>3 DEF TreeOK, Registry

LEMMA TreeRemoveKeeps ==
    ASSUME TreeOK, NEW w \in Wds, TreeRemove(w)
    PROVE  TreeOK'
<1>1. byWd' \in [Wds -> AnyPath]
  BY InitPaths DEF TreeOK, TreeRemove
<1>2. byPath' \in [DirPaths -> 0..MaxWd]
  BY ConstantsAssumption DEF TreeOK, TreeRemove, None
<1>3. ASSUME NEW q \in DirPaths, byPath'[q] # None
      PROVE  byWd'[byPath'[q]] = q
  <2>1. q # byWd[w] /\ byPath'[q] = byPath[q]
    BY <1>3 DEF TreeRemove
  <2>2. byWd[byPath[q]] = q /\ byPath[q] \in Wds
    BY <1>3, <2>1 DEF TreeOK, Registry, None, Wds
  <2> QED BY <2>1, <2>2 DEF TreeOK, TreeRemove
<1> QED BY <1>1, <1>2, <1>3 DEF TreeOK, Registry

\* The descriptors below top are those of the paths below top, and of no others.
LEMMA WdsWithinAre ==
    ASSUME TreeOK, NEW top
    PROVE  /\ WdsWithin(top) \subseteq Wds
           /\ \A w \in WdsWithin(top) : byWd[w] \in DirPaths /\ Within(byWd[w], top)
           /\ \A q \in DirPaths : byPath[q] # None =>
                  (byPath[q] \in WdsWithin(top) <=> Within(q, top))
<1>1. \A q \in DirPaths : byPath[q] # None => byPath[q] \in Wds /\ byWd[byPath[q]] = q
  BY DEF TreeOK, Registry, None, Wds
<1> QED BY <1>1 DEF WdsWithin

LEMMA RemoveSubtreeKeeps ==
    ASSUME TreeOK, NEW top, RemoveSubtree(top)
    PROVE  TreeOK'
<1>1. byWd' \in [Wds -> AnyPath]
  BY InitPaths DEF TreeOK, RemoveSubtree
<1>2. byPath' \in [DirPaths -> 0..MaxWd]
  BY ConstantsAssumption DEF TreeOK, RemoveSubtree, None
<1>3. ASSUME NEW q \in DirPaths, byPath'[q] # None
      PROVE  byWd'[byPath'[q]] = q
  <2>1. ~Within(q, top) /\ byPath'[q] = byPath[q]
    BY <1>3 DEF RemoveSubtree
  <2>2. byWd[byPath[q]] = q /\ byPath[q] \in Wds /\ byPath[q] \notin WdsWithin(top)
    BY <1>3, <2>1, WdsWithinAre DEF TreeOK, Registry, None, Wds
  <2> QED BY <2>1, <2>2 DEF RemoveSubtree
<1> QED BY <1>1, <1>2, <1>3 DEF TreeOK, Registry

\* The two maps move together: what lands at q came from one place below "from".
LEMMA RenameSubtreeKeeps ==
    ASSUME TreeOK, NEW from \in AnyPath, NEW to \in AnyPath, RenameSubtree(from, to)
    PROVE  TreeOK'
<1> DEFINE Source(q) == Rebase(q, to, from)
           Lands(q)  == Within(q, to) /\ Source(q) \in DirPaths /\ byPath[Source(q)] # None
<1>1. /\ byPath' = [q \in DirPaths |-> IF Lands(q) THEN byPath[Source(q)]
                                       ELSE IF Within(q, from) THEN None ELSE byPath[q]]
      /\ byWd' = [w \in Wds |-> IF w \in WdsWithin(from) THEN Rebase(byWd[w], from, to)
                                ELSE byWd[w]]
  BY DEF RenameSubtree
<1>2. byWd' \in [Wds -> AnyPath]
  <2>1. ASSUME NEW w \in WdsWithin(from)
        PROVE  Rebase(byWd[w], from, to) \in AnyPath
    <3>1. byWd[w] \in AnyPath /\ Within(byWd[w], from)
      BY WdsWithinAre, NamesAre
    <3> QED BY <3>1, RebaseBack
  <2> QED BY <1>1, <2>1 DEF TreeOK
<1>3. byPath' \in [DirPaths -> 0..MaxWd]
  BY <1>1, ConstantsAssumption DEF TreeOK, None
<1>4. ASSUME NEW q \in DirPaths, byPath'[q] # None
      PROVE  byWd'[byPath'[q]] = q
  <2>1. q \in AnyPath
    BY NamesAre
  <2>2. CASE Lands(q)
    <3>1. PICK s \in DirPaths : s = Source(q) /\ byPath[s] # None /\ byPath'[q] = byPath[s]
      BY <1>1, <2>2
    <3>2. Within(s, from) /\ Rebase(s, from, to) = q
      BY <2>1, <2>2, <3>1, RebaseBack
    <3>3. byPath[s] \in WdsWithin(from) /\ byWd[byPath[s]] = s /\ byPath[s] \in Wds
      BY <3>1, <3>2, WdsWithinAre DEF TreeOK, Registry
    <3> QED BY <1>1, <3>1, <3>2, <3>3
  <2>3. CASE ~Lands(q)
    <3>1. ~Within(q, from) /\ byPath'[q] = byPath[q]
      BY <1>1, <1>4, <2>3
    <3>2. byWd[byPath[q]] = q /\ byPath[q] \in Wds /\ byPath[q] \notin WdsWithin(from)
      BY <1>4, <3>1, WdsWithinAre DEF TreeOK, Registry, None, Wds
    <3> QED BY <1>1, <3>1, <3>2
  <2> QED BY <2>2, <2>3
<1> QED BY <1>2, <1>3, <1>4 DEF TreeOK, Registry

-------------------------------------------------------------------------------
(* The read loop.                                                            *)

LEMMA TakingIs ==
    ASSUME Inv, NEW what, Taking(what)
    PROVE  /\ Next1 \in Letter /\ Next1.what \in what /\ kq' \in Seq(Letter)
BY HeadTailProperties DEF Taking, Next1, Inv, KernelOK

\* Where a notice takes place.
LEMMA RelIs ==
    ASSUME Inv, Next1 \in Letter, Next1.what # "OVERFLOW"
    PROVE  Rel \in AnyPath /\ Next1.wd \in Wds
<1>1. Next1.wd \in Wds /\ Next1.name \in Names \cup {Self}
  BY DEF Letter, Notice
<1>2. PICK x \in AnyPath : x = byWd[Next1.wd]
  BY <1>1 DEF Inv, TreeOK
<1>3. Rel = IF Next1.name = Self THEN x ELSE Append(x, Next1.name)
  BY <1>2 DEF Rel, PathOf
<1>4. ASSUME NEW n \in Names
      PROVE  Append(x, n) \in AnyPath
  BY DEF AnyPath
<1> QED BY <1>1, <1>3, <1>4

\* What a path that appeared, or one that disappeared, becomes is a task.
LEMMA TasksAre ==
    ASSUME NEW p \in AnyPath
    PROVE  /\ Found(p) \in Task /\ Found(p).at \notin {"read", "scan", "register"}
           /\ Lost(p) \in Task /\ Lost(p).at \notin {"read", "scan", "register"}
           /\ Idle \in Task /\ Idle.at \notin {"read", "scan", "register"}
<1>1. << >> \in Seq(AnyPath) /\ << p >> \in Seq(AnyPath) /\ Root \in AnyPath
  BY InitPaths
<1> QED BY <1>1 DEF Found, Lost, Idle, Task

\* A task is given to a thread.
LEMMA WorkGiven ==
    ASSUME WorkOK, NEW j \in Jobs, NEW t \in Task,
           t.at \in {"read", "scan"} => t.todo # << >>, t.at # "register",
           job' = [job EXCEPT ![j] = t], pending' \in [Cookies -> Half], UNCHANGED placed
    PROVE  WorkOK'
BY DEF WorkOK

LEMMA SettledKeeps ==
    ASSUME Inv
    PROVE  /\ UNCHANGED users => DiskOK'
           /\ UNCHANGED <<mark, nextWd>> /\ kq' \in Seq(Letter) => KernelOK'
           /\ UNCHANGED tree => TreeOK'
           /\ UNCHANGED <<pending, placed, job>> => WorkOK'
           /\ UNCHANGED <<ops, rootGone, signals, view>> => RestOK'
<1>1. UNCHANGED users => DiskOK'
  BY DEF Inv, DiskOK, users, Exists, IsDir
<1>2. UNCHANGED <<mark, nextWd>> /\ kq' \in Seq(Letter) => KernelOK'
  BY DEF Inv, KernelOK
<1>3. UNCHANGED tree => TreeOK'
  BY DEF Inv, TreeOK, tree, Registry
<1>4. UNCHANGED <<pending, placed, job>> => WorkOK'
  BY DEF Inv, WorkOK
<1>5. UNCHANGED <<ops, rootGone, signals, view>> => RestOK'
  BY DEF Inv, RestOK, signals
<1> QED BY <1>1, <1>2, <1>3, <1>4, <1>5

LEMMA NoticeKeeps ==
    ASSUME Inv, HandleOverflow \/ HandleIgnored \/ HandleResidual \/ HandleMoved
    PROVE  Inv'
<1>1. PICK what : Taking(what)
  BY DEF HandleOverflow, HandleIgnored, HandleResidual, HandleMoved
<1>2. kq' \in Seq(Letter) /\ Next1 \in Letter
  BY <1>1, TakingIs
<1>3. DiskOK' /\ KernelOK' /\ WorkOK'
  BY <1>2, SettledKeeps DEF HandleOverflow, HandleIgnored, HandleResidual, HandleMoved
<1>4. TreeOK'
  <2>1. CASE HandleIgnored
    <3>1. Next1.what = "IGNORED"
      BY <2>1 DEF HandleIgnored, Taking
    <3>2. Next1.wd \in Wds
      BY <1>2, <3>1 DEF Letter
    <3> QED BY <2>1, <3>2, TreeRemoveKeeps DEF HandleIgnored, Inv
  <2>2. CASE UNCHANGED tree
    BY <2>2, SettledKeeps
  <2> QED BY <2>1, <2>2 DEF HandleOverflow, HandleResidual, HandleMoved
<1>5. RestOK'
  <2>1. CASE HandleOverflow
    BY <2>1 DEF HandleOverflow, Inv, RestOK, users
  <2>2. CASE HandleIgnored \/ HandleResidual
    BY <2>2 DEF HandleIgnored, HandleResidual, Inv, RestOK, users, signals
  <2>3. CASE HandleMoved
    BY <2>3 DEF HandleMoved, Inv, RestOK, users
  <2> QED BY <2>1, <2>2, <2>3
<1> QED BY <1>3, <1>4, <1>5 DEF Inv

LEMMA TaskKeeps == ASSUME Inv, HandleCreate \/ HandleDelete PROVE Inv'
<1>1. /\ Next1 \in Letter /\ Next1.what # "OVERFLOW" /\ kq' \in Seq(Letter)
  <2>1. CASE HandleCreate
    BY <2>1, TakingIs DEF HandleCreate
  <2>2. CASE HandleDelete
    BY <2>2, TakingIs DEF HandleDelete
  <2> QED BY <2>1, <2>2
<1>2. Rel \in AnyPath
  BY <1>1, RelIs
<1>3. PICK t \in Task : t.at \notin {"read", "scan", "register"} /\ job' = [job EXCEPT ![0] = t]
  BY <1>2, TasksAre DEF HandleCreate, HandleDelete
<1>4. WorkOK'
  <2>1. 0 \in Jobs
    BY ConstantsAssumption DEF Jobs
  <2>2. pending' \in [Cookies -> Half] /\ UNCHANGED placed
    BY DEF HandleCreate, HandleDelete, Inv, WorkOK
  <2> QED BY <1>3, <2>1, <2>2, WorkGiven DEF Inv
<1>5. DiskOK' /\ KernelOK' /\ TreeOK' /\ RestOK'
  BY <1>1, SettledKeeps DEF HandleCreate, HandleDelete, users
<1> QED BY <1>4, <1>5 DEF Inv

LEMMA PairKeeps == ASSUME Inv, Pair PROVE Inv'
<1>1. Next1 \in Letter /\ Next1.what \in {"FROM", "TO"} /\ kq' \in Seq(Letter)
  BY TakingIs DEF Pair
<1>2. Rel \in AnyPath /\ Next1.cookie \in Cookies
  BY <1>1, RelIs DEF Letter
<1>3. PICK other \in Half : other = pending[Next1.cookie]
  BY <1>2 DEF Inv, WorkOK
<1>4. other.rel \in AnyPath
  BY DEF Half
<1>5. PICK from \in AnyPath, to \in AnyPath :
         /\ IF IsFile(Rel) THEN UNCHANGED tree ELSE RenameSubtree(from, to)
         /\ EmitMove(from, to)
  BY <1>2, <1>3, <1>4 DEF Pair
<1>6. TreeOK'
  <2>1. CASE IsFile(Rel)
    BY <1>5, <2>1, SettledKeeps
  <2>2. CASE ~IsFile(Rel)
    BY <1>5, <2>2, RenameSubtreeKeeps DEF Inv
  <2> QED BY <2>1, <2>2
<1>7. view' \subseteq Paths
  BY <1>5 DEF EmitMove, Exists, Inv, RestOK
<1>8. RestOK'
  BY <1>7 DEF Pair, Inv, RestOK, users, signals
<1>9. WorkOK'
  <2>1. NoHalf \in Half
    BY InitPaths DEF NoHalf, Half
  <2>2. pending' \in [Cookies -> Half] /\ UNCHANGED <<placed, job>>
    BY <2>1 DEF Pair, Inv, WorkOK
  <2> QED BY <2>2 DEF Inv, WorkOK
<1>10. DiskOK' /\ KernelOK'
  BY <1>1, SettledKeeps DEF Pair
<1> QED BY <1>6, <1>8, <1>9, <1>10 DEF Inv

LEMMA WaitKeeps == ASSUME Inv, Wait PROVE Inv'
<1>1. Next1 \in Letter /\ Next1.what \in {"FROM", "TO"} /\ kq' \in Seq(Letter)
  BY TakingIs DEF Wait
<1>2. Rel \in AnyPath
  BY <1>1, RelIs
<1>3. WorkOK'
  <2>1. [rel |-> Rel, from |-> Next1.what = "FROM"] \in Half
    BY <1>2 DEF Half
  <2>2. pending' \in [Cookies -> Half] /\ UNCHANGED <<placed, job>>
    BY <2>1 DEF Wait, Inv, WorkOK
  <2> QED BY <2>2 DEF Inv, WorkOK
<1>4. DiskOK' /\ KernelOK' /\ TreeOK' /\ RestOK'
  BY <1>1, SettledKeeps DEF Wait, users
<1> QED BY <1>3, <1>4 DEF Inv

LEMMA TimerKeeps == ASSUME Inv, NEW c \in Cookies, TimerFires(c) PROVE Inv'
<1>1. c \in Jobs
  BY DEF Cookies, Jobs
<1>2. pending[c] \in Half /\ pending[c].rel \in AnyPath
  BY DEF Inv, WorkOK, Half
<1>3. PICK t \in Task : t.at \notin {"read", "scan", "register"} /\ job' = [job EXCEPT ![c] = t]
  BY <1>2, TasksAre DEF TimerFires
<1>4. pending' \in [Cookies -> Half] /\ UNCHANGED placed
  <2>1. NoHalf \in Half
    BY InitPaths DEF NoHalf, Half
  <2> QED BY <2>1 DEF TimerFires, Inv, WorkOK
<1>5. WorkOK'
  BY <1>1, <1>3, <1>4, WorkGiven DEF Inv
<1>6. kq' \in Seq(Letter)
  BY DEF TimerFires, kernel, Inv, KernelOK
<1>7. DiskOK' /\ KernelOK' /\ TreeOK' /\ RestOK'
  BY <1>6, SettledKeeps DEF TimerFires, users, kernel
<1> QED BY <1>5, <1>7 DEF Inv

LEMMA SignalKeeps == ASSUME Inv, LoopEnds \/ FullResync PROVE Inv'
<1>1. kq' \in Seq(Letter)
  BY DEF LoopEnds, FullResync, kernel, Inv, KernelOK
<1>2. DiskOK' /\ KernelOK' /\ TreeOK' /\ WorkOK'
  BY <1>1, SettledKeeps DEF LoopEnds, FullResync, kernel
<1>3. RestOK'
  <2>1. CASE LoopEnds
    BY <2>1 DEF LoopEnds, Inv, RestOK, users
  <2>2. CASE FullResync
    BY <2>2 DEF FullResync, Inv, RestOK, users, Exists
  <2> QED BY <2>1, <2>2
<1> QED BY <1>2, <1>3 DEF Inv

-------------------------------------------------------------------------------
(* The walks.                                                                *)

\* The work of a thread: what it has ahead is a path.
LEMMA AheadIs ==
    ASSUME Inv, NEW j \in Jobs, job[j].todo # << >>
    PROVE  /\ Ahead(j) \in AnyPath /\ Tail(job[j].todo) \in Seq(AnyPath)
           /\ job[j].todo \in Seq(AnyPath)
<1>1. job[j].todo \in Seq(AnyPath)
  BY DEF Inv, WorkOK, Task
<1> QED BY <1>1, HeadTailProperties DEF Ahead

\* A thread goes on with its task.
LEMMA TaskIs ==
    ASSUME Inv, NEW j \in Jobs
    PROVE  /\ job[j] \in Task
           /\ job[j].rel \in AnyPath /\ job[j].todo \in Seq(AnyPath)
           /\ DOMAIN job = Jobs
           /\ pending \in [Cookies -> Half]
BY DEF Inv, WorkOK, Task

LEMMA WorkTurns ==
    ASSUME Inv, NEW j \in Jobs, NEW at \in {"idle", "add", "read", "scan", "gone", "announce"},
           at \in {"read", "scan"} => job[j].todo # << >>,
           job' = [job EXCEPT ![j].at = at], UNCHANGED <<pending, placed>>
    PROVE  WorkOK'
<1>1. PICK t \in Task : t = job[j]
  BY TaskIs
<1>2. [t EXCEPT !.at = at] \in Task /\ [t EXCEPT !.at = at].at = at
      /\ [t EXCEPT !.at = at].todo = t.todo
  BY DEF Task
<1>3. PICK x \in Task : x = [t EXCEPT !.at = at] /\ x.at = at /\ x.todo = t.todo
  BY <1>2
<1>4. job' = [job EXCEPT ![j] = x]
  BY <1>1, <1>3
<1> QED BY <1>1, <1>3, <1>4, TaskIs, WorkGiven DEF Inv

LEMMA WorkAdvances ==
    ASSUME Inv, NEW j \in Jobs, NEW todo \in Seq(AnyPath),
           job[j].at \in {"read", "scan"} => todo # << >>, job[j].at # "register",
           job' = [job EXCEPT ![j].todo = todo], UNCHANGED <<pending, placed>>
    PROVE  WorkOK'
<1>1. PICK t \in Task : t = job[j]
  BY TaskIs
<1>2. [t EXCEPT !.todo = todo] \in Task /\ [t EXCEPT !.todo = todo].at = t.at
      /\ [t EXCEPT !.todo = todo].todo = todo
  BY DEF Task
<1>3. PICK x \in Task : x = [t EXCEPT !.todo = todo] /\ x.at = t.at /\ x.todo = todo
  BY <1>2
<1>4. job' = [job EXCEPT ![j] = x]
  BY <1>1, <1>3
<1> QED BY <1>1, <1>3, <1>4, TaskIs, WorkGiven DEF Inv

LEMMA WorkReads ==
    ASSUME Inv, NEW j \in Jobs, NEW todo \in Seq(AnyPath),
           job' = [job EXCEPT ![j].at = "add", ![j].todo = todo], UNCHANGED <<pending, placed>>
    PROVE  WorkOK'
<1>1. PICK t \in Task : t = job[j]
  BY TaskIs
<1>2. [t EXCEPT !.at = "add", !.todo = todo] \in Task
      /\ [t EXCEPT !.at = "add", !.todo = todo].at = "add"
  BY DEF Task
<1>3. PICK x \in Task : x = [t EXCEPT !.at = "add", !.todo = todo] /\ x.at = "add"
  BY <1>2
<1>4. job' = [job EXCEPT ![j] = x]
  BY <1>1, <1>3, TaskIs
<1> QED BY <1>3, <1>4, TaskIs, WorkGiven DEF Inv

LEMMA ListedAre ==
    ASSUME NEW S \in SUBSET Paths, NEW rest \in Seq(AnyPath)
    PROVE  SetToSeq(S) \o rest \in Seq(AnyPath)
<1>1. IsFiniteSet(S)
  BY ConstantsAssumption, FS_Subset
<1>2. SetToSeq(S) \in Seq(S) /\ S \subseteq AnyPath
  BY <1>1, SeqOfSet, NamesAre
<1>3. SetToSeq(S) \in Seq(AnyPath)
  BY <1>2
<1> QED BY <1>3

LEMMA WatchIsPlaced ==
    ASSUME Inv, NEW i \in Inodes, AddWatch(i)
    PROVE  /\ mark' \in [Inodes -> 0..MaxWd] /\ nextWd' \in 1..(MaxWd + 1)
           /\ mark'[i] \in Wds
<1>1. mark \in [Inodes -> 0..MaxWd] /\ nextWd \in 1..(MaxWd + 1) /\ MaxWd \in Nat
  BY ConstantsAssumption DEF Inv, KernelOK
<1>2. CASE mark[i] = None
  BY <1>1, <1>2 DEF AddWatch, Wds
<1>3. CASE mark[i] # None
  BY <1>1, <1>3 DEF AddWatch, Wds, None
<1> QED BY <1>2, <1>3

LEMMA WalkAddKeeps == ASSUME Inv, NEW j \in Jobs, WalkAdd(j) PROVE Inv'
<1>1. Ahead(j) \in AnyPath /\ job[j].todo # << >>
  BY AheadIs DEF WalkAdd
<1>2. PICK i \in Inodes : i = disk[Ahead(j)] /\ AddWatch(i) /\ TreeAdd(mark'[i], Ahead(j))
  BY DEF WalkAdd, IsDir
<1>3. mark' \in [Inodes -> 0..MaxWd] /\ nextWd' \in 1..(MaxWd + 1) /\ mark'[i] \in Wds
  BY <1>2, WatchIsPlaced
<1>4. KernelOK'
  BY <1>3 DEF WalkAdd, Inv, KernelOK
<1>5. TreeOK'
  BY <1>1, <1>2, <1>3, TreeAddKeeps DEF Inv
<1>6. WorkOK'
  <2>1. job' = [job EXCEPT ![j].at = "read"] /\ UNCHANGED <<pending, placed>>
    BY DEF WalkAdd
  <2> QED BY <1>1, <2>1, WorkTurns
<1>7. DiskOK' /\ RestOK'
  BY SettledKeeps DEF WalkAdd, users
<1> QED BY <1>4, <1>5, <1>6, <1>7 DEF Inv

LEMMA WalkWatchKeeps == ASSUME Inv, NEW j \in Jobs, WalkWatch(j) PROVE Inv'
<1>1. PICK i \in Inodes : /\ i = disk[Ahead(j)] /\ AddWatch(i)
                          /\ placed' = [placed EXCEPT ![j] = mark'[i]]
  BY DEF WalkWatch, IsDir
<1>2. mark' \in [Inodes -> 0..MaxWd] /\ nextWd' \in 1..(MaxWd + 1) /\ mark'[i] \in Wds
  BY <1>1, WatchIsPlaced
<1>3. KernelOK'
  BY <1>2 DEF WalkWatch, Inv, KernelOK
<1>4. WorkOK'
  <2>1. PICK w \in Wds : placed' = [placed EXCEPT ![j] = w]
    BY <1>1, <1>2
  <2>2. w \in 0..MaxWd /\ placed \in [Jobs -> 0..MaxWd] /\ pending \in [Cookies -> Half]
    BY ConstantsAssumption DEF Wds, Inv, WorkOK
  <2>3. PICK t \in Task : t = job[j] /\ t.todo # << >>
    BY TaskIs DEF WalkWatch
  <2>4. PICK x \in Task : x = [t EXCEPT !.at = "register"] /\ x.at = "register" /\ x.todo = t.todo
    <3>1. [t EXCEPT !.at = "register"] \in Task /\ [t EXCEPT !.at = "register"].at = "register"
          /\ [t EXCEPT !.at = "register"].todo = t.todo
      BY DEF Task
    <3> QED BY <3>1
  <2>5. job' = [job EXCEPT ![j] = x] /\ UNCHANGED pending
    BY <2>3, <2>4 DEF WalkWatch
  <2> QED BY <2>1, <2>2, <2>3, <2>4, <2>5 DEF Inv, WorkOK
<1>5. DiskOK' /\ TreeOK' /\ RestOK'
  BY SettledKeeps DEF WalkWatch, users
<1> QED BY <1>3, <1>4, <1>5 DEF Inv

LEMMA WalkRegisterKeeps == ASSUME Inv, NEW j \in Jobs, WalkRegister(j) PROVE Inv'
<1>1. job[j].at = "register" /\ job[j].todo # << >> /\ placed[j] \in Wds
  BY DEF WalkRegister, Doing, Inv, WorkOK
<1>2. TreeOK'
  <2>1. Ahead(j) \in AnyPath
    BY <1>1, AheadIs
  <2> QED BY <1>1, <2>1, TreeAddKeeps DEF WalkRegister, Inv
<1>3. WorkOK'
  <2>1. PICK t \in Task : t = job[j] /\ t.todo # << >>
    BY <1>1, TaskIs
  <2>2. PICK x \in Task : x = [t EXCEPT !.at = "read"] /\ x.at = "read" /\ x.todo = t.todo
    <3>1. [t EXCEPT !.at = "read"] \in Task /\ [t EXCEPT !.at = "read"].at = "read"
          /\ [t EXCEPT !.at = "read"].todo = t.todo
      BY DEF Task
    <3> QED BY <3>1
  <2>3. job' = [job EXCEPT ![j] = x] /\ UNCHANGED pending
    BY <2>1, <2>2 DEF WalkRegister
  <2>4. placed' \in [Jobs -> 0..MaxWd] /\ \A k \in Jobs : k # j => placed'[k] = placed[k]
    BY ConstantsAssumption DEF WalkRegister, None, Inv, WorkOK
  <2> QED BY <2>1, <2>2, <2>3, <2>4 DEF Inv, WorkOK
<1>4. kq' \in Seq(Letter)
  BY DEF WalkRegister, kernel, Inv, KernelOK
<1>5. DiskOK' /\ KernelOK' /\ RestOK'
  BY <1>4, SettledKeeps DEF WalkRegister, kernel, users
<1> QED BY <1>2, <1>3, <1>5 DEF Inv

LEMMA WalkSkipKeeps == ASSUME Inv, NEW j \in Jobs, WalkSkip(j) PROVE Inv'
<1>1. kq' \in Seq(Letter)
  BY DEF WalkSkip, kernel, Inv, KernelOK
<1>2. DiskOK' /\ KernelOK' /\ TreeOK'
  BY <1>1, SettledKeeps DEF WalkSkip, kernel
<1>3. WorkOK' /\ blind' \in BOOLEAN
  <2>1. job[j].at = "add" /\ job[j].todo # << >> /\ UNCHANGED <<pending, placed>>
    BY DEF WalkSkip, Doing
  <2>2. CASE job' = [job EXCEPT ![j].todo = Tail(@)] /\ UNCHANGED blind
    <3>1. PICK todo \in Seq(AnyPath) : todo = Tail(job[j].todo)
      BY <2>1, AheadIs
    <3>2. job' = [job EXCEPT ![j].todo = todo]
      BY <2>2, <3>1
    <3> QED BY <2>1, <2>2, <3>2, WorkAdvances DEF Inv, RestOK
  <2>3. CASE job' = [job EXCEPT ![j].todo = << >>] /\ blind' = TRUE
    <3>1. << >> \in Seq(AnyPath)
      OBVIOUS
    <3>2. PICK todo \in Seq(AnyPath) : job' = [job EXCEPT ![j].todo = todo]
      BY <2>3, <3>1
    <3> QED BY <2>1, <2>3, <3>2, WorkAdvances
  <2> QED BY <2>2, <2>3 DEF WalkSkip
<1>4. RestOK'
  BY <1>3 DEF WalkSkip, Inv, RestOK, users
<1> QED BY <1>2, <1>3, <1>4 DEF Inv

LEMMA WalkReadKeeps == ASSUME Inv, NEW j \in Jobs, WalkRead(j) PROVE Inv'
<1>1. job[j].todo # << >>
  BY DEF WalkRead, Doing, Inv, WorkOK
<1>2. PICK todo \in Seq(AnyPath) :
         todo = SetToSeq({q \in Children(Ahead(j)) : IsDir(q)}) \o Tail(job[j].todo)
  BY <1>1, AheadIs, ListedAre DEF Children, Exists
<1>3. job' = [job EXCEPT ![j].at = "add", ![j].todo = todo] /\ UNCHANGED <<pending, placed>>
  BY <1>2, TaskIs DEF WalkRead
<1>4. WorkOK'
  BY <1>3, WorkReads
<1>5. kq' \in Seq(Letter)
  BY DEF WalkRead, kernel, Inv, KernelOK
<1>6. DiskOK' /\ KernelOK' /\ TreeOK' /\ RestOK'
  BY <1>5, SettledKeeps DEF WalkRead, kernel, users
<1> QED BY <1>4, <1>6 DEF Inv

LEMMA WalkDoneKeeps == ASSUME Inv, NEW j \in Jobs, WalkDone(j) PROVE Inv'
<1>1. WorkOK'
  <2>1. UNCHANGED <<pending, placed>> /\ Idle \in Task /\ Idle.at = "idle" /\ job[j].rel \in AnyPath
    BY TaskIs, InitPaths DEF WalkDone, Idle, Task
  <2>2. CASE IsFile(job[j].rel)
    BY <2>1, <2>2, WorkGiven DEF WalkDone, Inv, WorkOK
  <2>3. CASE ~IsFile(job[j].rel)
    <3>1. << job[j].rel >> \in Seq(AnyPath) /\ << job[j].rel >> # << >>
      BY <2>1
    <3>2. PICK t \in Task : /\ t = [at |-> "scan", rel |-> job[j].rel, todo |-> << job[j].rel >>]
                            /\ t.todo # << >>
      <4>1. [at |-> "scan", rel |-> job[j].rel, todo |-> << job[j].rel >>] \in Task
        BY <2>1, <3>1 DEF Task
      <4> QED BY <3>1, <4>1
    <3>3. job' = [job EXCEPT ![j] = t]
      BY <2>3, <3>2 DEF WalkDone
    <3> QED BY <2>1, <3>2, <3>3, TaskIs, WorkGiven DEF Inv
  <2> QED BY <2>2, <2>3
<1>2. RestOK'
  BY DEF WalkDone, EmitCreate, Exists, Inv, RestOK, users, signals
<1>3. kq' \in Seq(Letter)
  BY DEF WalkDone, kernel, Inv, KernelOK
<1>4. DiskOK' /\ KernelOK' /\ TreeOK'
  BY <1>3, SettledKeeps DEF WalkDone, kernel
<1> QED BY <1>1, <1>2, <1>4 DEF Inv

LEMMA ScanVisitKeeps == ASSUME Inv, NEW j \in Jobs, ScanVisit(j) PROVE Inv'
<1>1. job[j].todo # << >> /\ job[j].at = "scan" /\ UNCHANGED <<pending, placed>>
  BY DEF ScanVisit, Doing, Inv, WorkOK
<1>2. PICK rest \in Seq(AnyPath) : rest = SetToSeq(Children(Ahead(j))) \o Tail(job[j].todo)
  BY <1>1, AheadIs, ListedAre DEF Children, Exists
<1>3. job' = [job EXCEPT ![j] = IF rest = << >> THEN Idle ELSE [@ EXCEPT !.todo = rest]]
  BY <1>2 DEF ScanVisit
<1>4. WorkOK'
  <2>1. CASE rest = << >>
    <3>1. Idle \in Task /\ Idle.at = "idle" /\ job' = [job EXCEPT ![j] = Idle]
      BY <1>3, <2>1, InitPaths DEF Idle, Task
    <3> QED BY <1>1, <3>1, WorkGiven DEF Inv, WorkOK
  <2>2. CASE rest # << >>
    <3>1. job' = [job EXCEPT ![j].todo = rest]
      BY <1>3, <2>2
    <3> QED BY <1>1, <2>2, <3>1, WorkAdvances
  <2> QED BY <2>1, <2>2
<1>5. RestOK'
  BY DEF ScanVisit, EmitCreate, Exists, Inv, RestOK, users, signals
<1>6. kq' \in Seq(Letter)
  BY DEF ScanVisit, kernel, Inv, KernelOK
<1>7. DiskOK' /\ KernelOK' /\ TreeOK'
  BY <1>6, SettledKeeps DEF ScanVisit, kernel
<1> QED BY <1>4, <1>5, <1>7 DEF Inv

LEMMA UnwatchKeeps == ASSUME Inv, NEW j \in Jobs, Unwatch(j) PROVE Inv'
<1> DEFINE live == WdsWithin(job[j].rel) \cap Range(mark)
<1>1. TreeOK'
  BY RemoveSubtreeKeeps DEF Unwatch, Inv
<1>2. live \subseteq Wds /\ IsFiniteSet(live) /\ Cardinality(live) \in Nat
  <2>1. live \subseteq Wds
    BY WdsWithinAre DEF Inv
  <2>2. IsFiniteSet(Wds)
    BY ConstantsAssumption, FS_Interval DEF Wds
  <2>3. IsFiniteSet(live)
    BY <2>1, <2>2, FS_Subset
  <2> QED BY <2>1, <2>3, FS_CardinalityType
<1>3. kq' \in Seq(Letter)
  <2>1. \A n \in 1..Cardinality(live) : Ignored(SetToSeq(live)[n]) \in Letter
    <3>1. \A n \in 1..Cardinality(live) : SetToSeq(live)[n] \in live
      BY <1>2, SeqOfSet
    <3>2. \A w \in Wds : Ignored(w) \in Letter
      BY LettersOfUsers
    <3> HIDE DEF live
    <3> QED BY <1>2, <3>1, <3>2
  <2>2. [n \in 1..Cardinality(live) |-> Ignored(SetToSeq(live)[n])] \in Seq(Letter)
    <3>1. PICK m \in Nat : m = Cardinality(live)
      BY <1>2
    <3>2. PICK e \in [1..m -> Letter] :
             e = [n \in 1..Cardinality(live) |-> Ignored(SetToSeq(live)[n])]
      BY <2>1, <3>1
    <3>3. e \in Seq(Letter)
      OBVIOUS
    <3> QED BY <3>2, <3>3
  <2>3. kq' = kq \o [n \in 1..Cardinality(live) |-> Ignored(SetToSeq(live)[n])]
    BY DEF Unwatch
  <2> QED BY <2>2, <2>3 DEF Inv, KernelOK
<1>4. mark' \in [Inodes -> 0..MaxWd]
  <2>1. mark' = [i \in Inodes |-> IF mark[i] \in live THEN None ELSE mark[i]]
    BY DEF Unwatch
  <2> QED BY <2>1, ConstantsAssumption DEF Inv, KernelOK, None
<1>5. KernelOK'
  BY <1>3, <1>4 DEF Unwatch, Inv, KernelOK
<1>6. WorkOK'
  <2>1. job' = [job EXCEPT ![j].at = "announce"] /\ UNCHANGED <<pending, placed>>
    BY DEF Unwatch
  <2> QED BY <2>1, WorkTurns
<1>7. DiskOK' /\ RestOK'
  BY SettledKeeps DEF Unwatch, users
<1> QED BY <1>1, <1>5, <1>6, <1>7 DEF Inv

LEMMA AnnounceKeeps == ASSUME Inv, NEW j \in Jobs, Announce(j) PROVE Inv'
<1>1. WorkOK'
  <2>1. /\ Idle \in Task /\ Idle.at = "idle" /\ job' = [job EXCEPT ![j] = Idle]
        /\ UNCHANGED <<pending, placed>>
    BY InitPaths DEF Announce, Idle, Task
  <2> QED BY <2>1, WorkGiven DEF Inv, WorkOK
<1>2. RestOK'
  BY DEF Announce, EmitDelete, Inv, RestOK, users, signals
<1>3. kq' \in Seq(Letter)
  BY DEF Announce, kernel, Inv, KernelOK
<1>4. DiskOK' /\ KernelOK' /\ TreeOK'
  BY <1>3, SettledKeeps DEF Announce, kernel
<1> QED BY <1>1, <1>2, <1>4 DEF Inv

-------------------------------------------------------------------------------

LEMMA StepKeeps == Inv /\ [Next]_vars => Inv'
<1> SUFFICES ASSUME Inv, [Next]_vars PROVE Inv'
  OBVIOUS
<1>1. CASE UserStep
  BY <1>1, UserStepKeeps
<1>2. CASE LoopStep
  BY <1>2, NoticeKeeps, TaskKeeps, PairKeeps, WaitKeeps DEF LoopStep
<1>3. CASE LoopEnds \/ FullResync
  BY <1>3, SignalKeeps
<1>4. CASE \E c \in Cookies : TimerFires(c)
  BY <1>4, TimerKeeps
<1>5. CASE \E j \in Jobs : JobStep(j)
  BY <1>5, WalkAddKeeps, WalkWatchKeeps, WalkRegisterKeeps, WalkSkipKeeps, WalkReadKeeps,
     WalkDoneKeeps, ScanVisitKeeps, UnwatchKeeps, AnnounceKeeps DEF JobStep
<1>6. CASE UNCHANGED vars
  <2>1. kq' \in Seq(Letter)
    BY <1>6 DEF vars, kernel, Inv, KernelOK
  <2> QED BY <1>6, <2>1, SettledKeeps DEF vars, users, kernel, Inv
<1> QED BY <1>1, <1>2, <1>3, <1>4, <1>5, <1>6 DEF Next

LEMMA Invariance == Spec => []Inv
BY InitHolds, StepKeeps, PTL DEF Spec

\* The state keeps its types, whatever users do and however far the watcher lags
\* behind: in particular the disk stays a tree, which is what the notices of the
\* kernel are derived from.
THEOREM TypeCorrect == Spec => []TypeOK
BY Invariance, InvImplies, PTL

\* A path in byPath leads to a descriptor that leads back to it (tree.go), for every
\* hurry: no two paths share a descriptor, and a subtree that is removed or renamed
\* takes exactly the descriptors of its own paths.  It is one direction only: a
\* descriptor in byWd may be one the path no longer has, or the path one that is gone.
THEOREM RegistryHolds == Spec => []Registry
BY Invariance, InvImplies, PTL
-------------------------------------------------------------------------------
(* Once the watcher has caught up, it watches what there is: for users who     *)
(* make and remove directories in any order, and move files as they like.      *)

\* Directories are not moved, none is made while there is news of an earlier one of
\* its name, and no notice about a directory is lost.
Plain == Hurry \cap {"moves", "again", "overflow"} = {}

LEMMA RangeCat ==
    ASSUME NEW S, NEW s \in Seq(S), NEW t \in Seq(S)
    PROVE  Range(s \o t) = Range(s) \cup Range(t)
<1>1. /\ DOMAIN (s \o t) = 1..Len(s) + Len(t) /\ DOMAIN s = 1..Len(s) /\ DOMAIN t = 1..Len(t)
      /\ \A i \in 1..Len(s) : (s \o t)[i] = s[i]
      /\ \A i \in Len(s) + 1..Len(s) + Len(t) : (s \o t)[i] = t[i - Len(s)]
      /\ Len(s) \in Nat /\ Len(t) \in Nat
  OBVIOUS
<1>2. ASSUME NEW i \in 1..Len(t)
      PROVE  i + Len(s) \in Len(s) + 1..Len(s) + Len(t) /\ (s \o t)[i + Len(s)] = t[i]
  <2>1. i + Len(s) \in Len(s) + 1..Len(s) + Len(t) /\ (i + Len(s)) - Len(s) = i
    BY <1>1
  <2> QED BY <1>1, <2>1
<1>3. ASSUME NEW i \in 1..Len(s) + Len(t)
      PROVE  (s \o t)[i] \in Range(s) \cup Range(t)
  <2>1. CASE i \in 1..Len(s)
    BY <1>1, <2>1 DEF Range
  <2>2. CASE i \notin 1..Len(s)
    <3>1. i \in Len(s) + 1..Len(s) + Len(t) /\ i - Len(s) \in 1..Len(t)
      BY <1>1, <2>2
    <3> QED BY <1>1, <3>1 DEF Range
  <2> QED BY <2>1, <2>2
<1>4. Range(s \o t) \subseteq Range(s) \cup Range(t)
  BY <1>1, <1>3 DEF Range
<1>5. Range(s) \subseteq Range(s \o t)
  BY <1>1 DEF Range
<1>6. Range(t) \subseteq Range(s \o t)
  <2> SUFFICES ASSUME NEW i \in 1..Len(t) PROVE t[i] \in Range(s \o t)
    BY <1>1 DEF Range
  <2>1. i + Len(s) \in DOMAIN (s \o t) /\ (s \o t)[i + Len(s)] = t[i]
    BY <1>1, <1>2
  <2> QED BY <2>1 DEF Range
<1> QED BY <1>4, <1>5, <1>6

LEMMA RangeAppend ==
    ASSUME NEW S, NEW s \in Seq(S), NEW x \in S
    PROVE  Range(Append(s, x)) = Range(s) \cup {x}
<1>1. /\ DOMAIN Append(s, x) = 1..Len(s) + 1 /\ DOMAIN s = 1..Len(s) /\ Len(s) \in Nat
      /\ \A i \in 1..Len(s) : Append(s, x)[i] = s[i]
      /\ Append(s, x)[Len(s) + 1] = x
  OBVIOUS
<1> QED BY <1>1 DEF Range

LEMMA RangeHead ==
    ASSUME NEW S, NEW s \in Seq(S), s # << >>
    PROVE  /\ Range(s) = Range(Tail(s)) \cup {Head(s)}
           /\ Head(s) \in S
<1>1. /\ DOMAIN s = 1..Len(s) /\ Len(s) \in Nat \ {0} /\ Head(s) = s[1]
      /\ DOMAIN Tail(s) = 1..Len(s) - 1
      /\ \A i \in 1..Len(s) - 1 : Tail(s)[i] = s[i + 1]
  OBVIOUS
<1>2. \A i \in 2..Len(s) : i - 1 \in 1..Len(s) - 1 /\ Tail(s)[i - 1] = s[i]
  BY <1>1
<1>3. \A i \in 1..Len(s) : i = 1 \/ i \in 2..Len(s)
  BY <1>1
<1>4. Range(s) \subseteq Range(Tail(s)) \cup {Head(s)}
  <2> SUFFICES ASSUME NEW i \in 1..Len(s), i # 1 PROVE s[i] \in Range(Tail(s))
    BY <1>1 DEF Range
  <2>1. i - 1 \in DOMAIN Tail(s) /\ Tail(s)[i - 1] = s[i]
    BY <1>1, <1>2, <1>3
  <2> QED BY <2>1 DEF Range
<1>5. Range(Tail(s)) \cup {Head(s)} \subseteq Range(s)
  BY <1>1 DEF Range
<1> QED BY <1>1, <1>4, <1>5

LEMMA RangeOfFew ==
    /\ Range(<< >>) = {}
    /\ \A x : Range(<<x>>) = {x}
BY DEF Range

\* What is listed is the set, no less.
LEMMA ListedIs ==
    ASSUME NEW S, IsFiniteSet(S)
    PROVE  Range(SetToSeq(S)) = S
<1>1. Cardinality(S) \in Nat /\ ExistsBijection(1..Cardinality(S), S)
  BY FS_CardinalityType
<1>2. \E f \in [1..Cardinality(S) -> S] : IsInjective(f)
  BY <1>1 DEF ExistsBijection, Bijection, Injection, IsInjective
<1>3. PICK f \in [1..Cardinality(S) -> S] : f = SetToSeq(S) /\ IsInjective(f)
  BY <1>2 DEF SetToSeq
<1>4. f \in Injection(1..Cardinality(S), S)
  BY <1>3 DEF Injection, IsInjective
<1>5. Cardinality(1..Cardinality(S)) = Cardinality(S)
  BY <1>1, FS_Interval
<1>6. f \in Surjection(1..Cardinality(S), S)
  BY <1>4, <1>5, FS_Injection
<1> QED BY <1>3, <1>6 DEF Surjection, Range

-------------------------------------------------------------------------------
(* What the watcher knows of the directories, by the part of the state.          *)

\* Directories keep to the places of directories, each with an inode of its own.
Places == /\ disk[Root] = 1
          /\ \A p \in Paths : IsDir(p) => p \in DirPaths
          /\ \A p, q \in Paths : IsDir(p) /\ disk[p] = disk[q] => p = q

\* Watched inodes are on the disk, and every descriptor in byWd is in byPath as well.
Marks == /\ \A i \in Inodes : mark[i] < nextWd /\ (mark[i] # None => \E p \in Paths : disk[p] = i)
         /\ \A w \in Wds : byWd[w] # NoPath =>
                w < nextWd /\ byWd[w] \in DirPaths /\ byPath[byWd[w]] = w

\* A notice is about a watch that was handed out; what it says is gone is gone.
Fit(n) == /\ n.wd < nextWd
          /\ n.what = "IGNORED" => n.name = Self
          /\ n.what \in {"FROM", "TO"} => n.name \in FileNames /\ n.name # Self
          /\ n.what \in {"DELETE", "IGNORED"} /\ byWd[n.wd] # NoPath => ~IsDir(PathOf(n))
Notices == \A n \in Range(kq) : Fit(n)

\* The news of the removal of a watched directory is under way, or in hand.
Parting(n, w) == n.what = "DELETE" /\ n.name = Self /\ n.wd = w
Removed(p, w) == \/ \E n \in Range(kq) : Parting(n, w)
                 \/ job[0].at = "gone" /\ job[0].rel = p
Entries == \A p \in DirPaths : IF IsDir(p) THEN byPath[p] = mark[disk[p]]
                               ELSE byPath[p] # None => Removed(p, byPath[p])

\* The creation of something above p is under way, or the walk will come to p.
Calls(n, p) == n.what = "CREATE" /\ byWd[n.wd] # NoPath /\ Within(p, PathOf(n))
Called(p)   == \E n \in Range(kq) : Calls(n, p)
Walked(p)   == job[0].at \in {"add", "read"} /\ \E t \in Range(job[0].todo) : Within(p, t)
Reached     == \A p \in DirPaths : IsDir(p) => byPath[p] # None \/ blind \/ Called(p) \/ Walked(p)

\* The loop's own task; those of half renames are about files only.
LoopTask == /\ job[0].at = "gone" => ~IsDir(job[0].rel)
            /\ job[0].at # "register"
            /\ job[0].at = "read" =>
                   Head(job[0].todo) \in DirPaths /\ byPath[Head(job[0].todo)] # None
FileTasks == \A c \in Cookies :
                 /\ pending[c] # NoHalf => IsFile(pending[c].rel)
                 /\ job[c].at \in {"idle", "add", "announce"} /\ job[c].todo = << >>
                 /\ job[c].at = "add" => IsFile(job[c].rel)

\* The loss of the root is under way, or raised.
Leaving(n)  == n.what = "MOVED" /\ n.name = Self /\ n.wd = mark[1]
RootKept    == mark[1] # None /\ (rootGone => fatal \/ \E n \in Range(kq) : Leaving(n))

Sound == /\ Places /\ Marks /\ Notices /\ Entries /\ Reached
         /\ LoopTask /\ FileTasks /\ RootKept

LEMMA NoPathIs == NoPath \notin DirPaths /\ NoPath \notin Paths
BY ConstantsAssumption DEF DirPaths

LEMMA JoinIs ==
    ASSUME NEW x \in AnyPath, NEW name \in Names
    PROVE  /\ Append(x, name) \in AnyPath
           /\ Len(Append(x, name)) = Len(x) + 1 /\ Append(x, name)[Len(x) + 1] = name
           /\ \A i \in 1..Len(x) : Append(x, name)[i] = x[i]
BY DEF AnyPath

LEMMA SelfIsNoName ==
    ASSUME NEW p \in Paths \ {Root}
    PROVE  /\ Last(p) # Self /\ Append(Parent(p), Last(p)) = p
           /\ Parent(p) \in DirPaths /\ Within(p, Parent(p))
<1>1. Last(p) # Self /\ Parent(p) \in DirPaths
  BY ConstantsAssumption DEF Self, Parent
<1>2. p \in AnyPath /\ p # Root /\ Len(p) \in Nat \ {0}
  BY NamesAre DEF AnyPath, Root
<1>3. /\ Parent(p) \in AnyPath /\ Len(Parent(p)) = Len(p) - 1 /\ Within(p, Parent(p))
      /\ Last(p) \in Names
  BY <1>2, ParentIs, NamesAre
<1>4. \A i \in 1..Len(Parent(p)) : Parent(p)[i] = p[i]
  BY <1>2, <1>3, WithinIs
<1>5. PICK x \in AnyPath : x = Append(Parent(p), Last(p))
  BY <1>3, JoinIs
<1>6. Len(x) = Len(p) /\ \A i \in 1..Len(x) : x[i] = p[i]
  <2>1. /\ Len(x) = Len(Parent(p)) + 1 /\ x[Len(Parent(p)) + 1] = Last(p)
        /\ \A i \in 1..Len(Parent(p)) : x[i] = Parent(p)[i]
    BY <1>3, <1>5, JoinIs
  <2> QED BY <1>2, <1>3, <1>4, <2>1 DEF Last
<1>7. x = p
  BY <1>2, <1>6, SamePath
<1> QED BY <1>1, <1>3, <1>5, <1>7

\* Where a notice takes place.
LEMMA PathOfIs ==
    ASSUME Inv, NEW n \in Letter, n.what # "OVERFLOW"
    PROVE  /\ n.wd \in Wds /\ byWd[n.wd] \in AnyPath /\ PathOf(n) \in AnyPath
           /\ Within(PathOf(n), byWd[n.wd])
           /\ n.name = Self => PathOf(n) = byWd[n.wd]
           /\ n.name # Self => PathOf(n) # Root /\ Last(PathOf(n)) = n.name
<1>1. n.wd \in Wds /\ n.name \in Names \cup {Self}
  BY DEF Letter, Notice
<1>2. PICK x \in AnyPath : x = byWd[n.wd]
  BY <1>1 DEF Inv, TreeOK
<1>3. PathOf(n) = IF n.name = Self THEN x ELSE Append(x, n.name)
  BY <1>2 DEF PathOf
<1>4. CASE n.name = Self
  BY <1>1, <1>2, <1>3, <1>4, WithinOrder
<1>5. CASE n.name # Self
  <2>1. PICK y \in AnyPath : y = Append(x, n.name)
    BY <1>1, <1>5, JoinIs
  <2>2. /\ Len(y) = Len(x) + 1 /\ y[Len(x) + 1] = n.name /\ Len(x) \in Nat
        /\ \A i \in 1..Len(x) : y[i] = x[i]
    BY <1>1, <1>5, <2>1, JoinIs DEF AnyPath
  <2>3. y # Root /\ Last(y) = n.name
    BY <2>2 DEF Root, Last
  <2>4. Within(y, x)
    BY <2>2, WithinIs
  <2> QED BY <1>1, <1>2, <1>3, <1>5, <2>1, <2>3, <2>4
<1> QED BY <1>4, <1>5

LEMMA QueuedAre ==
    ASSUME Inv
    PROVE  Range(kq) \subseteq Letter
BY DEF Inv, KernelOK, Range

\* A directory that is watched is registered, and its descriptor leads to it.
LEMMA WatchedDirs ==
    ASSUME Inv, Sound, NEW p \in Paths, IsDir(p)
    PROVE  /\ p \in DirPaths /\ byPath[p] = mark[disk[p]] /\ disk[p] \in Inodes
           /\ byPath[p] # None => /\ byPath[p] \in Wds /\ byPath[p] < nextWd
                                  /\ byWd[byPath[p]] = p /\ p # NoPath
<1>1. p \in DirPaths /\ byPath[p] = mark[disk[p]] /\ disk[p] \in Inodes
  BY DEF Sound, Places, Entries, IsDir
<1>2. ASSUME byPath[p] # None
      PROVE  byPath[p] \in Wds /\ byPath[p] < nextWd /\ byWd[byPath[p]] = p /\ p # NoPath
  <2>1. byPath[p] \in Wds /\ byWd[byPath[p]] = p
    BY <1>1, <1>2 DEF Inv, TreeOK, Registry, None, Wds
  <2>2. byPath[p] < nextWd
    BY <1>1 DEF Sound, Marks
  <2> QED BY <2>1, <2>2, NoPathIs
<1> QED BY <1>1, <1>2

\* What the kernel says of a name, and of a directory itself, is said of its path.
LEMMA ToldIs ==
    ASSUME Inv, Sound, NEW p \in Paths \ {Root}, IsDir(Parent(p)), NEW what, NEW c
    PROVE  /\ \A n \in Range(Told(p, what, c)) :
                  /\ n.what = what /\ n.name = Last(p) /\ n.name # Self
                  /\ n.wd < nextWd /\ byWd[n.wd] # NoPath /\ PathOf(n) = p
           /\ byPath[Parent(p)] # None => \E n \in Range(Told(p, what, c)) : TRUE
<1>1. Last(p) # Self /\ Append(Parent(p), Last(p)) = p /\ Parent(p) \in Paths
  BY SelfIsNoName DEF DirPaths
<1>2. /\ byPath[Parent(p)] = mark[disk[Parent(p)]]
      /\ byPath[Parent(p)] # None =>
             /\ byPath[Parent(p)] < nextWd
             /\ byWd[byPath[Parent(p)]] = Parent(p) /\ Parent(p) # NoPath
  BY <1>1, WatchedDirs
<1>3. CASE byPath[Parent(p)] = None
  <2>1. Told(p, what, c) = << >>
    BY <1>2, <1>3 DEF Told
  <2> QED BY <1>3, <2>1, RangeOfFew
<1>4. CASE byPath[Parent(p)] # None
  <2> DEFINE n == [wd |-> byPath[Parent(p)], what |-> what, name |-> Last(p), cookie |-> c]
  <2>1. Told(p, what, c) = <<n>>
    BY <1>2, <1>4 DEF Told
  <2>2. Range(Told(p, what, c)) = {n}
    BY <2>1, RangeOfFew
  <2>3. n.what = what /\ n.name = Last(p) /\ n.wd = byPath[Parent(p)]
    OBVIOUS
  <2>4. PathOf(n) = p
    BY <1>1, <1>2, <1>4, <2>3 DEF PathOf
  <2> HIDE DEF n
  <2> QED BY <1>1, <1>2, <1>4, <2>2, <2>3, <2>4
<1> QED BY <1>3, <1>4

LEMMA ToldSelfIs ==
    ASSUME NEW i \in Inodes, NEW what
    PROVE  /\ \A n \in Range(ToldSelf(i, what)) :
                  n.what = what /\ n.name = Self /\ n.wd = mark[i]
           /\ mark[i] # None => \E n \in Range(ToldSelf(i, what)) : TRUE
<1> DEFINE n == [wd |-> mark[i], what |-> what, name |-> Self, cookie |-> 0]
<1>1. n.what = what /\ n.name = Self /\ n.wd = mark[i]
  OBVIOUS
<1>2. CASE mark[i] = None
  <2>1. ToldSelf(i, what) = << >>
    BY <1>2 DEF ToldSelf
  <2> QED BY <1>2, <2>1, RangeOfFew
<1>3. CASE mark[i] # None
  <2>1. Range(ToldSelf(i, what)) = {n}
    BY <1>3, RangeOfFew DEF ToldSelf
  <2> HIDE DEF n
  <2> QED BY <1>1, <2>1
<1> QED BY <1>2, <1>3

LEMMA SoundAtFirst == Init => Sound
<1> SUFFICES ASSUME Init PROVE Sound
  OBVIOUS
<1>1. 1 \in Inodes /\ 1 \in Wds /\ Root \in DirPaths /\ Root \in Paths /\ NoPath # Root
  BY InitPaths, ConstantsAssumption DEF Inodes, Wds
<1>2. /\ \A p \in Paths : IsDir(p) <=> p = Root
      /\ disk[Root] = 1 /\ mark[1] = 1 /\ byPath[Root] = 1
  BY <1>1, FileEntryIs DEF Init, IsDir
<1>3. Places
  BY <1>1, <1>2 DEF Places, IsDir
<1>4. Marks
  BY <1>1, <1>2 DEF Init, Marks, None
<1>5. Notices /\ Range(kq) = {}
  BY RangeOfFew DEF Init, Notices
<1>6. Entries
  BY <1>1, <1>2 DEF Init, Entries, DirPaths
<1>7. Reached
  BY <1>2 DEF Reached, None, DirPaths
<1>8. 0 \in Jobs /\ Cookies \subseteq Jobs
  BY ConstantsAssumption DEF Jobs, Cookies
<1>9. LoopTask /\ FileTasks
  BY <1>8 DEF Init, LoopTask, FileTasks, Idle
<1>10. RootKept
  BY <1>2 DEF Init, RootKept, None
<1> QED BY <1>3, <1>4, <1>5, <1>6, <1>7, <1>9, <1>10 DEF Sound

-------------------------------------------------------------------------------
(* Users.                                                                    *)

LEMMA QueueIs ==
    ASSUME Inv, NEW p, NEW ns \in Seq(Letter), Queue(p, ns)
    PROVE  /\ Range(kq) \subseteq Range(kq')
           /\ Range(kq') \subseteq Range(kq) \cup Range(ns) \cup {Overflowed}
           /\ Plain /\ ~IsFile(p) => Range(kq') = Range(kq) \cup Range(ns)
<1>1. kq \in Seq(Letter) /\ Overflowed \in Letter
  BY LettersOfUsers DEF Inv, KernelOK
<1>2. Range(kq \o ns) = Range(kq) \cup Range(ns)
  BY <1>1, RangeCat
<1>3. Range(Append(kq, Overflowed)) = Range(kq) \cup {Overflowed}
  BY <1>1, RangeAppend
<1> QED BY <1>2, <1>3 DEF Queue, Plain

LEMMA OverflowFits == ASSUME Inv PROVE Fit(Overflowed) /\ ~(Overflowed.what \in {"CREATE", "MOVED"})
BY DEF Inv, KernelOK, Fit, Overflowed, None

\* Notices come; what is known of the directories stays as it is.
LEMMA NoticesCome ==
    ASSUME Inv, Sound, UNCHANGED <<nextWd, tree, job>>, Range(kq) \subseteq Range(kq'),
           \A n \in Range(kq') \ Range(kq) : Fit(n)',
           \A p \in Paths : IsDir(p)' => IsDir(p)
    PROVE  /\ Notices'
           /\ \A p, w : Removed(p, w) => Removed(p, w)'
           /\ \A p : Called(p) => Called(p)'
           /\ \A p : Walked(p) => Walked(p)'
<1>1. ASSUME NEW n \in Range(kq)
      PROVE  Fit(n)'
  <2>1. Fit(n)
    BY DEF Sound, Notices
  <2> QED BY <2>1 DEF Fit, PathOf, tree, IsDir
<1>2. Notices'
  BY <1>1 DEF Notices
<1>3. \A p, w : Removed(p, w) => Removed(p, w)'
  BY DEF Removed, Parting
<1>4. \A p : Called(p) => Called(p)'
  BY DEF Called, Calls, PathOf, tree
<1>5. \A p : Walked(p) => Walked(p)'
  BY DEF Walked
<1> QED BY <1>2, <1>3, <1>4, <1>5

\* Users change files: the directories stay.
LEMMA FilesChange ==
    ASSUME Inv, Sound, UNCHANGED <<mark, nextWd, tree, pending, job, blind, fatal>>,
           \A x \in Paths : disk'[x] = disk[x] \/ {disk[x], disk'[x]} \cap Inodes = {},
           Range(kq) \subseteq Range(kq'), \A n \in Range(kq') \ Range(kq) : Fit(n)',
           rootGone' => rootGone \/ \E n \in Range(kq') : Leaving(n)
    PROVE  Sound'
<1>1. /\ \A x \in Paths : IsDir(x)' <=> IsDir(x)
      /\ \A x \in Paths : IsDir(x) => x \in DirPaths /\ disk'[x] = disk[x]
  BY DEF IsDir, Sound, Places
<1>2. /\ Notices'
      /\ \A p, w : Removed(p, w) => Removed(p, w)'
      /\ \A p : Called(p) => Called(p)'
      /\ \A p : Walked(p) => Walked(p)'
  BY <1>1, NoticesCome
<1>3. Places'
  <2>1. Root \in Paths /\ Root \in DirPaths
    BY InitPaths
  <2>2. /\ \A p, q \in Paths : IsDir(p) /\ disk[p] = disk[q] => p = q
        /\ disk[Root] = 1
    BY DEF Sound, Places
  <2>3. ASSUME NEW p \in Paths, NEW q \in Paths, IsDir(p)', disk'[p] = disk'[q]
        PROVE  p = q
    <3>1. IsDir(p) /\ disk'[p] = disk[p] /\ IsDir(q)'
      BY <1>1, <2>3 DEF IsDir
    <3> QED BY <1>1, <2>2, <2>3, <3>1
  <2>4. IsDir(Root)
    BY <2>1, <2>2, ConstantsAssumption DEF IsDir, Inodes
  <2> QED BY <1>1, <2>1, <2>2, <2>3, <2>4 DEF Places
<1>4. Marks'
  <2>1. ASSUME NEW i \in Inodes, mark'[i] # None
        PROVE  \E p \in Paths : disk'[p] = i
    <3>1. PICK p \in Paths : disk[p] = i
      BY <2>1 DEF Sound, Marks
    <3>2. IsDir(p)
      BY <3>1 DEF IsDir
    <3> QED BY <1>1, <3>1, <3>2
  <2> QED BY <2>1 DEF Sound, Marks, tree
<1>5. Entries'
  <2> SUFFICES ASSUME NEW p \in DirPaths
               PROVE  IF IsDir(p)' THEN byPath'[p] = mark'[disk'[p]]
                      ELSE byPath'[p] # None => Removed(p, byPath[p])'
    BY DEF Entries, tree
  <2>1. p \in Paths /\ (IF IsDir(p) THEN byPath[p] = mark[disk[p]]
                       ELSE byPath[p] # None => Removed(p, byPath[p]))
    BY NamesAre DEF Sound, Entries
  <2> QED BY <1>1, <1>2, <2>1 DEF tree
<1>6. Reached'
  <2> SUFFICES ASSUME NEW p \in DirPaths, IsDir(p)'
               PROVE  byPath'[p] # None \/ blind' \/ Called(p)' \/ Walked(p)'
    BY DEF Reached
  <2>1. IsDir(p)
    BY <1>1, NamesAre
  <2> QED BY <1>2, <2>1 DEF Sound, Reached, tree
<1>7. LoopTask'
  BY <1>1 DEF Sound, LoopTask, IsDir, tree
<1>8. FileTasks'
  BY DEF Sound, FileTasks
<1>9. RootKept'
  BY DEF Sound, RootKept, Leaving
<1> QED BY <1>2, <1>3, <1>4, <1>5, <1>6, <1>7, <1>8, <1>9 DEF Sound

LEMMA FilesAreNoDirs ==
    ASSUME Sound, NEW p \in Paths, IsFile(p)
    PROVE  /\ ~IsDir(p) /\ disk[p] \notin Inodes /\ p # Root /\ Last(p) \in FileNames
           /\ \A x \in Paths : Within(x, p) => x = p
<1>1. ~IsDir(p) /\ p # Root /\ Last(p) \in FileNames
  BY DEF Sound, Places, DirPaths, IsFile
<1>2. ASSUME NEW x \in Paths, Within(x, p), x # p
      PROVE  FALSE
  <2>1. p \in AnyPath
    BY NamesAre
  <2>2. p \in DirPaths
    BY <1>2, <2>1, PathsAbove
  <2> QED BY <2>2 DEF DirPaths
<1> QED BY <1>1, <1>2 DEF IsDir

LEMMA RebaseOnto ==
    ASSUME NEW p \in AnyPath, NEW q \in AnyPath
    PROVE  Rebase(q, q, p) = p
<1>1. Rebased(Rebase(q, q, p), q, q, p)
  BY RebaseIs DEF AnyPath
<1>2. PICK r \in AnyPath : r = Rebase(q, q, p) /\ Rebased(r, q, q, p)
  BY <1>1 DEF Rebased
<1>3. Len(r) = Len(p) /\ \A i \in 1..Len(r) : r[i] = p[i]
  BY <1>2 DEF Rebased, AnyPath
<1> QED BY <1>2, <1>3, SamePath

\* A file comes, goes or is moved: what the kernel says of it is about no directory.
LEMMA FileMade ==
    ASSUME Inv, Sound, NEW p \in Paths, Make(p), IsFile(p)
    PROVE  Sound'
<1>1. p \in Paths \ {Root} /\ IsDir(Parent(p)) /\ disk[p] = None
  BY DEF Make, FreeName
<1>2. Range(kq) \subseteq Range(kq')
      /\ Range(kq') \subseteq Range(kq) \cup Range(Told(p, "CREATE", 0)) \cup {Overflowed}
  <2>1. Told(p, "CREATE", 0) \in Seq(Letter)
    BY <1>1, LettersOfUsers
  <2> QED BY <2>1, QueueIs DEF Make
<1>3. UNCHANGED <<nextWd, tree, pending, job, blind, fatal, rootGone, mark>>
  BY DEF Make, Unheard, signals
<1>4. ASSUME NEW n \in Range(kq') \ Range(kq)
      PROVE  Fit(n)'
  <2>1. CASE n \in Range(Told(p, "CREATE", 0))
    <3>1. n.what = "CREATE" /\ n.wd < nextWd
      BY <1>1, <2>1, ToldIs
    <3> QED BY <1>3, <3>1 DEF Fit
  <2>2. CASE n = Overflowed
    BY <1>3, <2>2, OverflowFits DEF Fit, Overflowed
  <2> QED BY <1>2, <1>4, <2>1, <2>2
<1>5. \A x \in Paths : disk'[x] = disk[x] \/ {disk[x], disk'[x]} \cap Inodes = {}
  BY <1>1, FileEntryIs DEF Make, Inv, DiskOK
<1> QED BY <1>2, <1>3, <1>4, <1>5, FilesChange

LEMMA FileUnlinked ==
    ASSUME Inv, Sound, NEW p \in Paths, Unlink(p), ~IsDir(p)
    PROVE  Sound'
<1>1. p \in Paths \ {Root} /\ p \in Exists
  BY DEF Unlink, Exists
<1>2. IsDir(Parent(p))
  BY <1>1, ParentIsDir DEF Inv
<1>3. Range(kq) \subseteq Range(kq')
      /\ Range(kq') \subseteq Range(kq) \cup Range(Told(p, "DELETE", 0)) \cup {Overflowed}
  <2>1. Told(p, "DELETE", 0) \in Seq(Letter)
    BY <1>1, <1>2, LettersOfUsers
  <2>2. Destroyed(p) \o Told(p, "DELETE", 0) = Told(p, "DELETE", 0)
    BY <2>1 DEF Destroyed
  <2> QED BY <2>1, <2>2, QueueIs DEF Unlink
<1>4. UNCHANGED <<nextWd, tree, pending, job, blind, fatal, rootGone, mark>>
  BY DEF Unlink, Unmarked, Unheard, signals
<1>5. disk' = [disk EXCEPT ![p] = None]
  BY DEF Unlink
<1>6. \A x \in Paths : disk'[x] = disk[x] \/ {disk[x], disk'[x]} \cap Inodes = {}
  BY <1>1, <1>5, FileEntryIs DEF Inv, DiskOK, IsDir
<1>7. ASSUME NEW n \in Range(kq') \ Range(kq)
      PROVE  Fit(n)'
  <2>1. CASE n \in Range(Told(p, "DELETE", 0))
    <3>1. n.what = "DELETE" /\ n.wd < nextWd /\ PathOf(n) = p
      BY <1>1, <1>2, <2>1, ToldIs
    <3>2. PathOf(n)' = p /\ ~IsDir(p)'
      BY <1>1, <1>4, <1>6, <3>1 DEF PathOf, tree, IsDir
    <3> QED BY <1>4, <3>1, <3>2 DEF Fit, IsDir
  <2>2. CASE n = Overflowed
    BY <1>4, <2>2, OverflowFits DEF Fit, Overflowed
  <2> QED BY <1>3, <1>7, <2>1, <2>2
<1> QED BY <1>3, <1>4, <1>6, <1>7, FilesChange

LEMMA FileRenamed ==
    ASSUME Inv, Sound, Plain, NEW p \in Paths, NEW q \in Paths, Rename(p, q)
    PROVE  Sound'
<1>1. /\ p \in Paths \ {Root} /\ q \in Paths \ {Root} /\ p \in Exists /\ IsDir(Parent(q))
      /\ IsFile(p) /\ IsFile(q) /\ UserMoves
  BY DEF Rename, CanMove, MayMove, FreeName, Plain, Exists
<1>2. IsDir(Parent(p)) /\ p \in AnyPath /\ q \in AnyPath /\ Rebase(q, q, p) = p
  BY <1>1, ParentIsDir, NamesAre, RebaseOnto DEF Inv
<1>3. /\ ~IsDir(q) /\ disk[p] \notin Inodes /\ disk[q] \notin Inodes
      /\ Last(p) \in FileNames /\ Last(q) \in FileNames
      /\ \A x \in Paths : (Within(x, p) => x = p) /\ (Within(x, q) => x = q)
  BY <1>1, FilesAreNoDirs
<1>4. UNCHANGED <<nextWd, tree, pending, job, blind, fatal, rootGone, mark>>
  BY <1>3 DEF Rename, Unmarked, Unheard, signals
<1>5. ops + 1 \in Cookies
  BY <1>1, UnheardKeeps DEF Rename, Unheard, Inv, RestOK
<1> DEFINE A == Told(p, "FROM", ops + 1)
           B == Told(q, "TO", ops + 1)
<1>6. A \in Seq(Letter) /\ B \in Seq(Letter)
  BY <1>1, <1>2, <1>5, LettersOfUsers
<1>7. Range(kq) \subseteq Range(kq')
      /\ Range(kq') \subseteq Range(kq) \cup Range(A) \cup Range(B) \cup {Overflowed}
  <2>1. Queue(p, A \o B \o Destroyed(q)) /\ Destroyed(q) = << >>
    BY <1>3 DEF Rename, Destroyed
  <2> HIDE DEF A, B
  <2>2. A \o B \in Seq(Letter) /\ A \o B \o << >> = A \o B
    BY <1>6
  <2>3. Range(A \o B) = Range(A) \cup Range(B)
    BY <1>6, RangeCat
  <2> QED BY <2>1, <2>2, <2>3, QueueIs
<1>8. ASSUME NEW n \in Range(kq') \ Range(kq)
      PROVE  Fit(n)'
  <2>1. CASE n \in Range(A) \/ n \in Range(B)
    <3>1. n.what \in {"FROM", "TO"} /\ n.wd < nextWd /\ n.name \in FileNames /\ n.name # Self
      BY <1>1, <1>2, <1>3, <2>1, ToldIs
    <3> HIDE DEF A, B
    <3> QED BY <1>4, <3>1 DEF Fit
  <2>2. CASE n = Overflowed
    BY <1>4, <2>2, OverflowFits DEF Fit, Overflowed
  <2> QED BY <1>7, <1>8, <2>1, <2>2
<1>9. ASSUME NEW x \in Paths
      PROVE  disk'[x] = disk[x] \/ {disk[x], disk'[x]} \cap Inodes = {}
  <2>1. disk'[x] = IF Within(x, q) /\ Rebase(x, q, p) \in Paths THEN disk[Rebase(x, q, p)]
                   ELSE IF Within(x, p) THEN None ELSE disk[x]
    BY DEF Rename, Moved
  <2> QED BY <1>2, <1>3, <2>1, FileEntryIs
<1> QED BY <1>4, <1>7, <1>8, <1>9, FilesChange

LEMMA FileMovedOut ==
    ASSUME Inv, Sound, Plain, NEW p \in Paths, MoveOut(p)
    PROVE  Sound'
<1>1. p \in Paths \ {Root} /\ p \in Exists /\ IsFile(p) /\ UserMoves
  BY DEF MoveOut, MayMove, Plain, Exists
<1>2. IsDir(Parent(p))
  BY <1>1, ParentIsDir DEF Inv
<1>3. /\ disk[p] \notin Inodes /\ Last(p) \in FileNames
      /\ \A x \in Paths : Within(x, p) => x = p
  BY <1>1, FilesAreNoDirs
<1>4. UNCHANGED <<nextWd, tree, pending, job, blind, fatal, rootGone, mark>>
  BY DEF MoveOut, Unheard, signals
<1>5. ops + 1 \in Cookies
  BY <1>1, UnheardKeeps DEF MoveOut, Unheard, Inv, RestOK
<1>6. Range(kq) \subseteq Range(kq')
      /\ Range(kq') \subseteq Range(kq) \cup Range(Told(p, "FROM", ops + 1)) \cup {Overflowed}
  <2>1. Told(p, "FROM", ops + 1) \in Seq(Letter)
    BY <1>1, <1>2, <1>5, LettersOfUsers
  <2> QED BY <2>1, QueueIs DEF MoveOut
<1>7. ASSUME NEW n \in Range(kq') \ Range(kq)
      PROVE  Fit(n)'
  <2>1. CASE n \in Range(Told(p, "FROM", ops + 1))
    <3>1. n.what = "FROM" /\ n.wd < nextWd /\ n.name \in FileNames /\ n.name # Self
      BY <1>1, <1>2, <1>3, <2>1, ToldIs
    <3> QED BY <1>4, <3>1 DEF Fit
  <2>2. CASE n = Overflowed
    BY <1>4, <2>2, OverflowFits DEF Fit, Overflowed
  <2> QED BY <1>6, <1>7, <2>1, <2>2
<1>8. \A x \in Paths : disk'[x] = disk[x] \/ {disk[x], disk'[x]} \cap Inodes = {}
  BY <1>3, FileEntryIs DEF MoveOut
<1> QED BY <1>4, <1>6, <1>7, <1>8, FilesChange

LEMMA RootLost ==
    ASSUME Inv, Sound, LoseRoot
    PROVE  Sound'
<1>1. 1 \in Inodes /\ mark[1] # None
  BY ConstantsAssumption DEF Inodes, Sound, RootKept
<1>2. UNCHANGED <<nextWd, tree, pending, job, blind, fatal, disk, mark>>
  BY DEF LoseRoot, signals
<1>3. Range(kq') = Range(kq) \cup Range(ToldSelf(1, "MOVED"))
  <2>1. kq \in Seq(Letter) /\ ToldSelf(1, "MOVED") \in Seq(Letter)
    BY <1>1, LettersOfUsers DEF Inv, KernelOK
  <2> QED BY <2>1, RangeCat DEF LoseRoot
<1>4. ASSUME NEW n \in Range(ToldSelf(1, "MOVED"))
      PROVE  Fit(n)' /\ Leaving(n)
  <2>1. n.what = "MOVED" /\ n.name = Self /\ n.wd = mark[1]
    BY <1>1, ToldSelfIs
  <2>2. mark[1] < nextWd
    BY <1>1 DEF Sound, Marks
  <2> QED BY <1>2, <2>1, <2>2 DEF Fit, Leaving
<1>5. \E n \in Range(kq') : Leaving(n)
  <2>1. \E n \in Range(ToldSelf(1, "MOVED")) : TRUE
    BY <1>1, ToldSelfIs
  <2> QED BY <1>3, <1>4, <2>1
<1>6. \A n \in Range(kq') \ Range(kq) : Fit(n)'
  BY <1>3, <1>4
<1>7. \A x \in Paths : disk'[x] = disk[x] \/ {disk[x], disk'[x]} \cap Inodes = {}
  BY <1>2
<1> QED BY <1>2, <1>3, <1>5, <1>6, <1>7, FilesChange

\* A notice that leads to a name concerns that name.
LEMMA NoticesConcern ==
    ASSUME NEW S, NEW n \in S, byWd[n.wd] # NoPath
    PROVE  PathOf(n) \in Concerned(S)
<1>1. KnownAs(n.wd) = byWd[n.wd]
  BY DEF KnownAs
<1> QED BY <1>1 DEF Concerned, PathOf

\* A directory that may be made is one the watcher has no news of.
LEMMA NoNewsOf ==
    ASSUME Inv, Sound, Plain, NEW p \in Paths, Make(p), ~IsFile(p)
    PROVE  /\ byPath[p] = None /\ p \in DirPaths
           /\ job[0].rel # p
           /\ \A n \in Range(kq) : n.what \in {"DELETE", "IGNORED"} /\ byWd[n.wd] # NoPath
                                   => PathOf(n) # p
<1>1. p \in DirPaths /\ p \in AnyPath /\ Within(p, p) /\ ~IsDir(p)
  BY NamesAre, WithinOrder, FileEntryIs DEF DirPaths, Make, IsDir
<1>2. p \notin InHand
  BY <1>1 DEF Make, Plain
<1>3. job[0].rel # p
  BY <1>2 DEF InHand
<1>4. ASSUME NEW n \in Range(kq), n.what \in {"DELETE", "IGNORED"}, byWd[n.wd] # NoPath
      PROVE  PathOf(n) # p
  <2>1. n \in Letter
    BY QueuedAre
  <2>2. n.wd # None
    BY <1>4, <2>1 DEF Letter, Wds, None
  <2> DEFINE S == {m \in Range(kq) : m.wd # None}
  <2>3. PathOf(n) \in Concerned(S)
    BY <1>4, <2>2, NoticesConcern
  <2> QED BY <1>2, <2>3 DEF InHand
<1>5. ASSUME byPath[p] # None
      PROVE  FALSE
  <2>1. byWd[byPath[p]] = p /\ p # NoPath
    BY <1>1, <1>5, NoPathIs DEF Inv, TreeOK, Registry
  <2>2. Removed(p, byPath[p])
    BY <1>1, <1>5 DEF Sound, Entries
  <2>3. PICK n \in Range(kq) : Parting(n, byPath[p])
    BY <1>3, <2>2 DEF Removed
  <2>4. PathOf(n) = p
    BY <2>1, <2>3 DEF Parting, PathOf
  <2> QED BY <1>4, <2>1, <2>3, <2>4 DEF Parting
<1> QED BY <1>1, <1>3, <1>4, <1>5

LEMMA CalledAbove ==
    ASSUME Inv, NEW p \in Paths, NEW q \in Paths, Within(p, q)
    PROVE  /\ Called(q) => Called(p)
           /\ Walked(q) => Walked(p)
<1>1. p \in AnyPath /\ q \in AnyPath
  BY NamesAre
<1>2. ASSUME NEW n \in Range(kq), Calls(n, q)
      PROVE  Calls(n, p)
  <2>1. PathOf(n) \in AnyPath
    <3>1. n \in Letter /\ n.what # "OVERFLOW"
      BY <1>2, QueuedAre DEF Calls
    <3> QED BY <3>1, PathOfIs
  <2> QED BY <1>1, <1>2, <2>1, WithinOrder DEF Calls
<1>3. ASSUME NEW t \in Range(job[0].todo), Within(q, t)
      PROVE  Within(p, t)
  <2>1. job[0].todo \in Seq(AnyPath)
    BY ConstantsAssumption DEF Inv, WorkOK, Task, Jobs
  <2>2. t \in AnyPath
    BY <2>1 DEF Range
  <2> QED BY <1>1, <1>3, <2>2, WithinOrder
<1> QED BY <1>2, <1>3 DEF Called, Walked

LEMMA DirMade ==
    ASSUME Inv, Sound, Plain, NEW p \in Paths, Make(p), ~IsFile(p)
    PROVE  Sound'
<1> DEFINE q == Parent(p)
           C == Told(p, "CREATE", 0)
<1>1. /\ p \in Paths \ {Root} /\ IsDir(q) /\ disk[p] = None /\ InodesLeft
      /\ Queue(p, C)
  BY DEF Make, FreeName
<1>2. /\ byPath[p] = None /\ p \in DirPaths /\ job[0].rel # p
      /\ \A n \in Range(kq) : n.what \in {"DELETE", "IGNORED"} /\ byWd[n.wd] # NoPath
                              => PathOf(n) # p
  BY NoNewsOf
<1>3. Range(kq') = Range(kq) \cup Range(C)
  <2>1. C \in Seq(Letter)
    BY <1>1, LettersOfUsers
  <2> HIDE DEF C
  <2> QED BY <1>1, <2>1, QueueIs
<1>4. UNCHANGED <<nextWd, tree, pending, job, blind, fatal, rootGone, mark>>
  BY DEF Make, Unheard, signals
<1>5. PICK i \in Inodes : Unused(i) /\ disk' = [disk EXCEPT ![p] = i]
  BY <1>1 DEF Make, InodesLeft, FreshInode
<1>6. /\ mark[i] = None /\ \A x \in Paths : disk[x] # i
      /\ DOMAIN disk = Paths
  BY <1>5 DEF Unused, Range, Inv, DiskOK
<1>7. /\ \A x \in Paths : disk'[x] = IF x = p THEN i ELSE disk[x]
      /\ \A x : IsDir(x)' <=> IsDir(x) \/ x = p
      /\ ~IsDir(p)
  BY <1>1, <1>5, <1>6, FileEntryIs DEF IsDir
<1>8. q \in DirPaths /\ q \in Paths /\ Within(p, q)
  BY <1>1, SelfIsNoName DEF DirPaths
<1>9. \A n \in Range(C) : /\ n.what = "CREATE" /\ n.wd < nextWd
                          /\ byWd[n.wd] # NoPath /\ PathOf(n) = p
  BY <1>1, ToldIs
<1>10. byPath[q] # None => \E n \in Range(C) : TRUE
  BY <1>1, ToldIs
<1> HIDE DEF q, C
<1>11. Notices'
  <2> SUFFICES ASSUME NEW n \in Range(kq') PROVE Fit(n)'
    BY DEF Notices
  <2>1. CASE n \in Range(kq)
    <3>1. Fit(n)
      BY <2>1 DEF Sound, Notices
    <3>2. PathOf(n)' = PathOf(n)
      BY <1>4 DEF PathOf, tree
    <3>3. n.what \in {"DELETE", "IGNORED"} /\ byWd'[n.wd] # NoPath => ~IsDir(PathOf(n))'
      <4> SUFFICES ASSUME n.what \in {"DELETE", "IGNORED"}, byWd'[n.wd] # NoPath
                   PROVE  ~IsDir(PathOf(n))'
        OBVIOUS
      <4>1. PathOf(n) # p /\ ~IsDir(PathOf(n))
        BY <1>2, <1>4, <2>1, <3>1 DEF Fit, tree
      <4>2. PICK x : x = PathOf(n)
        OBVIOUS
      <4>3. ~IsDir(x)'
        BY <1>7, <4>1, <4>2
      <4> QED BY <3>2, <4>2, <4>3 DEF IsDir
    <3> QED BY <1>4, <3>1, <3>3 DEF Fit
  <2>2. CASE n \in Range(C)
    BY <1>4, <1>9, <2>2 DEF Fit
  <2> QED BY <1>3, <2>1, <2>2
<1>12. /\ \A x, w : Removed(x, w) => Removed(x, w)'
       /\ \A x : Called(x) => Called(x)'
       /\ \A x : Walked(x) => Walked(x)'
  BY <1>3, <1>4 DEF Removed, Parting, Called, Calls, Walked, PathOf, tree
<1>13. Places'
  <2>1. /\ \A x, y \in Paths : IsDir(x) /\ disk[x] = disk[y] => x = y
        /\ \A x \in Paths : IsDir(x) => x \in DirPaths
        /\ disk[Root] = 1 /\ p # Root /\ Root \in Paths
    BY <1>1, InitPaths DEF Sound, Places
  <2>2. ASSUME NEW x \in Paths, NEW y \in Paths, IsDir(x)', disk'[x] = disk'[y]
        PROVE  x = y
    BY <1>6, <1>7, <2>1, <2>2
  <2>3. \A x \in Paths : IsDir(x)' => x \in DirPaths
    BY <1>2, <1>7, <2>1
  <2>4. disk'[Root] = 1
    BY <1>7, <2>1
  <2> QED BY <2>2, <2>3, <2>4 DEF Places
<1>14. Marks'
  <2>1. ASSUME NEW k \in Inodes, mark'[k] # None
        PROVE  \E x \in Paths : disk'[x] = k
    <3>1. PICK x \in Paths : disk[x] = k
      BY <1>4, <2>1 DEF Sound, Marks
    <3>2. x # p
      BY <1>1, <3>1, FileEntryIs
    <3> QED BY <1>7, <3>1, <3>2
  <2> QED BY <1>4, <2>1 DEF Sound, Marks, tree
<1>15. Entries'
  <2> SUFFICES ASSUME NEW x \in DirPaths
               PROVE  IF IsDir(x)' THEN byPath'[x] = mark'[disk'[x]]
                      ELSE byPath'[x] # None => Removed(x, byPath[x])'
    BY <1>4 DEF Entries, tree
  <2>1. x \in Paths /\ (IF IsDir(x) THEN byPath[x] = mark[disk[x]]
                        ELSE byPath[x] # None => Removed(x, byPath[x]))
    BY NamesAre DEF Sound, Entries
  <2>2. byPath' = byPath /\ mark' = mark
    BY <1>4 DEF tree
  <2>3. CASE x = p
    BY <1>2, <1>6, <1>7, <2>1, <2>2, <2>3
  <2>4. CASE x # p
    BY <1>7, <1>12, <2>1, <2>2, <2>4
  <2> QED BY <2>3, <2>4
<1>16. Reached'
  <2> SUFFICES ASSUME NEW x \in DirPaths, IsDir(x)'
               PROVE  byPath'[x] # None \/ blind' \/ Called(x)' \/ Walked(x)'
    BY DEF Reached
  <2>1. byPath' = byPath /\ blind' = blind
    BY <1>4 DEF tree
  <2>2. CASE x # p
    <3>1. IsDir(x)
      BY <1>7, <2>2
    <3> QED BY <1>12, <2>1, <3>1 DEF Sound, Reached
  <2>3. CASE x = p
    <3>1. CASE byPath[q] # None
      <4>1. PICK n \in Range(C) : TRUE
        BY <1>10, <3>1
      <4>2. Within(p, p)
        BY <1>1, NamesAre, WithinOrder
      <4>3. Calls(n, p)
        BY <1>9, <4>2 DEF Calls
      <4>4. Calls(n, p)'
        BY <1>4, <4>3 DEF Calls, PathOf, tree
      <4> QED BY <1>3, <2>3, <4>4 DEF Called
    <3>2. CASE byPath[q] = None
      <4>1. blind \/ Called(q) \/ Walked(q)
        BY <1>1, <1>8, <3>2 DEF Sound, Reached
      <4>2. blind \/ Called(p) \/ Walked(p)
        BY <1>8, <4>1, CalledAbove
      <4> QED BY <1>12, <2>1, <2>3, <4>2
    <3> QED BY <3>1, <3>2
  <2> QED BY <2>2, <2>3
<1>17. LoopTask'
  <2>1. byPath' = byPath /\ job' = job
    BY <1>4 DEF tree
  <2>2. PICK r : r = job[0].rel
    OBVIOUS
  <2>3. job[0].at = "gone" => ~IsDir(r)'
    BY <1>2, <1>7, <2>2 DEF Sound, LoopTask
  <2> QED BY <2>1, <2>2, <2>3 DEF Sound, LoopTask, IsDir
<1>18. FileTasks'
  BY <1>4 DEF Sound, FileTasks
<1>19. RootKept'
  BY <1>3, <1>4 DEF Sound, RootKept, Leaving
<1> QED BY <1>11, <1>13, <1>14, <1>15, <1>16, <1>17, <1>18, <1>19 DEF Sound

LEMMA DirUnlinked ==
    ASSUME Inv, Sound, Plain, NEW p \in Paths, Unlink(p), IsDir(p)
    PROVE  Sound'
<1> DEFINE i == disk[p]
           A == ToldSelf(i, "DELETE")
           B == ToldSelf(i, "IGNORED")
           C == Told(p, "DELETE", 0)
<1>1. /\ p \in Paths \ {Root} /\ p \in Exists /\ p \in DirPaths /\ ~IsFile(p)
      /\ Queue(p, (A \o B) \o C)
  BY DEF Unlink, Exists, Sound, Places, DirPaths, Destroyed
<1>2. IsDir(Parent(p))
  BY <1>1, ParentIsDir DEF Inv
<1>3. /\ i \in Inodes /\ byPath[p] = mark[i]
      /\ byPath[p] # None => byPath[p] \in Wds /\ byPath[p] < nextWd /\ byWd[byPath[p]] = p
  BY WatchedDirs
<1>4. Range(kq') = Range(kq) \cup (Range(A) \cup Range(B)) \cup Range(C)
  <2>1. A \in Seq(Letter) /\ B \in Seq(Letter) /\ C \in Seq(Letter)
    BY <1>1, <1>2, <1>3, LettersOfUsers
  <2> HIDE DEF A, B, C
  <2>2. A \o B \in Seq(Letter) /\ (A \o B) \o C \in Seq(Letter)
    BY <2>1
  <2>3. Range((A \o B) \o C) = (Range(A) \cup Range(B)) \cup Range(C)
    <3>1. Range(A \o B) = Range(A) \cup Range(B)
      BY <2>1, RangeCat
    <3>2. Range((A \o B) \o C) = Range(A \o B) \cup Range(C)
      BY <2>1, <2>2, RangeCat, ZenonT(60)
    <3> QED BY <3>1, <3>2
  <2> QED BY <1>1, <2>2, <2>3, QueueIs
<1>5. UNCHANGED <<nextWd, tree, pending, job, blind, fatal, rootGone>>
  BY DEF Unlink, Unheard, signals
<1>6. /\ disk' = [disk EXCEPT ![p] = None] /\ mark' = [mark EXCEPT ![i] = None]
      /\ disk \in Disks /\ mark \in [Inodes -> 0..MaxWd]
  BY DEF Unlink, Unmarked, Inv, DiskOK, Disks, KernelOK
<1>7. /\ \A x \in Paths : disk'[x] = IF x = p THEN None ELSE disk[x]
      /\ \A k \in Inodes : mark'[k] = IF k = i THEN None ELSE mark[k]
      /\ \A x : IsDir(x)' <=> IsDir(x) /\ x # p
  BY <1>6, FileEntryIs DEF IsDir, Disks
<1>8. /\ \A x, y \in Paths : IsDir(x) /\ disk[x] = disk[y] => x = y
      /\ \A x \in Paths : IsDir(x) => x \in DirPaths
      /\ disk[Root] = 1 /\ Root \in Paths /\ p # Root /\ IsDir(Root) /\ 1 \in Inodes
  <2>1. disk[Root] = 1 /\ Root \in Paths /\ 1 \in Inodes
    BY InitPaths, ConstantsAssumption DEF Sound, Places, Inodes
  <2> QED BY <1>1, <2>1 DEF Sound, Places, IsDir
<1>9. \A x \in Paths : IsDir(x) /\ x # p => disk[x] # i
  BY <1>8
<1>10. /\ \A n \in Range(A) : n.what = "DELETE" /\ n.name = Self /\ n.wd = byPath[p]
       /\ \A n \in Range(B) : n.what = "IGNORED" /\ n.name = Self /\ n.wd = byPath[p]
       /\ byPath[p] # None => (\E n \in Range(A) : TRUE)
       /\ byPath[p] = None => Range(A) = {} /\ Range(B) = {}
  <2>1. byPath[p] = None => A = << >> /\ B = << >>
    BY <1>3 DEF ToldSelf
  <2> QED BY <1>3, <2>1, ToldSelfIs, RangeOfFew
<1>11. \A n \in Range(C) : /\ n.what = "DELETE" /\ n.name # Self /\ n.wd < nextWd
                           /\ byWd[n.wd] # NoPath /\ PathOf(n) = p
  BY <1>1, <1>2, ToldIs
<1> HIDE DEF i, A, B, C
<1>12. Notices'
  <2> SUFFICES ASSUME NEW n \in Range(kq') PROVE Fit(n)'
    BY DEF Notices
  <2>1. PICK x : x = PathOf(n)
    OBVIOUS
  <2>2. PathOf(n)' = x
    BY <1>5, <2>1 DEF PathOf, tree
  <2>3. IsDir(PathOf(n))' <=> IsDir(x)'
    BY <2>2 DEF IsDir
  <2>4. CASE n \in Range(kq)
    <3>1. Fit(n)
      BY <2>4 DEF Sound, Notices
    <3> QED BY <1>5, <1>7, <2>1, <2>3, <3>1 DEF Fit, tree
  <2>5. CASE n \in Range(A) \/ n \in Range(B)
    <3>1. /\ n.what \in {"DELETE", "IGNORED"} /\ n.name = Self /\ n.wd < nextWd
          /\ byWd[n.wd] = p
      BY <1>3, <1>10, <2>5
    <3>2. x = p
      BY <2>1, <3>1 DEF PathOf
    <3> QED BY <1>5, <1>7, <2>3, <3>1, <3>2 DEF Fit, tree
  <2>6. CASE n \in Range(C)
    <3>1. n.what = "DELETE" /\ n.wd < nextWd /\ x = p
      BY <1>11, <2>1, <2>6
    <3> QED BY <1>5, <1>7, <2>3, <3>1 DEF Fit, tree
  <2> QED BY <1>4, <2>4, <2>5, <2>6
<1>13. /\ \A x, w : Removed(x, w) => Removed(x, w)'
       /\ \A x : Called(x) => Called(x)'
       /\ \A x : Walked(x) => Walked(x)'
  BY <1>4, <1>5 DEF Removed, Parting, Called, Calls, Walked, PathOf, tree
<1>14. Places'
  <2>1. ASSUME NEW x \in Paths, NEW y \in Paths, IsDir(x)', disk'[x] = disk'[y]
        PROVE  x = y
    <3>1. IsDir(x) /\ x # p /\ disk'[x] = disk[x] /\ disk[x] # None
      BY <1>7, <2>1, FileEntryIs DEF IsDir
    <3> QED BY <1>7, <1>8, <2>1, <3>1
  <2>2. disk'[Root] = 1 /\ \A x \in Paths : IsDir(x)' => x \in DirPaths
    BY <1>7, <1>8
  <2> QED BY <2>1, <2>2 DEF Places
<1>15. Marks'
  <2>1. ASSUME NEW k \in Inodes
        PROVE  mark'[k] < nextWd' /\ (mark'[k] # None => \E x \in Paths : disk'[x] = k)
    <3>1. CASE k = i
      <4>1. mark'[k] = None /\ nextWd' \in Nat \ {0}
        BY <1>5, <1>7, <3>1, ConstantsAssumption DEF Inv, KernelOK
      <4> QED BY <4>1 DEF None
    <3>2. CASE k # i
      <4>1. mark'[k] = mark[k] /\ mark[k] < nextWd
        BY <1>7, <3>2 DEF Sound, Marks
      <4>2. ASSUME mark[k] # None
            PROVE  \E x \in Paths : disk'[x] = k
        <5>1. PICK x \in Paths : disk[x] = k
          BY <4>2 DEF Sound, Marks
        <5>2. x # p
          BY <3>2, <5>1 DEF i
        <5> QED BY <1>7, <5>1, <5>2
      <4> QED BY <1>5, <4>1, <4>2
    <3> QED BY <3>1, <3>2
  <2> QED BY <1>5, <2>1 DEF Sound, Marks, tree
<1>16. Entries'
  <2> SUFFICES ASSUME NEW x \in DirPaths
               PROVE  IF IsDir(x)' THEN byPath'[x] = mark'[disk'[x]]
                      ELSE byPath'[x] # None => Removed(x, byPath[x])'
    BY <1>5 DEF Entries, tree
  <2>1. x \in Paths /\ (IF IsDir(x) THEN byPath[x] = mark[disk[x]]
                        ELSE byPath[x] # None => Removed(x, byPath[x]))
    BY NamesAre DEF Sound, Entries
  <2>2. byPath' = byPath
    BY <1>5 DEF tree
  <2>3. CASE x = p
    <3>1. ASSUME byPath[p] # None
          PROVE  Removed(p, byPath[p])'
      <4>1. PICK n \in Range(A) : n.what = "DELETE" /\ n.name = Self /\ n.wd = byPath[p]
        BY <1>10, <3>1
      <4>2. n \in Range(kq')
        BY <1>4
      <4> QED BY <2>2, <4>1, <4>2 DEF Removed, Parting
    <3> QED BY <1>7, <2>2, <2>3, <3>1
  <2>4. CASE x # p /\ IsDir(x)
    <3>1. disk[x] \in Inodes /\ disk[x] # i
      BY <1>9, <2>1, <2>4 DEF IsDir
    <3> QED BY <1>7, <2>1, <2>2, <2>4, <3>1
  <2>5. CASE x # p /\ ~IsDir(x)
    BY <1>7, <1>13, <2>1, <2>2, <2>5
  <2> QED BY <2>3, <2>4, <2>5
<1>17. Reached'
  <2> SUFFICES ASSUME NEW x \in DirPaths, IsDir(x)'
               PROVE  byPath'[x] # None \/ blind' \/ Called(x)' \/ Walked(x)'
    BY DEF Reached
  <2>1. byPath' = byPath /\ blind' = blind /\ IsDir(x)
    BY <1>5, <1>7 DEF tree
  <2> QED BY <1>13, <2>1 DEF Sound, Reached
<1>18. LoopTask'
  <2>1. byPath' = byPath /\ job' = job
    BY <1>5 DEF tree
  <2>2. PICK r : r = job[0].rel
    OBVIOUS
  <2>3. job[0].at = "gone" => ~IsDir(r)'
    BY <1>7, <2>2 DEF Sound, LoopTask
  <2> QED BY <2>1, <2>2, <2>3 DEF Sound, LoopTask, IsDir
<1>19. FileTasks'
  BY <1>5 DEF Sound, FileTasks
<1>20. RootKept'
  <2>1. mark'[1] = mark[1]
    BY <1>7, <1>8, <1>9
  <2>2. \A n : Leaving(n) => Leaving(n)'
    BY <2>1 DEF Leaving
  <2> QED BY <1>4, <1>5, <2>1, <2>2 DEF Sound, RootKept
<1> QED BY <1>12, <1>14, <1>15, <1>16, <1>17, <1>18, <1>19, <1>20 DEF Sound

LEMMA UsersKeepSound == ASSUME Inv, Sound, Plain, UserStep PROVE Sound'
<1>1. CASE \E p \in Paths : Make(p)
  BY <1>1, FileMade, DirMade
<1>2. CASE \E p \in Paths : Unlink(p)
  BY <1>2, FileUnlinked, DirUnlinked
<1>3. CASE \E p \in Paths : MoveOut(p)
  BY <1>3, FileMovedOut
<1>4. CASE \E p \in Paths : MoveIn(p)
  BY <1>4 DEF MoveIn, Plain
<1>5. CASE \E p, q \in Paths : Rename(p, q)
  BY <1>5, FileRenamed
<1>6. CASE LoseRoot
  BY <1>6, RootLost
<1> QED BY <1>1, <1>2, <1>3, <1>4, <1>5, <1>6 DEF UserStep

-------------------------------------------------------------------------------
(* The watcher.                                                              *)

\* The registry forgets the paths in X, and nothing else changes in it.
Drops(X) == /\ byPath' = [q \in DirPaths |-> IF q \in X THEN None ELSE byPath[q]]
            /\ byWd' = [w \in Wds |-> IF byWd[w] \in X THEN NoPath ELSE byWd[w]]

LEMMA DropsNothing ==
    ASSUME Inv, UNCHANGED tree
    PROVE  Drops({})
<1>1. byPath' = byPath /\ byWd' = byWd
  BY DEF tree
<1>2. byPath = [q \in DirPaths |-> byPath[q]] /\ byWd = [w \in Wds |-> byWd[w]]
  BY DEF Inv, TreeOK
<1> QED BY <1>1, <1>2 DEF Drops

\* As long as what is forgotten is gone, the calls for what is there are understood.
LEMMA StillCalled ==
    ASSUME Inv, Sound, NEW X \in SUBSET DirPaths, \A q \in X : ~IsDir(q), Drops(X),
           NEW n \in Range(kq), NEW p \in Paths, IsDir(p), Calls(n, p)
    PROVE  Calls(n, p)'
<1>1. n \in Letter /\ n.what # "OVERFLOW"
  BY QueuedAre DEF Calls
<1>2. /\ n.wd \in Wds /\ byWd[n.wd] \in AnyPath /\ PathOf(n) \in AnyPath
      /\ Within(PathOf(n), byWd[n.wd]) /\ p \in AnyPath
  BY <1>1, PathOfIs, NamesAre
<1>3. Within(p, byWd[n.wd])
  BY <1>2, WithinOrder DEF Calls
<1>4. byWd[n.wd] \in Paths
  BY <1>2, <1>3, PathsAbove
<1>5. IsDir(byWd[n.wd])
  BY <1>3, <1>4, DirsAbove DEF Inv
<1>6. byWd'[n.wd] = byWd[n.wd]
  BY <1>2, <1>5 DEF Drops
<1> QED BY <1>6 DEF Calls, PathOf

LEMMA WatcherSteps ==
    ASSUME Inv, Sound, UNCHANGED <<disk, mark, nextWd>>,
           NEW X \in SUBSET DirPaths, \A q \in X : ~IsDir(q), Drops(X),
           Range(kq') \subseteq Range(kq), blind => blind',
           \A p \in DirPaths \ X, w \in Wds : byPath[p] = w /\ Removed(p, w) => Removed(p, w)',
           \A p \in DirPaths : IsDir(p) /\ (Called(p) \/ Walked(p)) =>
                                   byPath[p] # None \/ blind' \/ Called(p)' \/ Walked(p)',
           LoopTask', FileTasks', RootKept'
    PROVE  Sound'
<1>1. \A x : IsDir(x)' <=> IsDir(x)
  BY DEF IsDir
<1>2. /\ \A q \in DirPaths : byPath'[q] = IF q \in X THEN None ELSE byPath[q]
      /\ \A w \in Wds : byWd'[w] = IF byWd[w] \in X THEN NoPath ELSE byWd[w]
  BY DEF Drops
<1>3. Places'
  BY DEF Sound, Places, IsDir
<1>4. Marks'
  <2>1. ASSUME NEW w \in Wds, byWd'[w] # NoPath
        PROVE  w < nextWd' /\ byWd'[w] \in DirPaths /\ byPath'[byWd'[w]] = w
    <3>1. byWd'[w] = byWd[w] /\ byWd[w] \notin X
      BY <1>2, <2>1
    <3> QED BY <1>2, <2>1, <3>1 DEF Sound, Marks
  <2> QED BY <2>1 DEF Sound, Marks
<1>5. Notices'
  <2> SUFFICES ASSUME NEW n \in Range(kq') PROVE Fit(n)'
    BY DEF Notices
  <2>1. Fit(n) /\ n \in Letter
    BY QueuedAre DEF Sound, Notices
  <2>2. ASSUME n.what \in {"DELETE", "IGNORED"}, byWd'[n.wd] # NoPath
        PROVE  ~IsDir(PathOf(n))'
    <3>1. n.wd \in Wds
      BY <2>1, <2>2 DEF Letter
    <3>2. byWd'[n.wd] = byWd[n.wd]
      BY <1>2, <2>2, <3>1
    <3> QED BY <2>1, <2>2, <3>2 DEF Fit, PathOf, IsDir
  <2> QED BY <2>1, <2>2 DEF Fit
<1>6. Entries'
  <2> SUFFICES ASSUME NEW p \in DirPaths
               PROVE  IF IsDir(p)' THEN byPath'[p] = mark'[disk'[p]]
                      ELSE byPath'[p] # None => Removed(p, byPath[p])'
    BY DEF Entries
  <2>1. IF IsDir(p) THEN byPath[p] = mark[disk[p]]
        ELSE byPath[p] # None => Removed(p, byPath[p])
    BY DEF Sound, Entries
  <2>2. CASE p \in X
    BY <1>1, <1>2, <2>2
  <2>3. CASE p \notin X /\ IsDir(p)
    BY <1>1, <1>2, <2>1, <2>3
  <2>4. CASE p \notin X /\ ~IsDir(p)
    <3> SUFFICES ASSUME byPath[p] # None PROVE Removed(p, byPath[p])'
      BY <1>1, <1>2, <2>4
    <3>1. PICK w \in Wds : w = byPath[p]
      BY DEF Inv, TreeOK, Wds, None
    <3>2. Removed(p, w)' /\ w = byPath'[p]
      BY <1>2, <2>1, <2>4, <3>1
    <3> QED BY <3>2 DEF Removed
  <2> QED BY <2>2, <2>3, <2>4
<1>7. Reached'
  <2> SUFFICES ASSUME NEW p \in DirPaths, IsDir(p)'
               PROVE  byPath'[p] # None \/ blind' \/ Called(p)' \/ Walked(p)'
    BY DEF Reached
  <2>1. IsDir(p) /\ p \notin X /\ byPath'[p] = byPath[p]
    BY <1>1, <1>2
  <2>2. byPath[p] # None \/ blind \/ Called(p) \/ Walked(p)
    BY <2>1 DEF Sound, Reached
  <2> QED BY <2>1, <2>2
<1> QED BY <1>3, <1>4, <1>5, <1>6, <1>7 DEF Sound

LEMMA RootIsWatched ==
    ASSUME Inv, Sound
    PROVE  mark[1] \in Wds /\ byWd[mark[1]] = Root /\ Root # NoPath
<1>1. Root \in Paths /\ disk[Root] = 1 /\ mark[1] # None /\ IsDir(Root)
  BY InitPaths, ConstantsAssumption DEF Sound, Places, RootKept, IsDir, Inodes
<1> QED BY <1>1, WatchedDirs

LEMMA LoopTakes ==
    ASSUME Inv, Sound, NEW what, Taking(what)
    PROVE  /\ Range(kq) = Range(kq') \cup {Next1}
           /\ Next1 \in Letter /\ Fit(Next1) /\ Next1.what \in what
           /\ job[0].at = "idle" /\ 0 \in Jobs /\ 0 \notin Cookies
           /\ \A p, w : Removed(p, w) => Parting(Next1, w) \/ \E n \in Range(kq') : Parting(n, w)
           /\ \A p : Called(p) => Calls(Next1, p) \/ \E n \in Range(kq') : Calls(n, p)
           /\ \A p : ~Walked(p)
<1>1. Range(kq) = Range(kq') \cup {Next1} /\ kq # << >>
  BY RangeHead DEF Taking, Next1, Inv, KernelOK
<1>2. Next1 \in Letter /\ Next1.what \in what
  BY TakingIs
<1>3. Fit(Next1)
  BY <1>1 DEF Sound, Notices
<1>4. job[0].at = "idle"
  BY DEF Taking, Idle
<1>5. 0 \in Jobs /\ 0 \notin Cookies
  BY ConstantsAssumption DEF Jobs, Cookies
<1>6. \A p, w : Removed(p, w) => Parting(Next1, w) \/ \E n \in Range(kq') : Parting(n, w)
  BY <1>1, <1>4 DEF Removed
<1>7. \A p : Called(p) => Calls(Next1, p) \/ \E n \in Range(kq') : Calls(n, p)
  BY <1>1 DEF Called
<1>8. \A p : ~Walked(p)
  BY <1>4 DEF Walked
<1> QED BY <1>1, <1>2, <1>3, <1>4, <1>5, <1>6, <1>7, <1>8

\* A notice is taken, and what it was needed for is in hand.
LEMMA NoticeTaken ==
    ASSUME Inv, Sound, NEW what, Taking(what),
           UNCHANGED <<disk, rootGone, mark, nextWd, tree, blind>>,
           \A p \in DirPaths, w \in Wds : byPath[p] = w /\ Parting(Next1, w) =>
                                              job'[0].at = "gone" /\ job'[0].rel = p,
           \A p \in DirPaths : IsDir(p) /\ Calls(Next1, p) => Walked(p)',
           Leaving(Next1) \/ fatal => fatal',
           LoopTask', FileTasks'
    PROVE  Sound'
<1>1. /\ Range(kq) = Range(kq') \cup {Next1}
      /\ \A p, w : Removed(p, w) => Parting(Next1, w) \/ \E n \in Range(kq') : Parting(n, w)
      /\ \A p : Called(p) => Calls(Next1, p) \/ \E n \in Range(kq') : Calls(n, p)
      /\ \A p : ~Walked(p)
  BY LoopTakes
<1>2. Drops({})
  BY DropsNothing
<1>3. ASSUME NEW p \in DirPaths, NEW w \in Wds, byPath[p] = w, Removed(p, w)
      PROVE  Removed(p, w)'
  BY <1>1, <1>3 DEF Removed, Parting
<1>4. ASSUME NEW p \in DirPaths, IsDir(p), Called(p) \/ Walked(p)
      PROVE  Called(p)' \/ Walked(p)'
  <2>1. CASE Calls(Next1, p)
    BY <1>4, <2>1
  <2>2. CASE \E n \in Range(kq') : Calls(n, p)
    BY <2>2 DEF Called, Calls, PathOf, tree
  <2> QED BY <1>1, <1>4, <2>1, <2>2
<1>5. RootKept'
  BY <1>1 DEF Sound, RootKept, Leaving
<1>6. Range(kq') \subseteq Range(kq)
  BY <1>1
<1> QED BY <1>2, <1>3, <1>4, <1>5, <1>6, WatcherSteps

LEMMA OverflowKeepsSound == ASSUME Inv, Sound, HandleOverflow PROVE Sound'
<1>1. Taking({"OVERFLOW"}) /\ Next1.what = "OVERFLOW"
  BY LoopTakes DEF HandleOverflow
<1>2. UNCHANGED <<disk, rootGone, mark, nextWd, tree, blind, fatal, job, pending>>
  BY DEF HandleOverflow, users
<1>3. job[0].at = "idle"
  BY <1>1, LoopTakes
<1>4. LoopTask' /\ FileTasks'
  BY <1>2, <1>3 DEF LoopTask, FileTasks, Sound
<1>5. ~Leaving(Next1) /\ \A x : ~Parting(Next1, x) /\ ~Calls(Next1, x)
  BY <1>1 DEF Leaving, Parting, Calls
<1> QED BY <1>1, <1>2, <1>4, <1>5, NoticeTaken

LEMMA ResidualKeepsSound == ASSUME Inv, Sound, HandleResidual PROVE Sound'
<1> DEFINE what == {"CREATE", "DELETE", "FROM", "TO", "MOVED"}
<1>1. Taking(what) /\ byWd[Next1.wd] = NoPath
  BY DEF HandleResidual, Known
<1>2. UNCHANGED <<disk, rootGone, mark, nextWd, tree, blind, fatal, job, pending>>
  BY DEF HandleResidual, users, signals
<1>3. job[0].at = "idle"
  BY <1>1, LoopTakes
<1>4. LoopTask' /\ FileTasks'
  BY <1>2, <1>3 DEF LoopTask, FileTasks, Sound
<1>5. ~Leaving(Next1) /\ \A x : ~Calls(Next1, x)
  BY <1>1, RootIsWatched DEF Leaving, Calls
<1>6. ASSUME NEW p \in DirPaths, NEW w \in Wds, byPath[p] = w, Parting(Next1, w)
      PROVE  FALSE
  <2>1. byWd[w] = p /\ p # NoPath
    BY <1>6, NoPathIs DEF Inv, TreeOK, Registry, Wds, None
  <2> QED BY <1>1, <1>6, <2>1 DEF Parting
<1> QED BY <1>1, <1>2, <1>4, <1>5, <1>6, NoticeTaken

LEMMA MovedKeepsSound == ASSUME Inv, Sound, HandleMoved PROVE Sound'
<1>1. Taking({"MOVED"}) /\ Next1.what = "MOVED"
  BY LoopTakes DEF HandleMoved
<1>2. UNCHANGED <<disk, rootGone, mark, nextWd, tree, blind, job, pending>>
  BY DEF HandleMoved, users
<1>3. job[0].at = "idle"
  BY <1>1, LoopTakes
<1>4. LoopTask' /\ FileTasks'
  BY <1>2, <1>3 DEF LoopTask, FileTasks, Sound
<1>5. \A x : ~Parting(Next1, x) /\ ~Calls(Next1, x)
  BY <1>1 DEF Parting, Calls
<1>6. Leaving(Next1) \/ fatal => fatal'
  BY RootIsWatched DEF HandleMoved, Leaving, Rel, PathOf
<1> QED BY <1>1, <1>2, <1>4, <1>5, <1>6, NoticeTaken

\* A half rename is about a file.
LEMMA HalvesKeepSound == ASSUME Inv, Sound, Pair \/ Wait PROVE Sound'
<1>1. Taking({"FROM", "TO"}) /\ Next1.what \in {"FROM", "TO"} /\ Fit(Next1) /\ Next1 \in Letter
  <2>1. Taking({"FROM", "TO"})
    BY DEF Pair, Wait
  <2> QED BY <2>1, LoopTakes
<1>2. IsFile(Rel) /\ Rel = PathOf(Next1)
  BY <1>1, PathOfIs DEF Fit, Rel, IsFile
<1>3. UNCHANGED <<disk, rootGone, mark, nextWd, tree, blind, fatal, job>>
  BY <1>2 DEF Pair, Wait, users, signals
<1>4. job[0].at = "idle"
  BY <1>1, LoopTakes
<1>5. LoopTask'
  BY <1>3, <1>4 DEF LoopTask
<1>6. FileTasks'
  <2>1. \A c \in Cookies : /\ pending'[c] = pending[c] \/ pending'[c] = NoHalf
                                \/ pending'[c].rel = Rel
                           /\ job'[c] = job[c]
    BY <1>3 DEF Pair, Wait, Inv, WorkOK
  <2> QED BY <1>2, <2>1 DEF Sound, FileTasks
<1>7. ~Leaving(Next1) /\ \A x : ~Parting(Next1, x) /\ ~Calls(Next1, x)
  BY <1>1 DEF Leaving, Parting, Calls
<1> QED BY <1>1, <1>3, <1>5, <1>6, <1>7, NoticeTaken

LEMMA CreateKeepsSound == ASSUME Inv, Sound, HandleCreate PROVE Sound'
<1>1. Taking({"CREATE"}) /\ Next1.what = "CREATE" /\ Next1 \in Letter
  <2>1. Taking({"CREATE"})
    BY DEF HandleCreate
  <2> QED BY <2>1, LoopTakes
<1>2. Rel \in AnyPath /\ Rel = PathOf(Next1)
  BY <1>1, PathOfIs DEF Rel
<1>3. UNCHANGED <<disk, rootGone, mark, nextWd, tree, blind, fatal, pending>>
  BY DEF HandleCreate, users, signals
<1>4. 0 \in Jobs /\ 0 \notin Cookies /\ Cookies \subseteq Jobs /\ DOMAIN job = Jobs
  BY ConstantsAssumption DEF Jobs, Cookies, Inv, WorkOK
<1>5. job' = [job EXCEPT ![0] = Found(Rel)]
  BY DEF HandleCreate
<1>6. /\ job'[0].at = "add" /\ job'[0].todo = IF IsFile(Rel) THEN << >> ELSE <<Rel>>
      /\ \A c \in Cookies : job'[c] = job[c]
  BY <1>4, <1>5 DEF Found
<1>7. LoopTask' /\ FileTasks'
  BY <1>3, <1>6 DEF Sound, LoopTask, FileTasks
<1>8. ASSUME NEW p \in DirPaths, IsDir(p), Calls(Next1, p)
      PROVE  Walked(p)'
  <2>1. p \in Paths /\ Within(p, Rel)
    BY <1>2, <1>8, NamesAre DEF Calls
  <2>2. Rel \in Paths
    BY <1>2, <2>1, PathsAbove
  <2>3. IsDir(Rel)
    BY <1>8, <2>1, <2>2, DirsAbove DEF Inv
  <2>4. ~IsFile(Rel)
    BY <2>2, <2>3 DEF Sound, Places, DirPaths
  <2>5. job'[0].at = "add" /\ Rel \in Range(job'[0].todo)
    BY <1>6, <2>4, RangeOfFew
  <2> QED BY <2>1, <2>5 DEF Walked
<1>9. ~Leaving(Next1) /\ \A x : ~Parting(Next1, x)
  BY <1>1 DEF Leaving, Parting
<1> QED BY <1>1, <1>3, <1>7, <1>8, <1>9, NoticeTaken

LEMMA DeleteKeepsSound == ASSUME Inv, Sound, HandleDelete PROVE Sound'
<1>1. Taking({"DELETE"}) /\ Next1.what = "DELETE" /\ Next1 \in Letter /\ Fit(Next1)
  <2>1. Taking({"DELETE"})
    BY DEF HandleDelete
  <2> QED BY <2>1, LoopTakes
<1>2. Rel = PathOf(Next1) /\ ~IsDir(Rel)
  BY <1>1 DEF Rel, Fit, HandleDelete, Known
<1>3. UNCHANGED <<disk, rootGone, mark, nextWd, tree, blind, fatal, pending>>
  BY DEF HandleDelete, users, signals
<1>4. 0 \in Jobs /\ 0 \notin Cookies /\ Cookies \subseteq Jobs /\ DOMAIN job = Jobs
  BY ConstantsAssumption DEF Jobs, Cookies, Inv, WorkOK
<1>5. job' = [job EXCEPT ![0] = Lost(Rel)]
  BY DEF HandleDelete
<1>6. /\ job'[0].at = IF IsFile(Rel) THEN "announce" ELSE "gone"
      /\ job'[0].rel = Rel
      /\ \A c \in Cookies : job'[c] = job[c]
  BY <1>4, <1>5 DEF Lost
<1>7. LoopTask' /\ FileTasks'
  BY <1>2, <1>3, <1>6 DEF Sound, LoopTask, FileTasks, IsDir
<1>8. ASSUME NEW p \in DirPaths, NEW w \in Wds, byPath[p] = w, Parting(Next1, w)
      PROVE  job'[0].at = "gone" /\ job'[0].rel = p
  <2>1. byWd[w] = p
    BY <1>8 DEF Inv, TreeOK, Registry, Wds, None
  <2>2. Rel = p
    BY <1>2, <1>8, <2>1 DEF Parting, PathOf
  <2> QED BY <1>6, <2>2 DEF DirPaths
<1>9. ~Leaving(Next1) /\ \A x : ~Calls(Next1, x)
  BY <1>1 DEF Leaving, Calls
<1> QED BY <1>1, <1>3, <1>7, <1>8, <1>9, NoticeTaken

LEMMA IgnoredKeepsSound == ASSUME Inv, Sound, HandleIgnored PROVE Sound'
<1>1. Taking({"IGNORED"}) /\ Next1.what = "IGNORED" /\ Next1 \in Letter /\ Fit(Next1)
  <2>1. Taking({"IGNORED"})
    BY DEF HandleIgnored
  <2> QED BY <2>1, LoopTakes
<1>2. /\ Range(kq) = Range(kq') \cup {Next1} /\ job[0].at = "idle"
      /\ \A p, w : Removed(p, w) => Parting(Next1, w) \/ \E n \in Range(kq') : Parting(n, w)
      /\ \A p : Called(p) => Calls(Next1, p) \/ \E n \in Range(kq') : Calls(n, p)
      /\ \A p : ~Walked(p)
  BY <1>1, LoopTakes
<1>3. PICK w \in Wds : w = Next1.wd
  BY <1>1 DEF Letter
<1> DEFINE X == {byWd[w]} \cap DirPaths
<1>4. byWd[w] # NoPath => byWd[w] \in DirPaths /\ byPath[byWd[w]] = w /\ ~IsDir(byWd[w])
  BY <1>1, <1>3 DEF Sound, Marks, Fit, PathOf
<1>5. X \in SUBSET DirPaths /\ \A q \in X : ~IsDir(q)
  BY <1>4, NoPathIs
<1>6. Drops(X)
  <2>1. byPath' = [q \in DirPaths |-> IF q = byWd[w] THEN None ELSE byPath[q]]
        /\ byWd' = [byWd EXCEPT ![w] = NoPath]
    BY <1>3 DEF HandleIgnored, TreeRemove
  <2>2. byPath' = [q \in DirPaths |-> IF q \in X THEN None ELSE byPath[q]]
    BY <2>1
  <2>3. ASSUME NEW v \in Wds
        PROVE  byWd'[v] = IF byWd[v] \in X THEN NoPath ELSE byWd[v]
    <3>1. CASE v = w
      BY <1>4, <2>1, <3>1, NoPathIs DEF Inv, TreeOK
    <3>2. CASE v # w
      <4>1. byWd[v] \notin X
        BY <1>4, <3>2, NoPathIs DEF Sound, Marks
      <4> QED BY <2>1, <3>2, <4>1 DEF Inv, TreeOK
    <3> QED BY <3>1, <3>2
  <2>4. byWd' = [v \in Wds |-> IF byWd[v] \in X THEN NoPath ELSE byWd[v]]
    <3>1. byWd' = [v \in Wds |-> byWd'[v]]
      BY <2>1 DEF Inv, TreeOK
    <3> QED BY <2>3, <3>1
  <2> QED BY <2>2, <2>4 DEF Drops
<1> HIDE DEF X
<1>7. UNCHANGED <<disk, rootGone, mark, nextWd, blind, fatal, pending, job>>
  BY DEF HandleIgnored, users, signals
<1>8. \A p \in DirPaths \ X, v \in Wds : byPath[p] = v /\ Removed(p, v) => Removed(p, v)'
  BY <1>1, <1>2 DEF Removed, Parting
<1>9. ASSUME NEW p \in DirPaths, IsDir(p), Called(p) \/ Walked(p)
      PROVE  Called(p)'
  <2>1. PICK n \in Range(kq') : Calls(n, p)
    BY <1>1, <1>2, <1>9 DEF Calls
  <2>2. Calls(n, p)'
    BY <1>2, <1>5, <1>6, <1>9, <2>1, NamesAre, StillCalled
  <2> QED BY <2>2 DEF Called
<1>10. LoopTask' /\ FileTasks'
  BY <1>2, <1>7 DEF LoopTask, FileTasks, Sound
<1>11. RootKept'
  BY <1>1, <1>2, <1>7 DEF Sound, RootKept, Leaving
<1>12. Range(kq') \subseteq Range(kq)
  BY <1>2
<1> QED BY <1>5, <1>6, <1>7, <1>8, <1>9, <1>10, <1>11, <1>12, WatcherSteps

\* Nothing that is gone has a watch left to drop.
LEMMA NothingToDrop ==
    ASSUME Inv, Sound, NEW top, \A q \in DirPaths : Within(q, top) => ~IsDir(q)
    PROVE  WdsWithin(top) \cap Range(mark) = {}
<1> SUFFICES ASSUME NEW w \in WdsWithin(top), w \in Range(mark) PROVE FALSE
  OBVIOUS
<1>1. byWd[w] \in DirPaths /\ Within(byWd[w], top) /\ w \in Wds
  BY WdsWithinAre DEF Inv
<1>2. PICK i \in Inodes : mark[i] = w
  BY DEF Range, Inv, KernelOK
<1>3. mark[i] # None
  BY <1>1, <1>2 DEF Wds, None
<1>4. PICK p \in Paths : disk[p] = i
  BY <1>3 DEF Sound, Marks
<1>5. IsDir(p)
  BY <1>4 DEF IsDir
<1>6. byWd[w] = p
  BY <1>2, <1>3, <1>4, <1>5, WatchedDirs
<1> QED BY <1>1, <1>5, <1>6

LEMMA LoopsJob ==
    ASSUME Inv
    PROVE  0 \in Jobs /\ 0 \notin Cookies /\ Cookies = Jobs \ {0} /\ DOMAIN job = Jobs
BY ConstantsAssumption DEF Jobs, Cookies, Inv, WorkOK

LEMMA OthersJobs ==
    ASSUME Inv, Sound, NEW j \in Jobs, j # 0
    PROVE  /\ job[j].at \in {"idle", "add", "announce"} /\ job[j].todo = << >>
           /\ job[j].at = "add" => IsFile(job[j].rel)
BY LoopsJob DEF Sound, FileTasks

\* While no directory is moved, nobody but the loop touches the registry: no walk is
\* ever seen between its two halves.
LEMMA NoHalfWalk ==
    ASSUME Inv, Sound, NEW j \in Jobs
    PROVE  ~WalkWatch(j) /\ ~WalkRegister(j)
<1>1. \A c \in Cookies : /\ pending[c] = NoHalf \/ IsFile(pending[c].rel)
                         /\ job[c].at \in {"idle", "announce"} \/ IsFile(job[c].rel)
  BY DEF Sound, FileTasks
<1>2. ~WalkWatch(j)
  <2>1. CASE j = 0
    BY <1>1, <2>1 DEF WalkWatch, FilesOnly
  <2>2. CASE j # 0
    BY <2>2, OthersJobs DEF WalkWatch
  <2> QED BY <2>1, <2>2
<1>3. ~WalkRegister(j)
  <2>1. job[j].at # "register"
    BY OthersJobs DEF Sound, LoopTask
  <2> QED BY <2>1 DEF WalkRegister, Doing
<1> QED BY <1>2, <1>3

LEMMA UnwatchKeepsSound == ASSUME Inv, Sound, NEW j \in Jobs, Unwatch(j) PROVE Sound'
<1>1. j = 0 /\ job[0].at = "gone" /\ 0 \in Jobs /\ 0 \notin Cookies /\ DOMAIN job = Jobs
  <2>1. 0 \in Jobs /\ 0 \notin Cookies /\ DOMAIN job = Jobs
    BY LoopsJob
  <2>2. job[j].at = "gone"
    BY DEF Unwatch, Doing
  <2> QED BY <2>1, <2>2, OthersJobs
<1>2. PICK r \in AnyPath : r = job[0].rel /\ ~IsDir(r)
  BY <1>1, TaskIs DEF Sound, LoopTask
<1> DEFINE X    == {q \in DirPaths : Within(q, r)}
           live == WdsWithin(r) \cap Range(mark)
           gone == [n \in 1..Cardinality(live) |-> Ignored(SetToSeq(live)[n])]
<1>3. ASSUME NEW q \in X
      PROVE  ~IsDir(q)
  <2>1. q \in Paths /\ Within(q, r)
    BY NamesAre
  <2>2. r \in Paths
    BY <1>2, <2>1, PathsAbove
  <2> QED BY <1>2, <2>1, <2>2, DirsAbove DEF Inv
<1>4. live = {}
  BY <1>3, NothingToDrop
<1>5. Drops(X)
  <2>1. RemoveSubtree(r)
    BY <1>1, <1>2 DEF Unwatch
  <2>2. ASSUME NEW w \in Wds
        PROVE  w \in WdsWithin(r) <=> byWd[w] \in X
    <3>1. w \in WdsWithin(r) => byWd[w] \in X
      BY WdsWithinAre DEF Inv
    <3>2. byWd[w] \in X => byPath[byWd[w]] = w /\ w # None
      BY NoPathIs DEF Sound, Marks, Wds, None
    <3>3. byWd[w] \in X => w \in WdsWithin(r)
      BY <3>2, WdsWithinAre DEF Inv
    <3> QED BY <3>1, <3>3
  <2> QED BY <2>1, <2>2 DEF Drops, RemoveSubtree
<1>6. mark' = mark
  <2>1. mark' = [i \in Inodes |-> IF mark[i] \in live THEN None ELSE mark[i]]
    BY <1>1, <1>2 DEF Unwatch
  <2>2. mark' = [i \in Inodes |-> mark[i]]
    BY <1>4, <2>1
  <2> QED BY <2>2 DEF Inv, KernelOK
<1>7. Range(kq') = Range(kq)
  <2>1. kq' = kq \o gone
    BY <1>1, <1>2 DEF Unwatch
  <2>2. Cardinality(live) = 0
    BY <1>4, FS_EmptySet
  <2>3. gone \in Seq(Letter) /\ Range(gone) = {}
    <3>1. DOMAIN gone = {} /\ 1..0 = {}
      BY <2>2
    <3>2. gone \in [1..0 -> Letter]
      BY <2>2, <3>1
    <3> HIDE DEF gone
    <3> QED BY <3>1, <3>2 DEF Range
  <2> HIDE DEF gone
  <2>4. kq \in Seq(Letter)
    BY DEF Inv, KernelOK
  <2>5. Range(kq \o gone) = Range(kq) \cup Range(gone)
    BY <2>3, <2>4, RangeCat
  <2> QED BY <2>1, <2>3, <2>5
<1> HIDE DEF live, gone
<1>8. UNCHANGED <<disk, rootGone, nextWd, blind, fatal, pending>>
      /\ job' = [job EXCEPT ![0].at = "announce"]
  BY <1>1 DEF Unwatch, users, signals
<1>9. job'[0].at = "announce" /\ \A c \in Cookies : job'[c] = job[c]
  <2>1. job[0] \in Task /\ Cookies \subseteq Jobs
    BY <1>1, TaskIs DEF Cookies, Jobs
  <2> QED BY <1>1, <1>8, <2>1 DEF Task
<1>10. ASSUME NEW p \in DirPaths \ X, NEW w \in Wds, Removed(p, w)
       PROVE  Removed(p, w)'
  <2>1. p # r
    BY <1>2, WithinOrder
  <2> QED BY <1>2, <1>7, <1>10, <2>1 DEF Removed, Parting
<1>11. ASSUME NEW p \in DirPaths, IsDir(p), Called(p) \/ Walked(p)
       PROVE  Called(p)'
  <2>1. PICK n \in Range(kq) : Calls(n, p)
    BY <1>1, <1>11 DEF Called, Walked
  <2>2. X \in SUBSET DirPaths /\ \A q \in X : ~IsDir(q)
    BY <1>3
  <2> HIDE DEF X
  <2>3. Calls(n, p)'
    BY <1>5, <1>11, <2>1, <2>2, NamesAre, StillCalled
  <2> QED BY <1>7, <2>3 DEF Called
<1>12. LoopTask' /\ FileTasks'
  BY <1>8, <1>9 DEF Sound, LoopTask, FileTasks
<1>13. RootKept'
  BY <1>6, <1>7, <1>8 DEF Sound, RootKept, Leaving
<1>14. X \in SUBSET DirPaths /\ \A q \in X : ~IsDir(q)
  BY <1>3
<1> HIDE DEF X
<1> QED BY <1>5, <1>6, <1>7, <1>8, <1>10, <1>11, <1>12, <1>13, <1>14, WatcherSteps

\* A thread turns to something else, without a look at the registry.
LEMMA JobTurns ==
    ASSUME Inv, Sound, NEW j \in Jobs, NEW t, job' = [job EXCEPT ![j] = t],
           UNCHANGED <<disk, rootGone, mark, nextWd, kq, tree, fatal>>, blind => blind',
           \A c \in Cookies : pending'[c] = pending[c] \/ pending'[c] = NoHalf,
           j = 0 => /\ job[0].at # "gone" /\ t.at \notin {"gone", "read", "register"}
                    /\ \A p \in DirPaths : IsDir(p) /\ Walked(p) =>
                           \/ byPath[p] # None \/ blind'
                           \/ t.at = "add" /\ \E x \in Range(t.todo) : Within(p, x),
           j # 0 => /\ t.at \in {"idle", "add", "announce"} /\ t.todo = << >>
                    /\ t.at = "add" => IsFile(t.rel)
    PROVE  Sound'
<1>1. 0 \in Jobs /\ 0 \notin Cookies /\ Cookies \subseteq Jobs /\ DOMAIN job = Jobs
  BY ConstantsAssumption DEF Jobs, Cookies, Inv, WorkOK
<1>2. \A k \in Jobs : job'[k] = IF k = j THEN t ELSE job[k]
  BY <1>1
<1>3. Drops({}) /\ byPath' = byPath
  BY DropsNothing DEF tree
<1>4. ASSUME NEW p, NEW w, Removed(p, w)
      PROVE  Removed(p, w)'
  BY <1>1, <1>2, <1>4 DEF Removed, Parting
<1>5. ASSUME NEW p \in DirPaths, IsDir(p), Called(p) \/ Walked(p)
      PROVE  byPath[p] # None \/ blind' \/ Called(p)' \/ Walked(p)'
  <2>1. Called(p) => Called(p)'
    BY DEF Called, Calls, PathOf, tree
  <2>2. CASE Walked(p)
    BY <1>1, <1>2, <1>5, <2>2 DEF Walked
  <2> QED BY <1>5, <2>1, <2>2
<1>6. LoopTask'
  BY <1>1, <1>2, <1>3 DEF Sound, LoopTask, IsDir
<1>7. FileTasks'
  BY <1>1, <1>2 DEF Sound, FileTasks
<1>8. RootKept'
  BY DEF Sound, RootKept, Leaving
<1> QED BY <1>3, <1>4, <1>5, <1>6, <1>7, <1>8, WatcherSteps

LEMMA TimerKeepsSound == ASSUME Inv, Sound, NEW c \in Cookies, TimerFires(c) PROVE Sound'
<1>1. c \in Jobs /\ c # 0 /\ IsFile(pending[c].rel)
  BY LoopsJob DEF Sound, FileTasks, TimerFires
<1>2. PICK t : t = IF pending[c].from THEN Lost(pending[c].rel) ELSE Found(pending[c].rel)
  OBVIOUS
<1>3. /\ t.at \in {"idle", "add", "announce"} /\ t.todo = << >>
      /\ t.at = "add" => IsFile(t.rel)
  BY <1>1, <1>2 DEF Lost, Found
<1>4. /\ job' = [job EXCEPT ![c] = t]
      /\ UNCHANGED <<disk, rootGone, mark, nextWd, kq, tree, fatal, blind>>
      /\ \A d \in Cookies : pending'[d] = pending[d] \/ pending'[d] = NoHalf
  BY <1>2 DEF TimerFires, users, kernel, signals, Inv, WorkOK
<1> QED BY <1>1, <1>3, <1>4, JobTurns

LEMMA AnnounceKeepsSound == ASSUME Inv, Sound, NEW j \in Jobs, Announce(j) PROVE Sound'
<1>1. /\ job' = [job EXCEPT ![j] = Idle] /\ job[j].at = "announce"
      /\ UNCHANGED <<disk, rootGone, mark, nextWd, kq, tree, fatal, blind, pending>>
  BY DEF Announce, Doing, users, kernel, signals
<1>2. Idle.at = "idle" /\ Idle.todo = << >>
  BY DEF Idle
<1>3. j = 0 => \A p : ~Walked(p)
  BY <1>1 DEF Walked
<1> QED BY <1>1, <1>2, <1>3, JobTurns

LEMMA ScanKeepsSound == ASSUME Inv, Sound, NEW j \in Jobs, ScanVisit(j) PROVE Sound'
<1>1. /\ job[j].at = "scan" /\ j = 0
      /\ UNCHANGED <<disk, rootGone, mark, nextWd, kq, tree, fatal, blind, pending>>
  BY OthersJobs DEF ScanVisit, Doing, users, kernel, signals
<1>2. PICK rest : job' = [job EXCEPT ![j] = IF rest = << >> THEN Idle ELSE [@ EXCEPT !.todo = rest]]
  BY DEF ScanVisit
<1>3. PICK t : t = IF rest = << >> THEN Idle ELSE [job[j] EXCEPT !.todo = rest]
  OBVIOUS
<1>4. job' = [job EXCEPT ![j] = t] /\ t.at \in {"idle", "scan"}
  BY <1>1, <1>2, <1>3, TaskIs DEF Idle, Task
<1>5. \A p : ~Walked(p)
  BY <1>1 DEF Walked
<1> QED BY <1>1, <1>4, <1>5, JobTurns

LEMMA WalkDoneKeepsSound == ASSUME Inv, Sound, NEW j \in Jobs, WalkDone(j) PROVE Sound'
<1>1. /\ job[j].at = "add" /\ job[j].todo = << >>
      /\ UNCHANGED <<disk, rootGone, mark, nextWd, kq, tree, fatal, blind, pending>>
  BY DEF WalkDone, Doing, users, kernel, signals
<1>2. PICK t : /\ t = IF IsFile(job[j].rel) THEN Idle
                      ELSE [at |-> "scan", rel |-> job[j].rel, todo |-> << job[j].rel >>]
               /\ job' = [job EXCEPT ![j] = t]
  BY DEF WalkDone
<1>3. t.at \in {"idle", "scan"} /\ (j # 0 => t = Idle) /\ Idle.at = "idle" /\ Idle.todo = << >>
  BY <1>1, <1>2, OthersJobs DEF Idle
<1>4. j = 0 => \A p : ~Walked(p)
  BY <1>1, RangeOfFew DEF Walked
<1> QED BY <1>1, <1>2, <1>3, <1>4, JobTurns

LEMMA WalkSkipKeepsSound == ASSUME Inv, Sound, NEW j \in Jobs, WalkSkip(j) PROVE Sound'
<1>1. /\ job[j].at = "add" /\ job[j].todo # << >> /\ j = 0
      /\ UNCHANGED <<disk, rootGone, mark, nextWd, kq, tree, fatal, pending>>
      /\ blind \in BOOLEAN
  BY OthersJobs DEF WalkSkip, Doing, users, kernel, Inv, RestOK
<1>2. job[j].todo \in Seq(AnyPath) /\ job[j] \in Task
  BY TaskIs
<1>3. CASE ~IsDir(Ahead(j)) /\ job' = [job EXCEPT ![j].todo = Tail(@)] /\ UNCHANGED blind
  <2>1. PICK t : t = [job[j] EXCEPT !.todo = Tail(job[j].todo)]
    OBVIOUS
  <2>2. /\ job' = [job EXCEPT ![j] = t] /\ t.at = "add"
        /\ t.todo = Tail(job[j].todo)
    BY <1>1, <1>2, <1>3, <2>1 DEF Task
  <2>3. ASSUME NEW p \in DirPaths, IsDir(p), Walked(p)
        PROVE  \E x \in Range(t.todo) : Within(p, x)
    <3>1. Range(job[j].todo) = Range(Tail(job[j].todo)) \cup {Ahead(j)} /\ Ahead(j) \in AnyPath
      BY <1>1, <1>2, RangeHead, AheadIs DEF Ahead
    <3>2. PICK x \in Range(job[j].todo) : Within(p, x)
      BY <1>1, <2>3 DEF Walked
    <3>3. ASSUME x = Ahead(j)
          PROVE  FALSE
      <4>1. p \in Paths /\ x \in Paths
        BY <3>1, <3>2, <3>3, NamesAre, PathsAbove
      <4>2. IsDir(x)
        BY <2>3, <3>2, <4>1, DirsAbove DEF Inv
      <4> QED BY <1>3, <3>3, <4>2
    <3> QED BY <2>2, <3>1, <3>2, <3>3
  <2> QED BY <1>1, <1>3, <2>2, <2>3, JobTurns
<1>4. CASE job' = [job EXCEPT ![j].todo = << >>] /\ blind' = TRUE
  <2>1. PICK t : t = [job[j] EXCEPT !.todo = << >>]
    OBVIOUS
  <2>2. job' = [job EXCEPT ![j] = t] /\ t.at = "add"
    BY <1>1, <1>2, <1>4, <2>1 DEF Task
  <2> QED BY <1>1, <1>4, <2>2, JobTurns
<1> QED BY <1>3, <1>4 DEF WalkSkip

LEMMA WalkReadKeepsSound == ASSUME Inv, Sound, NEW j \in Jobs, WalkRead(j) PROVE Sound'
<1>1. /\ job[j].at = "read" /\ j = 0 /\ job[j].todo # << >>
      /\ UNCHANGED <<disk, rootGone, mark, nextWd, kq, tree, fatal, blind, pending>>
  BY OthersJobs DEF WalkRead, Doing, users, kernel, signals, Inv, WorkOK
<1> DEFINE h == Ahead(j)
           S == {q \in Children(h) : IsDir(q)}
<1>2. job[j].todo \in Seq(AnyPath) /\ job[j] \in Task /\ h \in AnyPath
      /\ Tail(job[j].todo) \in Seq(AnyPath)
  BY <1>1, TaskIs, AheadIs
<1>3. IsFiniteSet(S) /\ S \subseteq AnyPath
  <2>1. S \in SUBSET Paths
    BY DEF Children, Exists
  <2> QED BY <2>1, ConstantsAssumption, FS_Subset, NamesAre
<1>4. PICK todo \in Seq(AnyPath) : /\ todo = SetToSeq(S) \o Tail(job[j].todo)
                                   /\ Range(todo) = S \cup Range(Tail(job[j].todo))
  <2> HIDE DEF S
  <2>1. SetToSeq(S) \in Seq(AnyPath)
    BY <1>3, SeqOfSet
  <2>2. Range(SetToSeq(S)) = S
    BY <1>3, ListedIs
  <2>3. Range(SetToSeq(S) \o Tail(job[j].todo)) = Range(SetToSeq(S)) \cup Range(Tail(job[j].todo))
    BY <1>2, <2>1, RangeCat, ZenonT(60)
  <2>4. SetToSeq(S) \o Tail(job[j].todo) \in Seq(AnyPath)
    BY <1>2, <2>1
  <2> QED BY <2>2, <2>3, <2>4
<1>5. PICK t : t = [job[j] EXCEPT !.at = "add", !.todo = todo]
  OBVIOUS
<1>6. job' = [job EXCEPT ![j].at = "add", ![j].todo = todo]
  <2>1. job' = [job EXCEPT ![j].at = "add", ![j].todo = SetToSeq(S) \o Tail(@)]
    BY DEF WalkRead
  <2> HIDE DEF S
  <2> QED BY <1>4, <2>1, TaskIs
<1>7. job' = [job EXCEPT ![j] = t] /\ t.at = "add" /\ t.todo = todo
  BY <1>2, <1>5, <1>6, TaskIs DEF Task
<1>8. ASSUME NEW p \in DirPaths, IsDir(p), Walked(p), byPath[p] = None
      PROVE  \E x \in Range(t.todo) : Within(p, x)
  <2>1. Range(job[j].todo) = Range(Tail(job[j].todo)) \cup {h}
    BY <1>1, <1>2, RangeHead DEF Ahead
  <2>2. PICK x \in Range(job[j].todo) : Within(p, x)
    BY <1>1, <1>8 DEF Walked
  <2>3. CASE x \in Range(Tail(job[j].todo))
    BY <1>4, <1>7, <2>2, <2>3
  <2>4. CASE x = h
    <3>1. p # h
      BY <1>1, <1>8 DEF Sound, LoopTask, Ahead
    <3>2. PICK y \in Paths \ {Root} : Parent(y) = h /\ Within(p, y)
      BY <1>2, <2>2, <2>4, <3>1, NamesAre, PathsAbove
    <3>3. IsDir(y)
      BY <1>8, <3>2, NamesAre, DirsAbove DEF Inv
    <3>4. y \in S
      BY <3>2, <3>3, FileEntryIs DEF Children, Exists, IsDir
    <3> QED BY <1>4, <1>7, <3>2, <3>4
  <2> QED BY <2>1, <2>3, <2>4
<1> HIDE DEF h, S
<1> QED BY <1>1, <1>7, <1>8, JobTurns

\* The walk comes to a directory that is watched: nothing changes but the task.
LEMMA WalkMeetsWatched ==
    ASSUME Inv, Sound, NEW j \in Jobs, WalkAdd(j), mark[disk[Ahead(j)]] # None
    PROVE  Sound'
<1> DEFINE h == Ahead(j)
<1>1. job[j].at = "add" /\ job[j].todo # << >> /\ IsDir(h) /\ h \in Paths /\ j = 0
  BY OthersJobs DEF WalkAdd, Doing, IsDir
<1>2. PICK w \in Wds : w = mark[disk[h]] /\ byPath[h] = w /\ byWd[w] = h /\ h \in DirPaths
  BY <1>1, WatchedDirs
<1>3. /\ UNCHANGED <<disk, rootGone, mark, nextWd, kq, fatal, blind, pending>>
      /\ TreeAdd(w, h) /\ job' = [job EXCEPT ![j].at = "read"]
  BY <1>2 DEF WalkAdd, AddWatch, users, signals
<1>4. Drops({}) /\ byPath' = byPath /\ byWd' = byWd
  <2>1. byPath \in [DirPaths -> 0..MaxWd] /\ byWd \in [Wds -> AnyPath]
    BY DEF Inv, TreeOK
  <2>2. byPath' = byPath
    BY <1>2, <1>3, <2>1 DEF TreeAdd
  <2>3. byWd' = byWd
    BY <1>2, <1>3, <2>1 DEF TreeAdd
  <2> QED BY <2>2, <2>3, DropsNothing DEF tree
<1>5. /\ job'[0].at = "read" /\ job'[0].todo = job[0].todo
      /\ \A c \in Cookies : job'[c] = job[c]
  BY <1>1, <1>3, TaskIs, LoopsJob DEF Task
<1>6. \A p, v : Removed(p, v) => Removed(p, v)'
  BY <1>1, <1>3 DEF Removed, Parting
<1>7. \A p : (Called(p) => Called(p)') /\ (Walked(p) => Walked(p)')
  BY <1>3, <1>4, <1>5 DEF Called, Calls, PathOf, Walked
<1>8. LoopTask'
  BY <1>1, <1>2, <1>4, <1>5 DEF LoopTask, Ahead, Wds, None
<1>9. FileTasks' /\ RootKept'
  BY <1>3, <1>5 DEF Sound, FileTasks, RootKept, Leaving
<1> HIDE DEF h
<1> QED BY <1>3, <1>4, <1>6, <1>7, <1>8, <1>9, WatcherSteps

\* The walk comes to a new directory.
LEMMA WalkMeetsNew ==
    ASSUME Inv, Sound, NEW j \in Jobs, WalkAdd(j), mark[disk[Ahead(j)]] = None
    PROVE  Sound'
<1> DEFINE h == Ahead(j)
           i == disk[h]
           w == nextWd
<1>1. job[j].at = "add" /\ job[j].todo # << >> /\ IsDir(h) /\ h \in Paths /\ j = 0
  BY OthersJobs DEF WalkAdd, Doing, IsDir
<1>2. h \in DirPaths /\ i \in Inodes /\ byPath[h] = None /\ mark[i] = None
  BY <1>1, WatchedDirs
<1>3. w \in Wds /\ w # None /\ w \in Nat
  BY ConstantsAssumption DEF WalkAdd, AddWatch, Inv, KernelOK, Wds, None
<1>4. /\ mark' = [mark EXCEPT ![i] = w] /\ nextWd' = w + 1
      /\ UNCHANGED <<disk, rootGone, kq, fatal, blind, pending>>
      /\ job' = [job EXCEPT ![j].at = "read"]
      /\ TreeAdd(mark'[i], h)
  BY <1>2 DEF WalkAdd, AddWatch, users, signals
<1>5. /\ \A k \in Inodes : mark'[k] = IF k = i THEN w ELSE mark[k]
      /\ mark'[i] = w
  BY <1>2, <1>4 DEF Inv, KernelOK
<1>6. byWd[w] = NoPath
  BY <1>3 DEF Sound, Marks
<1>7. /\ \A q \in DirPaths : byPath'[q] = IF q = h THEN w ELSE byPath[q]
      /\ \A v \in Wds : byWd'[v] = IF v = w THEN h ELSE byWd[v]
  <2>1. TreeAdd(w, h)
    BY <1>4, <1>5
  <2> HIDE DEF w, h
  <2> QED BY <1>3, <1>6, <2>1, NoPathIs DEF TreeAdd, Inv, TreeOK
<1>8. /\ job'[0].at = "read" /\ job'[0].todo = job[0].todo
      /\ \A c \in Cookies : job'[c] = job[c]
  BY <1>1, <1>4, TaskIs, LoopsJob DEF Task
<1>9. \A x : IsDir(x)' <=> IsDir(x)
  BY <1>4 DEF IsDir
<1>10. Head(job'[0].todo) = h
  BY <1>1, <1>8 DEF Ahead
<1> HIDE DEF h, i, w
<1>11. ASSUME NEW n \in Range(kq), n.what # "OVERFLOW"
       PROVE  n.wd \in Wds /\ n.wd < w /\ byWd'[n.wd] = byWd[n.wd]
  <2>1. n \in Letter /\ Fit(n)
    BY QueuedAre DEF Sound, Notices
  <2>2. n.wd \in Wds /\ n.wd < w
    BY <1>11, <2>1 DEF Letter, Fit, w
  <2>3. n.wd # w
    BY <1>3, <2>2 DEF Wds
  <2> QED BY <1>7, <2>2, <2>3
<1>12. Places'
  BY <1>4 DEF Sound, Places, IsDir
<1>13. Marks'
  <2>1. ASSUME NEW k \in Inodes
        PROVE  mark'[k] < nextWd' /\ (mark'[k] # None => \E p \in Paths : disk'[p] = k)
    <3>1. CASE k = i
      BY <1>1, <1>3, <1>4, <1>5, <3>1 DEF i
    <3>2. CASE k # i
      <4>1. mark[k] < w /\ mark[k] \in Nat /\ (mark[k] # None => \E p \in Paths : disk[p] = k)
        BY DEF Sound, Marks, Inv, KernelOK, w
      <4> QED BY <1>3, <1>4, <1>5, <3>2, <4>1
    <3> QED BY <3>1, <3>2
  <2>2. ASSUME NEW v \in Wds, byWd'[v] # NoPath
        PROVE  v < nextWd' /\ byWd'[v] \in DirPaths /\ byPath'[byWd'[v]] = v
    <3>1. CASE v = w
      BY <1>2, <1>3, <1>4, <1>7, <3>1
    <3>2. CASE v # w
      <4>1. byWd'[v] = byWd[v] /\ v < w /\ byWd[v] \in DirPaths /\ byPath[byWd[v]] = v
        BY <1>7, <2>2, <3>2 DEF Sound, Marks, w
      <4>2. byWd[v] # h
        BY <1>2, <4>1 DEF Wds, None
      <4>3. v < w + 1
        BY <1>3, <4>1 DEF Wds
      <4> QED BY <1>4, <1>7, <4>1, <4>2, <4>3
    <3> QED BY <3>1, <3>2
  <2> QED BY <2>1, <2>2 DEF Marks
<1>14. Notices'
  <2> SUFFICES ASSUME NEW n \in Range(kq) PROVE Fit(n)'
    BY <1>4 DEF Notices
  <2>1. Fit(n) /\ n.wd \in Nat /\ n \in Letter
    BY QueuedAre DEF Sound, Notices, Letter, Notice
  <2>2. n.wd < nextWd'
    BY <1>3, <1>4, <2>1 DEF Fit, w
  <2>3. ASSUME n.what \in {"DELETE", "IGNORED"}, byWd'[n.wd] # NoPath
        PROVE  ~IsDir(PathOf(n))'
    <3>1. byWd'[n.wd] = byWd[n.wd]
      BY <1>11, <2>3
    <3> QED BY <1>4, <2>1, <2>3, <3>1 DEF Fit, PathOf, IsDir
  <2> QED BY <2>1, <2>2, <2>3 DEF Fit
<1>15. Entries'
  <2> SUFFICES ASSUME NEW q \in DirPaths
               PROVE  IF IsDir(q)' THEN byPath'[q] = mark'[disk'[q]]
                      ELSE byPath'[q] # None => Removed(q, byPath[q])'
    BY DEF Entries
  <2>1. q \in Paths /\ (IF IsDir(q) THEN byPath[q] = mark[disk[q]]
                        ELSE byPath[q] # None => Removed(q, byPath[q]))
    BY NamesAre DEF Sound, Entries
  <2>2. CASE q = h
    BY <1>1, <1>4, <1>5, <1>7, <1>9, <2>2 DEF i
  <2>3. CASE q # h /\ IsDir(q)
    <3>1. disk[q] # i /\ disk[q] \in Inodes
      BY <1>1, <2>1, <2>3 DEF Sound, Places, i, IsDir
    <3> QED BY <1>4, <1>5, <1>7, <1>9, <2>1, <2>3, <3>1
  <2>4. CASE q # h /\ ~IsDir(q)
    <3> SUFFICES ASSUME byPath[q] # None PROVE Removed(q, byPath[q])'
      BY <1>7, <1>9, <2>4
    <3>1. PICK n \in Range(kq) : Parting(n, byPath[q])
      BY <1>1, <2>1, <2>4 DEF Removed
    <3>2. byPath'[q] = byPath[q]
      BY <1>7, <2>4
    <3> QED BY <1>4, <3>1, <3>2 DEF Removed, Parting
  <2> QED BY <2>2, <2>3, <2>4
<1>16. Reached'
  <2> SUFFICES ASSUME NEW q \in DirPaths, IsDir(q)'
               PROVE  byPath'[q] # None \/ blind' \/ Called(q)' \/ Walked(q)'
    BY DEF Reached
  <2>1. IsDir(q) /\ (byPath[q] # None \/ blind \/ Called(q) \/ Walked(q))
    BY <1>9 DEF Sound, Reached
  <2>2. ASSUME Called(q)
        PROVE  Called(q)'
    <3>1. PICK n \in Range(kq) : Calls(n, q)
      BY <2>2 DEF Called
    <3>2. byWd'[n.wd] = byWd[n.wd]
      BY <1>11, <3>1 DEF Calls
    <3> QED BY <1>4, <3>1, <3>2 DEF Called, Calls, PathOf
  <2>3. Walked(q) => Walked(q)'
    BY <1>8 DEF Walked
  <2>4. byPath[q] # None => byPath'[q] # None
    BY <1>3, <1>7
  <2> QED BY <1>4, <2>1, <2>2, <2>3, <2>4
<1>17. LoopTask'
  BY <1>2, <1>3, <1>7, <1>8, <1>10 DEF LoopTask
<1>18. FileTasks'
  BY <1>4, <1>8 DEF Sound, FileTasks
<1>19. RootKept'
  <2>1. mark[1] # None /\ mark'[1] = mark[1]
    BY <1>2, <1>5, ConstantsAssumption DEF Sound, RootKept, Inodes
  <2> QED BY <1>4, <2>1 DEF Sound, RootKept, Leaving
<1> QED BY <1>12, <1>13, <1>14, <1>15, <1>16, <1>17, <1>18, <1>19 DEF Sound

-------------------------------------------------------------------------------

LEMMA StepKeepsSound == Plain /\ Inv /\ Sound /\ [Next]_vars => Sound'
<1> SUFFICES ASSUME Plain, Inv, Sound, [Next]_vars PROVE Sound'
  OBVIOUS
<1>1. CASE UserStep
  BY <1>1, UsersKeepSound
<1>2. CASE LoopStep
  BY <1>2, OverflowKeepsSound, IgnoredKeepsSound, ResidualKeepsSound, CreateKeepsSound,
     DeleteKeepsSound, MovedKeepsSound, HalvesKeepSound DEF LoopStep
<1>3. CASE \E c \in Cookies : TimerFires(c)
  BY <1>3, TimerKeepsSound
<1>4. CASE \E j \in Jobs : JobStep(j)
  BY <1>4, NoHalfWalk, WalkMeetsWatched, WalkMeetsNew, WalkSkipKeepsSound, WalkReadKeepsSound,
     WalkDoneKeepsSound, ScanKeepsSound, UnwatchKeepsSound, AnnounceKeepsSound DEF JobStep
<1>5. CASE LoopEnds \/ FullResync \/ UNCHANGED vars
  <2>1. UNCHANGED <<disk, rootGone, mark, nextWd, kq, tree, pending, job, fatal, blind>>
    BY <1>5 DEF LoopEnds, FullResync, vars, users, kernel, signals
  <2>2. Drops({})
    BY <2>1, DropsNothing
  <2>3. /\ \A p, w : Removed(p, w) => Removed(p, w)'
        /\ \A p : (Called(p) => Called(p)') /\ (Walked(p) => Walked(p)')
    BY <2>1 DEF Removed, Parting, Called, Calls, PathOf, Walked, tree
  <2>4. LoopTask' /\ FileTasks' /\ RootKept'
    BY <2>1 DEF Sound, LoopTask, FileTasks, RootKept, Leaving, IsDir, tree
  <2> QED BY <2>1, <2>2, <2>3, <2>4, WatcherSteps
<1> QED BY <1>1, <1>2, <1>3, <1>4, <1>5 DEF Next

\* With nothing queued and nobody at work, nothing is under way.
LEMMA SoundImplies == Inv /\ Sound => Watched
<1> SUFFICES ASSUME Inv, Sound, Quiet, ~stopped
             PROVE  IF rootGone THEN fatal
                    ELSE \A p \in DirPaths :
                             IF IsDir(p) THEN byPath[p] = mark[disk[p]] /\ (byPath[p] # None \/ blind)
                             ELSE byPath[p] = None
  BY DEF Watched
<1>1. Range(kq) = {} /\ job[0].at = "idle"
  BY LoopsJob, RangeOfFew DEF Quiet, Idle
<1>2. \A p, w : ~Removed(p, w) /\ ~Called(p) /\ ~Walked(p)
  BY <1>1 DEF Removed, Called, Walked
<1>3. rootGone => fatal
  BY <1>1 DEF Sound, RootKept
<1>4. ASSUME NEW p \in DirPaths
      PROVE  IF IsDir(p) THEN byPath[p] = mark[disk[p]] /\ (byPath[p] # None \/ blind)
             ELSE byPath[p] = None
  BY <1>2 DEF Sound, Entries, Reached
<1> QED BY <1>3, <1>4

\* Once the watcher has caught up, every directory is watched under the path it has,
\* unless the table of watches was full, nothing else is registered, and the loss of
\* the root was raised: for users who make and remove directories, and write, move and
\* remove files, at any distance from the watcher, and however late timers expire.
THEOREM WatchesAll ==
    ASSUME Hurry \cap {"moves", "again", "overflow"} = {}
    PROVE  Spec => []Watched
<1>1. Plain
  BY DEF Plain
<1>2. Inv /\ Sound /\ [Next]_vars => Sound'
  BY <1>1, StepKeepsSound
<1> QED BY <1>2, InitHolds, SoundAtFirst, StepKeeps, SoundImplies, PTL DEF Spec

-------------------------------------------------------------------------------
(* Once the watcher has caught up, the events add up to what there is: for the *)
(* same users, who take no name again while the watcher holds half a rename of *)
(* it, and remove nothing that was found in a directory not watched yet.       *)

Calm == Plain /\ Hurry \cap {"reuse", "scan"} = {}

\* What comes before a place in the queue, and what comes behind it.
Before(s, i) == {s[k] : k \in 1..i - 1}
After(s, i)  == {s[k] : k \in i + 1..Len(s)}

LEMMA PlacesInCat ==
    ASSUME NEW S, NEW s \in Seq(S), NEW t \in Seq(S), NEW i \in DOMAIN (s \o t)
    PROVE  \/ /\ i \in DOMAIN s /\ (s \o t)[i] = s[i]
              /\ Before(s, i) \subseteq Before(s \o t, i)
              /\ After(s \o t, i) = After(s, i) \cup Range(t)
           \/ \E k \in DOMAIN t : /\ (s \o t)[i] = t[k]
                                  /\ Before(t, k) \subseteq Before(s \o t, i)
                                  /\ After(s \o t, i) = After(t, k)
<1> DEFINE u == s \o t
<1>1. /\ DOMAIN u = 1..Len(s) + Len(t) /\ DOMAIN s = 1..Len(s) /\ DOMAIN t = 1..Len(t)
      /\ Len(u) = Len(s) + Len(t) /\ Len(s) \in Nat /\ Len(t) \in Nat /\ i \in Nat \ {0}
      /\ \A k \in 1..Len(s) : u[k] = s[k]
  OBVIOUS
<1>2. \A k \in 1..Len(t) : k + Len(s) \in DOMAIN u /\ u[k + Len(s)] = t[k]
  OBVIOUS
<1> HIDE DEF u
<1>3. \A k \in Len(s) + 1..Len(u) : k - Len(s) \in 1..Len(t) /\ u[k] = t[k - Len(s)]
  <2> TAKE k \in Len(s) + 1..Len(u)
  <2>1. k - Len(s) \in 1..Len(t) /\ (k - Len(s)) + Len(s) = k
    BY <1>1
  <2> QED BY <1>2, <2>1
<1>4. CASE i \in 1..Len(s)
  <2>1. Before(s, i) \subseteq Before(u, i)
    BY <1>1, <1>4 DEF Before
  <2>2. After(s, i) \subseteq After(u, i)
    BY <1>1, <1>4 DEF After
  <2>3. Range(t) \subseteq After(u, i)
    <3> SUFFICES ASSUME NEW k \in 1..Len(t) PROVE t[k] \in After(u, i)
      BY <1>1 DEF Range
    <3>1. k + Len(s) \in i + 1..Len(u) /\ u[k + Len(s)] = t[k]
      BY <1>1, <1>2, <1>4
    <3> QED BY <3>1 DEF After
  <2>4. After(u, i) \subseteq After(s, i) \cup Range(t)
    <3> SUFFICES ASSUME NEW k \in i + 1..Len(u) PROVE u[k] \in After(s, i) \cup Range(t)
      BY DEF After
    <3>1. CASE k \in 1..Len(s)
      <4>1. k \in i + 1..Len(s) /\ u[k] = s[k]
        BY <1>1, <1>4, <3>1
      <4> QED BY <4>1 DEF After
    <3>2. CASE k \notin 1..Len(s)
      <4>1. k \in Len(s) + 1..Len(u)
        BY <1>1, <1>4, <3>2
      <4> QED BY <1>1, <1>3, <4>1 DEF Range
    <3> QED BY <3>1, <3>2
  <2> QED BY <1>1, <1>4, <2>1, <2>2, <2>3, <2>4 DEF u
<1>5. CASE i \notin 1..Len(s)
  <2> DEFINE k == i - Len(s)
  <2>1. k \in 1..Len(t) /\ u[i] = t[k] /\ k + Len(s) = i
    BY <1>1, <1>3, <1>5 DEF u
  <2> HIDE DEF k
  <2>2. Before(t, k) \subseteq Before(u, i)
    <3> SUFFICES ASSUME NEW x \in 1..k - 1 PROVE t[x] \in Before(u, i)
      BY DEF Before
    <3>1. x \in 1..Len(t) /\ x + Len(s) \in 1..i - 1
      BY <1>1, <2>1
    <3>2. u[x + Len(s)] = t[x]
      BY <1>2, <3>1
    <3> QED BY <3>1, <3>2 DEF Before
  <2>3. After(t, k) \subseteq After(u, i)
    <3> SUFFICES ASSUME NEW x \in k + 1..Len(t) PROVE t[x] \in After(u, i)
      BY DEF After
    <3>1. x \in 1..Len(t) /\ x + Len(s) \in i + 1..Len(u)
      BY <1>1, <2>1
    <3>2. u[x + Len(s)] = t[x]
      BY <1>2, <3>1
    <3> QED BY <3>1, <3>2 DEF After
  <2>4. After(u, i) \subseteq After(t, k)
    <3> SUFFICES ASSUME NEW x \in i + 1..Len(u) PROVE u[x] \in After(t, k)
      BY DEF After
    <3>1. x \in Len(s) + 1..Len(u) /\ x - Len(s) \in k + 1..Len(t)
      BY <1>1, <2>1
    <3>2. u[x] = t[x - Len(s)]
      BY <1>3, <3>1
    <3> QED BY <3>1, <3>2 DEF After
  <2>5. k \in DOMAIN t /\ After(u, i) = After(t, k)
    BY <1>1, <2>1, <2>3, <2>4
  <2>6. \E x \in DOMAIN t : /\ u[i] = t[x]
                            /\ Before(t, x) \subseteq Before(u, i)
                            /\ After(u, i) = After(t, x)
    BY <2>1, <2>2, <2>5
  <2> QED BY <2>6 DEF u
<1> QED BY <1>4, <1>5 DEF u

LEMMA PlacesInTail ==
    ASSUME NEW S, NEW s \in Seq(S), s # << >>
    PROVE  /\ 1 \in DOMAIN s /\ Head(s) = s[1] /\ After(s, 1) = Range(Tail(s))
           /\ \A i \in DOMAIN Tail(s) : \E k \in DOMAIN s :
                  /\ Tail(s)[i] = s[k]
                  /\ After(Tail(s), i) = After(s, k)
                  /\ Before(s, k) = Before(Tail(s), i) \cup {Head(s)}
<1>1. /\ DOMAIN s = 1..Len(s) /\ Len(s) \in Nat \ {0} /\ Head(s) = s[1]
      /\ DOMAIN Tail(s) = 1..Len(s) - 1 /\ Len(Tail(s)) = Len(s) - 1
      /\ \A i \in 1..Len(s) - 1 : Tail(s)[i] = s[i + 1]
  OBVIOUS
<1> DEFINE t == Tail(s)
<1> HIDE DEF t
<1>2. \A k \in 2..Len(s) : k - 1 \in 1..Len(t) /\ t[k - 1] = s[k]
  BY <1>1 DEF t
<1>3. After(s, 1) = Range(t)
  <2>1. After(s, 1) \subseteq Range(t)
    <3> SUFFICES ASSUME NEW k \in 1 + 1..Len(s) PROVE s[k] \in Range(t)
      BY DEF After
    <3>1. k \in 2..Len(s) /\ DOMAIN t = 1..Len(t)
      BY <1>1 DEF t
    <3> QED BY <1>2, <3>1 DEF Range
  <2>2. Range(t) \subseteq After(s, 1)
    <3> SUFFICES ASSUME NEW k \in 1..Len(s) - 1 PROVE t[k] \in After(s, 1)
      BY <1>1 DEF Range, t
    <3>1. k + 1 \in 1 + 1..Len(s) /\ t[k] = s[k + 1]
      BY <1>1 DEF t
    <3> QED BY <3>1 DEF After
  <2> QED BY <2>1, <2>2
<1>4. ASSUME NEW i \in 1..Len(s) - 1
      PROVE  /\ i + 1 \in DOMAIN s /\ t[i] = s[i + 1]
             /\ After(t, i) = After(s, i + 1)
             /\ Before(s, i + 1) = Before(t, i) \cup {Head(s)}
  <2>1. After(t, i) \subseteq After(s, i + 1)
    <3> SUFFICES ASSUME NEW k \in i + 1..Len(t) PROVE t[k] \in After(s, i + 1)
      BY DEF After
    <3>1. k + 1 \in (i + 1) + 1..Len(s) /\ t[k] = s[k + 1]
      BY <1>1 DEF t
    <3> QED BY <3>1 DEF After
  <2>2. After(s, i + 1) \subseteq After(t, i)
    <3> SUFFICES ASSUME NEW k \in (i + 1) + 1..Len(s) PROVE s[k] \in After(t, i)
      BY DEF After
    <3>1. k \in 2..Len(s) /\ k - 1 \in i + 1..Len(t)
      BY <1>1 DEF t
    <3> QED BY <1>2, <3>1 DEF After
  <2>3. Before(t, i) \cup {Head(s)} \subseteq Before(s, i + 1)
    <3>1. Head(s) \in Before(s, i + 1)
      BY <1>1 DEF Before
    <3> SUFFICES ASSUME NEW k \in 1..i - 1 PROVE t[k] \in Before(s, i + 1)
      BY <3>1 DEF Before
    <3>2. k + 1 \in 1..(i + 1) - 1 /\ t[k] = s[k + 1]
      BY <1>1 DEF t
    <3> QED BY <3>2 DEF Before
  <2>4. Before(s, i + 1) \subseteq Before(t, i) \cup {Head(s)}
    <3> SUFFICES ASSUME NEW k \in 1..(i + 1) - 1, k # 1 PROVE s[k] \in Before(t, i)
      BY <1>1 DEF Before
    <3>1. k \in 2..Len(s) /\ k - 1 \in 1..i - 1
      BY <1>1
    <3> QED BY <1>2, <3>1 DEF Before
  <2>5. i + 1 \in DOMAIN s /\ t[i] = s[i + 1]
    BY <1>1 DEF t
  <2> QED BY <2>1, <2>2, <2>3, <2>4, <2>5
<1>5. \A i \in DOMAIN t : i \in 1..Len(s) - 1
  BY <1>1 DEF t
<1>6. \A i \in DOMAIN t : \E k \in DOMAIN s :
          /\ t[i] = s[k]
          /\ After(t, i) = After(s, k)
          /\ Before(s, k) = Before(t, i) \cup {Head(s)}
  BY <1>4, <1>5
<1> QED BY <1>1, <1>3, <1>6 DEF t

-------------------------------------------------------------------------------
(* What is on its way into the view, by what it will do there.                 *)

\* A notice the watcher will join to a path; one that says that others were lost.
Heard(n) == n.what # "OVERFLOW" /\ byWd[n.wd] # NoPath
Lossy(n) == n.what = "OVERFLOW"

\* The appearance of p, or of something above it, is under way or in hand.
Raises(n, p) == n.what \in {"CREATE", "TO"} /\ Heard(n) /\ Within(p, PathOf(n))
Brings(j, p) ==
    IF j = 0
    THEN \/ job[0].at \in {"add", "read"} /\ Within(p, job[0].rel)
         \/ job[0].at = "scan" /\ p # job[0].rel /\ \E t \in Range(job[0].todo) : Within(p, t)
    ELSE job[j].at = "add" /\ job[j].rel = p
Arrived(c, p) == pending[c] # NoHalf /\ ~pending[c].from /\ pending[c].rel = p
Rising(p) == \/ \E n \in Range(kq) : Raises(n, p)
             \/ \E c \in Cookies : Arrived(c, p)
             \/ \E j \in Jobs : Brings(j, p)

\* The disappearance of p, or of something above it, is under way or in hand.
Fells(n, p) == n.what \in {"DELETE", "FROM"} /\ Heard(n) /\ Within(p, PathOf(n))
Takes(j, p) == job[j].at \in {"gone", "announce"} /\ Within(p, job[j].rel)
Gone(c, p)  == pending[c] # NoHalf /\ pending[c].from /\ pending[c].rel = p
Falling(p) == \/ \E n \in Range(kq) : Fells(n, p)
              \/ \E c \in Cookies : Gone(c, p)
              \/ \E j \in Jobs : Takes(j, p)

\* A full resync will read the disk.
Rereads == resync \/ \E n \in Range(kq) : Lossy(n)

Untold == ~blind => \A p \in Exists \ view : Rising(p) \/ Rereads
Ghosts == ~blind => \A p \in view \ Exists : Falling(p) \/ Rereads

\* What a file's deletion takes back is told again behind it, and what a rename
\* brought and is gone is taken back.
Twin(m, n, what) == m.what \in what /\ m.wd = n.wd /\ m.name = n.name
Back == \A i \in DOMAIN kq : kq[i].what = "DELETE" /\ Heard(kq[i]) /\ PathOf(kq[i]) \in Exists =>
            \E m \in After(kq, i) : Lossy(m) \/ Twin(m, kq[i], {"CREATE", "TO"})
Away == \A i \in DOMAIN kq : kq[i].what = "TO" /\ Heard(kq[i]) /\ PathOf(kq[i]) \notin Exists =>
            \E m \in After(kq, i) : Lossy(m) \/ Twin(m, kq[i], {"DELETE", "FROM"})

\* The kernel says that a watch is gone after it said that its directory is.
Parted == \A i \in DOMAIN kq : kq[i].what = "IGNORED" /\ Heard(kq[i]) =>
            \/ \E m \in Before(kq, i) : Parting(m, kq[i].wd)
            \/ job[0].at = "gone" /\ Within(byWd[kq[i].wd], job[0].rel)

\* A name given up by half a rename stays free while the watcher has that half, and
\* the half that left comes before the half that arrived.
Left    == \A n \in Range(kq) : n.what = "FROM" /\ Heard(n) => PathOf(n) \notin Exists
Ordered == /\ \A n \in Range(kq) : n.cookie <= ops
           /\ \A i \in DOMAIN kq : kq[i].what = "TO" =>
                  \A m \in After(kq, i) : ~(m.what = "FROM" /\ m.cookie = kq[i].cookie)
InHalves == \A c \in Cookies : pending[c] # NoHalf =>
                /\ c <= ops
                /\ IF pending[c].from THEN pending[c].rel \notin Exists
                   ELSE \A m \in Range(kq) : ~(m.what = "FROM" /\ m.cookie = c)
InTimers == \A c \in Cookies : job[c].at = "announce" =>
                IsFile(job[c].rel) /\ job[c].rel \notin Exists

\* What the loop is about to announce as gone is gone, or its return is queued.
Says(m, what, p) == m.what \in what /\ m.wd = byPath[Parent(p)] /\ m.name = Last(p)
Latest == job[0].at = "announce" =>
    IF job[0].rel \in Paths /\ IsFile(job[0].rel)
    THEN /\ IsDir(Parent(job[0].rel)) => byPath[Parent(job[0].rel)] # None
         /\ job[0].rel \in Exists =>
                \E m \in Range(kq) : Lossy(m) \/ Says(m, {"CREATE", "TO"}, job[0].rel)
    ELSE ~IsDir(job[0].rel)

\* A file is where files are; a walk stays below its directory.
Kinds == \A p \in Paths : disk[p] = FileEntry => IsFile(p)
Scope == /\ job[0].at \in {"add", "read"} => \A t \in Range(job[0].todo) : Within(t, job[0].rel)
         /\ job[0].at = "gone" => ~IsFile(job[0].rel)

InQueue  == Back /\ Away /\ Parted /\ Left /\ Ordered
Reported == Untold /\ Ghosts /\ InQueue /\ InHalves /\ InTimers /\ Latest /\ Kinds /\ Scope

LEMMA ParentOfJoin ==
    ASSUME NEW x \in AnyPath, NEW name \in Names
    PROVE  Parent(Append(x, name)) = x
<1>1. PICK y \in AnyPath : y = Append(x, name)
  BY JoinIs
<1>2. Len(y) = Len(x) + 1 /\ (\A i \in 1..Len(x) : y[i] = x[i]) /\ Len(x) \in Nat
  BY <1>1, JoinIs DEF AnyPath
<1>3. y # Root
  BY <1>2 DEF Root
<1>4. PICK z \in AnyPath : z = Parent(y)
  BY <1>3, ParentIs
<1>5. Len(z) = Len(y) - 1 /\ Within(y, z)
  BY <1>3, <1>4, ParentIs
<1>6. Len(z) = Len(x) /\ \A i \in 1..Len(z) : z[i] = x[i]
  BY <1>2, <1>5, WithinIs
<1>7. z = x
  BY <1>6, SamePath
<1> QED BY <1>1, <1>4, <1>7

\* A notice that is heard is about a watched place.
LEMMA NewsIs ==
    ASSUME Inv, Sound, NEW n \in Letter, Heard(n)
    PROVE  /\ n.wd \in Wds /\ n.wd # None /\ n.wd < nextWd
           /\ byWd[n.wd] \in DirPaths /\ byWd[n.wd] \in AnyPath /\ byPath[byWd[n.wd]] = n.wd
           /\ PathOf(n) \in AnyPath /\ Within(PathOf(n), byWd[n.wd])
<1>1. n.what # "OVERFLOW" /\ byWd[n.wd] # NoPath
  BY DEF Heard
<1>2. n.wd \in Wds /\ byWd[n.wd] \in AnyPath /\ PathOf(n) \in AnyPath
      /\ Within(PathOf(n), byWd[n.wd])
  BY <1>1, PathOfIs
<1>3. n.wd < nextWd /\ byWd[n.wd] \in DirPaths /\ byPath[byWd[n.wd]] = n.wd
  BY <1>1, <1>2 DEF Sound, Marks
<1> QED BY <1>2, <1>3 DEF Wds, None

\* What is heard of a file is heard of it in its directory.
LEMMA FileNews ==
    ASSUME Inv, Sound, NEW n \in Letter, Heard(n), PathOf(n) \in Paths, IsFile(PathOf(n))
    PROVE  /\ n.name # Self /\ n.name = Last(PathOf(n))
           /\ Parent(PathOf(n)) = byWd[n.wd] /\ byPath[Parent(PathOf(n))] = n.wd
           /\ n.wd # None
<1>1. /\ byWd[n.wd] \in DirPaths /\ byWd[n.wd] \in AnyPath /\ byPath[byWd[n.wd]] = n.wd
      /\ n.wd # None
  BY NewsIs
<1>2. n.name # Self
  BY <1>1 DEF PathOf, DirPaths
<1>3. PathOf(n) = Append(byWd[n.wd], n.name) /\ n.name \in Names
  BY <1>2 DEF PathOf, Letter, Notice
<1>4. Last(PathOf(n)) = n.name
  <2>1. n.what # "OVERFLOW"
    BY DEF Heard
  <2> QED BY <1>2, <2>1, PathOfIs
<1> QED BY <1>1, <1>2, <1>3, <1>4, ParentOfJoin

\* A notice that names p in its directory is heard as p.
LEMMA SaysIs ==
    ASSUME Inv, NEW p \in Paths \ {Root}, byPath[Parent(p)] # None, NEW m, NEW what,
           Says(m, what, p), m.what # "OVERFLOW"
    PROVE  Heard(m) /\ PathOf(m) = p
<1>1. Last(p) # Self /\ Append(Parent(p), Last(p)) = p /\ Parent(p) \in DirPaths
  BY SelfIsNoName
<1>2. byWd[byPath[Parent(p)]] = Parent(p) /\ Parent(p) # NoPath
  BY <1>1, NoPathIs DEF Inv, TreeOK, Registry
<1> QED BY <1>1, <1>2 DEF Says, Heard, PathOf

\* The twin of what is said of a file says it of the same file.
LEMMA TwinIs ==
    ASSUME NEW n, Heard(n), NEW m, NEW what, Twin(m, n, what), m.what # "OVERFLOW"
    PROVE  Heard(m) /\ PathOf(m) = PathOf(n)
BY DEF Twin, Heard, PathOf

LEMMA AtFile ==
    ASSUME NEW p \in Paths, NEW x \in AnyPath, Within(p, x), IsFile(x)
    PROVE  p = x
BY PathsAbove DEF DirPaths

\* Below what is no directory there is nothing.
LEMMA NothingBelow ==
    ASSUME Inv, Kinds, NEW x \in AnyPath, ~IsDir(x), ~(x \in Paths /\ IsFile(x)),
           NEW p \in Paths, Within(p, x)
    PROVE  p \notin Exists
<1> SUFFICES ASSUME p \in Exists PROVE FALSE
  OBVIOUS
<1>1. x \in Paths /\ p \in AnyPath
  BY PathsAbove
<1>2. CASE p = x
  <2>1. disk[p] # None /\ disk[p] \in {None, FileEntry} \cup Inodes
    BY DEF Exists, Inv, DiskOK
  <2>2. disk[p] = FileEntry
    BY <1>1, <1>2, <2>1 DEF IsDir
  <2> QED BY <1>1, <1>2, <2>2 DEF Kinds
<1>3. CASE p # x
  <2>1. IsDir(x)
    BY <1>1, <1>3 DEF Inv, DiskOK, Under, Within, IsStrictPrefix
  <2> QED BY <2>1
<1> QED BY <1>2, <1>3

\* As long as a descriptor keeps its path, what is heard by it is heard as before.
LEMMA StillHeard ==
    ASSUME NEW n, n.what # "OVERFLOW" => byWd'[n.wd] = byWd[n.wd]
    PROVE  /\ Heard(n)' <=> Heard(n)
           /\ Heard(n) => PathOf(n)' = PathOf(n)
           /\ \A p : Raises(n, p)' <=> Raises(n, p)
           /\ \A p : Fells(n, p)' <=> Fells(n, p)
<1>1. CASE n.what = "OVERFLOW"
  BY <1>1 DEF Heard, Raises, Fells
<1>2. CASE n.what # "OVERFLOW"
  BY <1>2 DEF Heard, Raises, Fells, PathOf
<1> QED BY <1>1, <1>2

LEMMA ReportedAtFirst == Init => Reported
<1> SUFFICES ASSUME Init PROVE Reported
  OBVIOUS
<1>1. kq = << >> /\ DOMAIN kq = {} /\ Range(kq) = {} /\ 0 \in Jobs /\ Cookies \subseteq Jobs
  BY RangeOfFew, ConstantsAssumption DEF Init, Jobs, Cookies
<1>2. (\A j \in Jobs : job[j].at = "idle") /\ \A c \in Cookies : pending[c] = NoHalf
  BY DEF Init, Idle
<1>3. Exists = {} /\ view = {}
  BY DEF Init, Exists
<1>4. Kinds
  BY FileEntryIs, ConstantsAssumption DEF Init, Kinds, Inodes
<1>5. Untold /\ Ghosts /\ Back /\ Away /\ Parted
  BY <1>1, <1>3 DEF Untold, Ghosts, Back, Away, Parted
<1>6. Left /\ Ordered /\ InHalves /\ InTimers /\ Latest /\ Scope
  BY <1>1, <1>2 DEF Left, Ordered, InHalves, InTimers, Latest, Scope
<1> QED BY <1>4, <1>5, <1>6 DEF Reported, InQueue
-------------------------------------------------------------------------------

\* As long as the registry stays as it is, everything is heard as before.
LEMMA HeardAlike ==
    ASSUME UNCHANGED tree
    PROVE  \A n : /\ Heard(n)' <=> Heard(n)
                  /\ PathOf(n)' = PathOf(n)
                  /\ \A p : (Raises(n, p)' <=> Raises(n, p)) /\ (Fells(n, p)' <=> Fells(n, p))
                  /\ \A p, what : Says(n, what, p)' <=> Says(n, what, p)
BY DEF Heard, PathOf, Raises, Fells, Says, tree

LEMMA SameDisk == ASSUME UNCHANGED disk
                  PROVE  Exists' = Exists /\ \A x : IsDir(x)' <=> IsDir(x)
BY DEF Exists, IsDir

\* The loop takes a notice: what is said of those that remain is still true.
LEMMA QueueTaken ==
    ASSUME Inv, Sound, Reported, NEW what, Taking(what), UNCHANGED <<disk, ops, tree>>,
           \A w : Parting(Next1, w) /\ Heard(Next1) =>
                     job'[0].at = "gone" /\ job'[0].rel = PathOf(Next1)
    PROVE  InQueue' /\ Kinds'
<1>1. /\ kq \in Seq(Letter) /\ kq # << >> /\ kq' = Tail(kq) /\ Next1 = Head(kq)
      /\ job[0].at = "idle" /\ Range(kq) = Range(kq') \cup {Next1}
  BY LoopTakes DEF Taking, Inv, KernelOK, Next1
<1>2. ASSUME NEW i \in DOMAIN kq'
      PROVE  \E k \in DOMAIN kq : /\ kq'[i] = kq[k] /\ After(kq', i) = After(kq, k)
                                  /\ Before(kq, k) = Before(kq', i) \cup {Next1}
  BY <1>1, PlacesInTail
<1>3. \A n : (Heard(n)' <=> Heard(n)) /\ PathOf(n)' = PathOf(n)
  BY HeardAlike
<1>4. Exists' = Exists /\ Kinds'
  BY SameDisk DEF Reported, Kinds
<1>5. Back'
  <2> SUFFICES ASSUME NEW i \in DOMAIN kq', kq'[i].what = "DELETE", Heard(kq[i])',
                      PathOf(kq[i])' \in Exists'
               PROVE  \E m \in After(kq', i) : Lossy(m) \/ Twin(m, kq'[i], {"CREATE", "TO"})
    BY DEF Back, Lossy, Twin
  <2>1. PICK k \in DOMAIN kq : kq'[i] = kq[k] /\ After(kq', i) = After(kq, k)
    BY <1>2
  <2>2. PICK n : n = kq[k]
    OBVIOUS
  <2>3. Heard(n)' /\ PathOf(n)' \in Exists'
    BY <2>1, <2>2 DEF Heard, PathOf
  <2>4. Heard(n) /\ PathOf(n) \in Exists
    BY <1>3, <1>4, <2>3
  <2> QED BY <2>1, <2>2, <2>4 DEF Reported, InQueue, Back
<1>6. Away'
  <2> SUFFICES ASSUME NEW i \in DOMAIN kq', kq'[i].what = "TO", Heard(kq[i])',
                      PathOf(kq[i])' \notin Exists'
               PROVE  \E m \in After(kq', i) : Lossy(m) \/ Twin(m, kq'[i], {"DELETE", "FROM"})
    BY DEF Away, Lossy, Twin
  <2>1. PICK k \in DOMAIN kq : kq'[i] = kq[k] /\ After(kq', i) = After(kq, k)
    BY <1>2
  <2>2. PICK n : n = kq[k]
    OBVIOUS
  <2>3. Heard(n)' /\ PathOf(n)' \notin Exists'
    BY <2>1, <2>2 DEF Heard, PathOf
  <2>4. Heard(n) /\ PathOf(n) \notin Exists
    BY <1>3, <1>4, <2>3
  <2> QED BY <2>1, <2>2, <2>4 DEF Reported, InQueue, Away
<1>7. Parted'
  <2> SUFFICES ASSUME NEW i \in DOMAIN kq', kq'[i].what = "IGNORED", Heard(kq[i])'
               PROVE  \/ \E m \in Before(kq', i) : Parting(m, kq'[i].wd)
                      \/ job'[0].at = "gone" /\ Within(byWd'[kq'[i].wd], job'[0].rel)
    BY DEF Parted, Parting
  <2>1. PICK k \in DOMAIN kq : /\ kq'[i] = kq[k]
                               /\ Before(kq, k) = Before(kq', i) \cup {Next1}
    BY <1>2
  <2>2. PICK n : n = kq[k]
    OBVIOUS
  <2>3. Heard(n)'
    BY <2>1, <2>2 DEF Heard
  <2>4. Heard(n)
    BY <1>3, <2>3
  <2>5. PICK m \in Before(kq, k) : Parting(m, n.wd)
    BY <1>1, <2>1, <2>2, <2>4 DEF Reported, InQueue, Parted
  <2>6. CASE m = Next1
    <3>1. Heard(Next1) /\ PathOf(Next1) = byWd[n.wd]
      BY <2>4, <2>5, <2>6 DEF Heard, Parting, PathOf
    <3>2. PathOf(Next1) \in AnyPath
      <4>1. Next1 \in Letter
        BY LoopTakes
      <4> QED BY <3>1, <4>1, PathOfIs DEF Heard
    <3>3. job'[0].at = "gone" /\ job'[0].rel = byWd[n.wd]
      BY <2>5, <2>6, <3>1
    <3>4. Within(byWd[n.wd], byWd[n.wd])
      BY <3>1, <3>2, WithinOrder
    <3> QED BY <2>1, <2>2, <3>3, <3>4 DEF tree
  <2> QED BY <2>1, <2>2, <2>5, <2>6
<1>8. Left'
  BY <1>1, <1>3, <1>4 DEF Reported, InQueue, Left
<1>9. Ordered'
  <2>1. \A n \in Range(kq') : n.cookie <= ops'
    BY <1>1 DEF Reported, InQueue, Ordered
  <2>2. ASSUME NEW i \in DOMAIN kq', kq'[i].what = "TO", NEW m \in After(kq', i)
        PROVE  ~(m.what = "FROM" /\ m.cookie = kq'[i].cookie)
    BY <1>2, <2>2 DEF Reported, InQueue, Ordered
  <2> QED BY <2>1, <2>2 DEF Ordered
<1> QED BY <1>4, <1>5, <1>6, <1>7, <1>8, <1>9 DEF InQueue

\* What else is on its way.
LEMMA StillComing ==
    ASSUME Inv, Sound, Reported, NEW what, Taking(what), UNCHANGED <<tree>>,
           resync \/ Lossy(Next1) => resync',
           \A c \in Cookies : /\ job'[c] = job[c]
                              /\ pending'[c] = pending[c] \/ pending[c] = NoHalf
    PROVE  /\ \A p : Rising(p) => Raises(Next1, p) \/ Rising(p)'
           /\ \A p : Falling(p) => Fells(Next1, p) \/ Falling(p)'
           /\ Rereads => Rereads'
<1>1. /\ job[0].at = "idle" /\ Range(kq) = Range(kq') \cup {Next1}
      /\ Cookies = Jobs \ {0}
  BY LoopTakes, LoopsJob
<1>2. \A n : /\ \A p : (Raises(n, p)' <=> Raises(n, p)) /\ (Fells(n, p)' <=> Fells(n, p))
             /\ Lossy(n)' <=> Lossy(n)
  BY HeardAlike DEF Lossy
<1>3. ASSUME NEW p, Rising(p), ~Raises(Next1, p)
      PROVE  Rising(p)'
  <2>1. CASE \E n \in Range(kq) : Raises(n, p)
    <3>1. \E n \in Range(kq') : Raises(n, p)'
      BY <1>1, <1>2, <1>3, <2>1
    <3> QED BY <3>1 DEF Rising
  <2>2. CASE \E c \in Cookies : Arrived(c, p)
    BY <2>2 DEF Rising, Arrived
  <2>3. CASE \E j \in Jobs : Brings(j, p)
    <3>1. PICK j \in Jobs : Brings(j, p)
      BY <2>3
    <3>2. j \in Cookies /\ job'[j] = job[j]
      BY <1>1, <3>1 DEF Brings
    <3> QED BY <1>1, <3>1, <3>2 DEF Rising, Brings
  <2> QED BY <1>3, <2>1, <2>2, <2>3 DEF Rising
<1>4. ASSUME NEW p, Falling(p), ~Fells(Next1, p)
      PROVE  Falling(p)'
  <2>1. CASE \E n \in Range(kq) : Fells(n, p)
    <3>1. \E n \in Range(kq') : Fells(n, p)'
      BY <1>1, <1>2, <1>4, <2>1
    <3> QED BY <3>1 DEF Falling
  <2>2. CASE \E c \in Cookies : Gone(c, p)
    BY <2>2 DEF Falling, Gone
  <2>3. CASE \E j \in Jobs : Takes(j, p)
    <3>1. PICK j \in Jobs : Takes(j, p)
      BY <2>3
    <3>2. j \in Cookies /\ job'[j] = job[j]
      BY <1>1, <3>1 DEF Takes
    <3> QED BY <3>1, <3>2 DEF Falling, Takes
  <2> QED BY <1>4, <2>1, <2>2, <2>3 DEF Falling
<1>5. Rereads => Rereads'
  BY <1>1, <1>2 DEF Rereads, Lossy
<1> QED BY <1>3, <1>4, <1>5

\* A notice is taken and the view stays.
LEMMA ViewStays ==
    ASSUME Inv, Sound, Reported, NEW what, Taking(what), UNCHANGED <<disk, tree, blind, view>>,
           resync \/ Lossy(Next1) => resync',
           \A c \in Cookies : /\ job'[c] = job[c]
                              /\ pending'[c] = pending[c] \/ pending[c] = NoHalf,
           \A p \in Paths : /\ Raises(Next1, p) => Rising(p)'
                            /\ Fells(Next1, p) => Falling(p)'
    PROVE  Untold' /\ Ghosts'
<1>1. /\ \A p : Rising(p) => Raises(Next1, p) \/ Rising(p)'
      /\ \A p : Falling(p) => Fells(Next1, p) \/ Falling(p)'
      /\ Rereads => Rereads'
  BY StillComing
<1>2. Exists' = Exists /\ Exists \subseteq Paths /\ view \subseteq Paths
  BY SameDisk DEF Exists, Inv, RestOK
<1>3. ASSUME ~blind, NEW p \in Exists \ view
      PROVE  Rising(p)' \/ Rereads'
  BY <1>1, <1>2, <1>3 DEF Reported, Untold
<1>4. ASSUME ~blind, NEW p \in view \ Exists
      PROVE  Falling(p)' \/ Rereads'
  BY <1>1, <1>2, <1>4 DEF Reported, Ghosts
<1> QED BY <1>2, <1>3, <1>4 DEF Untold, Ghosts

\* A notice that says nothing of what exists is taken.
LEMMA NothingSaid ==
    ASSUME Inv, Sound, Reported, NEW what, Taking(what),
           UNCHANGED <<disk, ops, tree, pending, job, blind, view>>,
           resync \/ Lossy(Next1) => resync',
           Heard(Next1) => Next1.what \notin {"CREATE", "TO", "DELETE", "FROM"}
    PROVE  Reported'
<1>1. job[0].at = "idle" /\ Range(kq) = Range(kq') \cup {Next1}
  BY LoopTakes
<1>2. InQueue' /\ Kinds'
  BY QueueTaken DEF Parting
<1>3. Untold' /\ Ghosts'
  BY ViewStays DEF Raises, Fells
<1>4. Exists' = Exists
  BY SameDisk
<1>5. InHalves' /\ InTimers' /\ Latest' /\ Scope'
  BY <1>1, <1>4 DEF Reported, InHalves, InTimers, Latest, Scope
<1> QED BY <1>2, <1>3, <1>5 DEF Reported

LEMMA OverflowReported == ASSUME Inv, Sound, Reported, HandleOverflow PROVE Reported'
<1>1. Taking({"OVERFLOW"}) /\ UNCHANGED <<disk, ops, tree, pending, job, blind, view>> /\ resync'
  BY DEF HandleOverflow, users
<1>2. ~Heard(Next1)
  BY <1>1, LoopTakes DEF Heard
<1> QED BY <1>1, <1>2, NothingSaid

LEMMA ResidualReported == ASSUME Inv, Sound, Reported, HandleResidual PROVE Reported'
<1> DEFINE what == {"CREATE", "DELETE", "FROM", "TO", "MOVED"}
<1>1. /\ Taking(what) /\ ~Heard(Next1)
      /\ UNCHANGED <<disk, ops, tree, pending, job, blind, view, resync>>
  BY DEF HandleResidual, Known, Heard, users, signals
<1>2. ~Lossy(Next1)
  BY <1>1, LoopTakes DEF Lossy
<1> HIDE DEF what
<1> QED BY <1>1, <1>2, NothingSaid

LEMMA MovedReported == ASSUME Inv, Sound, Reported, HandleMoved PROVE Reported'
<1>1. Taking({"MOVED"}) /\ UNCHANGED <<disk, ops, tree, pending, job, blind, view, resync>>
  BY DEF HandleMoved, users
<1>2. Next1.what = "MOVED"
  BY <1>1, LoopTakes
<1> QED BY <1>1, <1>2, NothingSaid DEF Lossy

\* What the kernel confirms is a watch the watcher has discarded already.
LEMMA IgnoredReported == ASSUME Inv, Sound, Reported, HandleIgnored PROVE Reported'
<1>1. /\ Taking({"IGNORED"}) /\ TreeRemove(Next1.wd)
      /\ UNCHANGED <<disk, ops, pending, job, blind, view, resync>>
  BY DEF HandleIgnored, users, signals
<1>2. Next1.what = "IGNORED" /\ Next1 \in Letter /\ job[0].at = "idle"
  BY <1>1, LoopTakes
<1>3. PICK w \in Wds : w = Next1.wd
  BY <1>2 DEF Letter
<1>4. byWd[w] = NoPath
  <2>1. 1 \in DOMAIN kq /\ kq[1] = Next1 /\ Before(kq, 1) = {}
    <3>1. kq \in Seq(Letter) /\ kq # << >>
      BY <1>1 DEF Inv, KernelOK, Taking
    <3> QED BY <3>1 DEF Next1, Before
  <2> QED BY <1>2, <1>3, <2>1 DEF Reported, InQueue, Parted, Heard
<1>5. UNCHANGED tree
  <2>1. byPath' = [q \in DirPaths |-> byPath[q]]
    BY <1>1, <1>3, <1>4, NoPathIs DEF TreeRemove
  <2>2. byWd' = byWd
    BY <1>1, <1>3, <1>4 DEF TreeRemove, Inv, TreeOK
  <2> QED BY <2>1, <2>2 DEF tree, Inv, TreeOK
<1> QED BY <1>1, <1>2, <1>5, NothingSaid DEF Lossy

LEMMA CreateReported == ASSUME Inv, Sound, Reported, HandleCreate PROVE Reported'
<1>1. /\ Taking({"CREATE"}) /\ job' = [job EXCEPT ![0] = Found(Rel)]
      /\ UNCHANGED <<disk, ops, tree, pending, blind, view, resync>>
  BY DEF HandleCreate, users, signals
<1>2. Next1.what = "CREATE" /\ Next1 \in Letter /\ Range(kq) = Range(kq') \cup {Next1}
  BY <1>1, LoopTakes
<1>3. Rel \in AnyPath /\ Rel = PathOf(Next1)
  BY <1>2, PathOfIs DEF Rel
<1>4. /\ job'[0].at = "add" /\ job'[0].rel = Rel
      /\ job'[0].todo = IF IsFile(Rel) THEN << >> ELSE <<Rel>>
      /\ \A c \in Cookies : job'[c] = job[c]
  BY <1>1, LoopsJob DEF Found
<1>5. InQueue' /\ Kinds'
  BY <1>1, <1>2, QueueTaken DEF Parting
<1>6. \A p \in Paths : (Raises(Next1, p) => Rising(p)') /\ ~Fells(Next1, p)
  BY <1>2, <1>3, <1>4, LoopsJob DEF Raises, Rising, Brings, Fells
<1>7. Untold' /\ Ghosts'
  BY <1>1, <1>2, <1>4, <1>6, ViewStays DEF Lossy
<1>8. Exists' = Exists
  BY <1>1, SameDisk
<1>9. InHalves' /\ InTimers' /\ Latest'
  BY <1>1, <1>2, <1>4, <1>8 DEF Reported, InHalves, InTimers, Latest
<1>10. Scope'
  <2>1. Range(job'[0].todo) \subseteq {Rel} /\ Within(Rel, Rel)
    BY <1>3, <1>4, RangeOfFew, WithinOrder
  <2> QED BY <1>4, <2>1 DEF Scope
<1> QED BY <1>5, <1>7, <1>9, <1>10 DEF Reported

LEMMA DeleteReported == ASSUME Inv, Sound, Reported, HandleDelete PROVE Reported'
<1>1. /\ Taking({"DELETE"}) /\ Known /\ job' = [job EXCEPT ![0] = Lost(Rel)]
      /\ UNCHANGED <<disk, ops, tree, pending, blind, view, resync>>
  BY DEF HandleDelete, users, signals
<1>2. Next1.what = "DELETE" /\ Next1 \in Letter /\ Range(kq) = Range(kq') \cup {Next1}
      /\ Fit(Next1)
  BY <1>1, LoopTakes
<1>3. Rel \in AnyPath /\ Rel = PathOf(Next1) /\ Heard(Next1) /\ ~IsDir(Rel)
  BY <1>1, <1>2, PathOfIs DEF Rel, Heard, Known, Fit
<1>4. /\ job'[0].at = IF IsFile(Rel) THEN "announce" ELSE "gone"
      /\ job'[0].rel = Rel
      /\ \A c \in Cookies : job'[c] = job[c]
  BY <1>1, LoopsJob DEF Lost
<1>5. ASSUME NEW w, Parting(Next1, w)
      PROVE  job'[0].at = "gone" /\ job'[0].rel = PathOf(Next1)
  <2>1. PathOf(Next1) = byWd[Next1.wd] /\ byWd[Next1.wd] \in DirPaths
    BY <1>2, <1>3, <1>5, NewsIs DEF Parting, PathOf
  <2> QED BY <1>3, <1>4, <2>1 DEF DirPaths
<1>6. InQueue' /\ Kinds'
  BY <1>1, <1>5, QueueTaken
<1>7. \A p \in Paths : (Fells(Next1, p) => Falling(p)') /\ ~Raises(Next1, p)
  BY <1>2, <1>3, <1>4, LoopsJob DEF Raises, Falling, Takes, Fells
<1>8. Untold' /\ Ghosts'
  BY <1>1, <1>2, <1>4, <1>7, ViewStays DEF Lossy
<1>9. Exists' = Exists /\ (\A x : IsDir(x)' <=> IsDir(x)) /\ byPath' = byPath
  BY <1>1, SameDisk DEF tree
<1>10. InHalves' /\ InTimers' /\ Scope'
  BY <1>1, <1>2, <1>4, <1>9 DEF Reported, InHalves, InTimers, Scope
<1>11. ASSUME Rel \in Paths, IsFile(Rel)
       PROVE  /\ byPath[Parent(Rel)] # None
              /\ Rel \in Exists => \E m \in Range(kq') : Lossy(m) \/ Says(m, {"CREATE", "TO"}, Rel)
  <2>1. byPath[Parent(Rel)] = Next1.wd /\ Next1.wd # None /\ Next1.name = Last(Rel)
    BY <1>2, <1>3, <1>11, FileNews
  <2>2. kq \in Seq(Letter) /\ kq # << >> /\ kq' = Tail(kq) /\ Next1 = Head(kq)
    BY <1>1 DEF Taking, Inv, KernelOK, Next1
  <2>3. 1 \in DOMAIN kq /\ kq[1] = Next1 /\ After(kq, 1) = Range(kq')
    BY <2>2, PlacesInTail
  <2>4. Rel \in Exists => \E m \in Range(kq') : Lossy(m) \/ Twin(m, Next1, {"CREATE", "TO"})
    BY <1>2, <1>3, <2>3 DEF Reported, InQueue, Back
  <2> QED BY <2>1, <2>4 DEF Twin, Says
<1>12. Latest'
  <2>1. PICK r : r = Rel
    OBVIOUS
  <2>2. ASSUME r \in Paths, IsFile(r)
        PROVE  /\ byPath'[Parent(r)] # None
               /\ r \in Exists' => \E m \in Range(kq') : Lossy(m)' \/ Says(m, {"CREATE", "TO"}, r)'
    BY <1>9, <1>11, <2>1, <2>2 DEF Lossy, Says
  <2>3. ~IsDir(r)' /\ job'[0].rel = r
    BY <1>3, <1>4, <1>9, <2>1
  <2> QED BY <2>2, <2>3 DEF Latest, IsDir, Lossy, Says
<1> QED BY <1>6, <1>8, <1>10, <1>12 DEF Reported

\* Half a rename of a file.
LEMMA HalfIs ==
    ASSUME Inv, Sound, Reported, Taking({"FROM", "TO"}), Known
    PROVE  /\ Next1 \in Letter /\ Next1.what \in {"FROM", "TO"} /\ Heard(Next1)
           /\ Rel = PathOf(Next1) /\ IsFile(Rel) /\ Rel \in AnyPath
           /\ Next1.cookie \in Cookies /\ Next1.cookie <= ops
           /\ Range(kq) = Range(kq') \cup {Next1}
           /\ 1 \in DOMAIN kq /\ kq[1] = Next1 /\ After(kq, 1) = Range(kq')
           /\ \A p \in Paths : Within(p, Rel) => p = Rel
<1>1. Next1 \in Letter /\ Next1.what \in {"FROM", "TO"} /\ Fit(Next1)
      /\ Range(kq) = Range(kq') \cup {Next1}
  BY LoopTakes
<1>2. Rel = PathOf(Next1) /\ Rel \in AnyPath /\ IsFile(Rel) /\ Heard(Next1)
  BY <1>1, PathOfIs DEF Fit, Rel, IsFile, Heard, Known
<1>3. Next1.cookie \in Cookies /\ Next1.cookie <= ops
  BY <1>1 DEF Letter, Reported, InQueue, Ordered
<1>4. kq \in Seq(Letter) /\ kq # << >> /\ kq' = Tail(kq) /\ Next1 = Head(kq)
  BY DEF Taking, Inv, KernelOK, Next1
<1>5. 1 \in DOMAIN kq /\ kq[1] = Next1 /\ After(kq, 1) = Range(kq')
  BY <1>4, PlacesInTail
<1>6. \A p \in Paths : Within(p, Rel) => p = Rel
  BY <1>2, AtFile
<1> QED BY <1>1, <1>2, <1>3, <1>5, <1>6

LEMMA WaitReported == ASSUME Inv, Sound, Reported, Wait PROVE Reported'
<1> DEFINE c == Next1.cookie
           h == [rel |-> Rel, from |-> Next1.what = "FROM"]
<1>1. /\ Taking({"FROM", "TO"}) /\ Known /\ pending[c] = NoHalf
      /\ pending' = [pending EXCEPT ![c] = h]
      /\ UNCHANGED <<disk, ops, tree, job, blind, view, resync>>
  BY DEF Wait, users, signals
<1>2. /\ Next1 \in Letter /\ Next1.what \in {"FROM", "TO"} /\ Heard(Next1)
      /\ Rel = PathOf(Next1) /\ IsFile(Rel) /\ Rel \in AnyPath
      /\ c \in Cookies /\ c <= ops
      /\ Range(kq) = Range(kq') \cup {Next1}
      /\ 1 \in DOMAIN kq /\ kq[1] = Next1 /\ After(kq, 1) = Range(kq')
      /\ \A p \in Paths : Within(p, Rel) => p = Rel
  BY <1>1, HalfIs
<1>3. h.rel = Rel /\ h.from = (Next1.what = "FROM")
  OBVIOUS

<1> HIDE DEF c, h
<1>4. /\ pending'[c] = h
      /\ \A d \in Cookies \ {c} : pending'[d] = pending[d]
  BY <1>1, <1>2 DEF Inv, WorkOK
<1>5. InQueue' /\ Kinds'
  BY <1>1, <1>2, QueueTaken DEF Parting
<1>6. ASSUME NEW p \in Paths, Raises(Next1, p) \/ Fells(Next1, p)
      PROVE  p = Rel /\ pending'[c] # NoHalf
  <2>1. p = Rel
    BY <1>2, <1>6 DEF Raises, Fells
  <2>2. h.rel # NoHalf.rel
    BY <1>3, <2>1, NoPathIs DEF NoHalf
  <2> QED BY <1>4, <2>1, <2>2
<1>7. ASSUME NEW p \in Paths
      PROVE  (Raises(Next1, p) => Rising(p)') /\ (Fells(Next1, p) => Falling(p)')
  <2>1. Raises(Next1, p) => Rising(p)'
    BY <1>2, <1>3, <1>4, <1>6 DEF Raises, Rising, Arrived
  <2>2. Fells(Next1, p) => Falling(p)'
    BY <1>2, <1>3, <1>4, <1>6 DEF Fells, Falling, Gone
  <2> QED BY <2>1, <2>2
<1>8. Untold' /\ Ghosts'
  <2>1. \A d \in Cookies : job'[d] = job[d] /\ (pending'[d] = pending[d] \/ pending[d] = NoHalf)
    BY <1>1, <1>4
  <2>2. resync \/ Lossy(Next1) => resync'
    BY <1>1, <1>2 DEF Lossy
  <2> QED BY <1>1, <1>7, <2>1, <2>2, ViewStays
<1>9. Exists' = Exists
  BY <1>1, SameDisk
<1>10. ASSUME NEW d \in Cookies, pending'[d] # NoHalf
       PROVE  /\ d <= ops'
              /\ IF pending'[d].from THEN pending'[d].rel \notin Exists'
                 ELSE \A m \in Range(kq') : ~(m.what = "FROM" /\ m.cookie = d)
  <2>1. CASE d # c
    BY <1>1, <1>2, <1>4, <1>9, <1>10, <2>1 DEF Reported, InHalves
  <2>2. CASE d = c
    <3>1. Next1.what = "FROM" => Rel \notin Exists
      BY <1>2 DEF Reported, InQueue, Left
    <3>2. Next1.what = "TO" => \A m \in Range(kq') : ~(m.what = "FROM" /\ m.cookie = c)
      BY <1>2 DEF Reported, InQueue, Ordered, c
    <3>3. pending'[d] = h /\ d <= ops'
      BY <1>1, <1>2, <1>4, <2>2
    <3>4. CASE h.from
      BY <1>2, <1>3, <1>9, <3>1, <3>3, <3>4
    <3>5. CASE ~h.from
      BY <1>2, <1>3, <2>2, <3>2, <3>3, <3>5
    <3> QED BY <3>4, <3>5
  <2> QED BY <2>1, <2>2
<1>11. InHalves'
  BY <1>10 DEF InHalves
<1>12. job[0].at = "idle"
  BY <1>1, LoopTakes
<1>13. InTimers' /\ Latest' /\ Scope'
  BY <1>1, <1>9, <1>12 DEF Reported, InTimers, Latest, Scope
<1> QED BY <1>5, <1>8, <1>11, <1>13 DEF Reported

\* The halves of a rename meet: the one that left has waited, its name is still free,
\* and what has become of the new name since is said behind it.
LEMMA PairReported == ASSUME Inv, Sound, Reported, Pair PROVE Reported'
<1> DEFINE c == Next1.cookie
           from == pending[c].rel
<1>1. /\ Taking({"FROM", "TO"}) /\ Known /\ pending[c] # NoHalf
      /\ pending[c].from = (Next1.what = "TO")
      /\ pending' = [pending EXCEPT ![c] = NoHalf]
      /\ UNCHANGED <<disk, ops, job, blind, resync>>
  BY DEF Pair, users, signals
<1>2. /\ Next1 \in Letter /\ Next1.what \in {"FROM", "TO"} /\ Heard(Next1)
      /\ Rel = PathOf(Next1) /\ IsFile(Rel) /\ Rel \in AnyPath
      /\ c \in Cookies /\ c <= ops
      /\ Range(kq) = Range(kq') \cup {Next1}
      /\ 1 \in DOMAIN kq /\ kq[1] = Next1 /\ After(kq, 1) = Range(kq')
      /\ \A p \in Paths : Within(p, Rel) => p = Rel
  BY <1>1, HalfIs
<1>3. Next1.what = "TO" /\ pending[c].from /\ from \notin Exists
  BY <1>1, <1>2 DEF Reported, InHalves
<1>4. from \in AnyPath /\ IsFile(from) /\ \A p \in Paths : Within(p, from) => p = from
  <2>1. from \in AnyPath /\ IsFile(from)
    BY <1>1, <1>2 DEF Inv, WorkOK, Half, Sound, FileTasks
  <2> QED BY <2>1, AtFile
<1>5. UNCHANGED tree /\ EmitMove(from, Rel)
  BY <1>2, <1>3 DEF Pair
<1> HIDE DEF c, from
<1>6. /\ pending'[c] = NoHalf
      /\ \A d \in Cookies \ {c} : pending'[d] = pending[d]
  BY <1>1, <1>2 DEF Inv, WorkOK
<1>7. InQueue' /\ Kinds'
  BY <1>1, <1>2, <1>5, QueueTaken DEF Parting
<1>8. Exists' = Exists /\ Exists \subseteq Paths /\ view \subseteq Paths
  BY <1>1, SameDisk DEF Exists, Inv, RestOK
<1>9. /\ job[0].at = "idle"
      /\ \A n : /\ (Heard(n)' <=> Heard(n)) /\ (Lossy(n)' <=> Lossy(n))
                /\ \A p : (Raises(n, p)' <=> Raises(n, p)) /\ (Fells(n, p)' <=> Fells(n, p))
  BY <1>1, <1>5, LoopTakes, HeardAlike DEF Lossy
<1>10. /\ ~Lossy(Next1) /\ (Rereads => Rereads')
       /\ \A p : ~Fells(Next1, p)
  BY <1>1, <1>2, <1>3, <1>9 DEF Rereads, Lossy, Fells
<1>11. ASSUME NEW p \in Paths, Rising(p), p # Rel
       PROVE  Rising(p)'
  <2>1. ~Raises(Next1, p)
    BY <1>2, <1>11 DEF Raises
  <2>2. CASE \E n \in Range(kq) : Raises(n, p)
    <3>1. \E n \in Range(kq') : Raises(n, p)'
      BY <1>2, <1>9, <2>1, <2>2
    <3> QED BY <3>1 DEF Rising
  <2>3. CASE \E d \in Cookies : Arrived(d, p)
    <3>1. PICK d \in Cookies : Arrived(d, p)
      BY <2>3
    <3>2. d # c
      BY <1>3, <3>1 DEF Arrived
    <3> QED BY <1>6, <3>1, <3>2 DEF Rising, Arrived
  <2>4. CASE \E j \in Jobs : Brings(j, p)
    BY <1>1, <2>4 DEF Rising, Brings
  <2> QED BY <1>11, <2>2, <2>3, <2>4 DEF Rising
<1>12. ASSUME NEW p \in Paths, Falling(p), p # from
       PROVE  Falling(p)'
  <2>1. CASE \E n \in Range(kq) : Fells(n, p)
    <3>1. \E n \in Range(kq') : Fells(n, p)'
      BY <1>2, <1>9, <1>10, <2>1
    <3> QED BY <3>1 DEF Falling
  <2>2. CASE \E d \in Cookies : Gone(d, p)
    <3>1. PICK d \in Cookies : Gone(d, p)
      BY <2>2
    <3>2. d # c
      BY <1>12, <3>1 DEF from, Gone
    <3> QED BY <1>6, <3>1, <3>2 DEF Falling, Gone
  <2>3. CASE \E j \in Jobs : Takes(j, p)
    BY <1>1, <2>3 DEF Falling, Takes
  <2> QED BY <1>12, <2>1, <2>2, <2>3 DEF Falling
<1>13. ASSUME NEW r \in Paths, r = Rel, r \notin Exists
       PROVE  Falling(r)' \/ Rereads'
  <2>1. PICK m \in Range(kq') : Lossy(m) \/ Twin(m, Next1, {"DELETE", "FROM"})
    BY <1>2, <1>3, <1>13 DEF Reported, InQueue, Away
  <2>2. CASE Lossy(m)
    BY <2>2 DEF Rereads, Lossy
  <2>3. CASE ~Lossy(m)
    <3>1. Heard(m) /\ PathOf(m) = r /\ m.what \in {"DELETE", "FROM"} /\ Within(r, r)
      BY <1>2, <1>13, <2>1, <2>3, TwinIs, WithinOrder DEF Lossy, Twin
    <3>2. Fells(m, r)'
      BY <1>9, <3>1 DEF Fells
    <3> QED BY <3>2 DEF Falling
  <2> QED BY <2>2, <2>3
<1>14. from \in view => Rebase(from, from, Rel) = Rel
  BY <1>2, <1>4, RebaseOnto
<1>15. ASSUME ~blind, NEW p \in Exists, p \notin view'
       PROVE  Rising(p)' \/ Rereads'
  <2>1. p \in Paths /\ p # from
    BY <1>3, <1>8, <1>15
  <2>2. p \notin view
    BY <1>4, <1>5, <1>15, <2>1 DEF EmitMove
  <2>3. p # Rel
    <3>1. Within(Rel, Rel) /\ Within(from, from)
      BY <1>2, <1>4, WithinOrder
    <3> QED BY <1>5, <1>14, <1>15, <2>1, <3>1 DEF EmitMove
  <2>4. Rising(p) \/ Rereads
    BY <1>15, <2>2 DEF Reported, Untold
  <2> QED BY <1>10, <1>11, <2>1, <2>3, <2>4
<1>16. ASSUME ~blind, NEW p \in view', p \notin Exists
       PROVE  Falling(p)' \/ Rereads'
  <2>1. CASE p \in view /\ ~Within(p, from)
    <3>1. p # from
      BY <1>4, <2>1, WithinOrder
    <3>2. Falling(p) \/ Rereads
      BY <1>16, <2>1 DEF Reported, Ghosts
    <3> QED BY <1>8, <1>10, <1>12, <2>1, <3>1, <3>2
  <2>2. CASE ~(p \in view /\ ~Within(p, from))
    <3>1. /\ from \in view /\ p \in Paths
          /\ \E q \in view : Within(q, from) /\ p = Rebase(q, from, Rel)
      BY <1>5, <1>16, <2>2 DEF EmitMove
    <3>2. p = Rel
      BY <1>4, <1>8, <1>14, <3>1
    <3> QED BY <1>13, <1>16, <3>1, <3>2
  <2> QED BY <2>1, <2>2
<1>17. Untold' /\ Ghosts'
  BY <1>1, <1>8, <1>15, <1>16 DEF Untold, Ghosts
<1>18. InHalves'
  <2> SUFFICES ASSUME NEW d \in Cookies, pending'[d] # NoHalf
               PROVE  /\ d <= ops'
                      /\ IF pending'[d].from THEN pending'[d].rel \notin Exists'
                         ELSE \A m \in Range(kq') : ~(m.what = "FROM" /\ m.cookie = d)
    BY DEF InHalves
  <2>1. d # c /\ pending'[d] = pending[d]
    BY <1>6
  <2> QED BY <1>1, <1>2, <1>8, <2>1 DEF Reported, InHalves
<1>19. InTimers' /\ Latest' /\ Scope'
  BY <1>1, <1>8, <1>9 DEF Reported, InTimers, Latest, Scope
<1> QED BY <1>7, <1>17, <1>18, <1>19 DEF Reported

\* The queue stays; what the registry forgets is not heard any more.
LEMMA QueueStays ==
    ASSUME Inv, Sound, Reported, UNCHANGED <<disk, ops, kq>>,
           \A n \in Range(kq) : n.what # "OVERFLOW" => byWd'[n.wd] \in {byWd[n.wd], NoPath},
           \A w \in Wds : job[0].at = "gone" /\ Within(byWd[w], job[0].rel) =>
                           \/ byWd'[w] = NoPath
                           \/ job'[0].at = "gone" /\ Within(byWd'[w], job'[0].rel)
    PROVE  InQueue' /\ Kinds'
<1>1. ASSUME NEW n \in Range(kq), Heard(n)'
      PROVE  Heard(n) /\ PathOf(n)' = PathOf(n) /\ byWd'[n.wd] = byWd[n.wd]
  BY <1>1 DEF Heard, PathOf
<1>2. \A i \in DOMAIN kq : kq[i] \in Range(kq)
  BY DEF Range
<1>3. Exists' = Exists /\ Kinds'
  BY SameDisk DEF Reported, Kinds
<1>4. ASSUME NEW i \in DOMAIN kq, Heard(kq[i])'
      PROVE  Heard(kq[i]) /\ PathOf(kq[i])' = PathOf(kq[i]) /\ byWd'[kq[i].wd] = byWd[kq[i].wd]
  <2>1. PICK n \in Range(kq) : n = kq[i]
    BY <1>2
  <2>2. Heard(n)'
    BY <1>4, <2>1 DEF Heard
  <2>3. Heard(n) /\ PathOf(n)' = PathOf(n) /\ byWd'[n.wd] = byWd[n.wd]
    BY <1>1, <2>2
  <2> QED BY <2>1, <2>3 DEF PathOf
<1>5. Back'
  BY <1>3, <1>4 DEF Reported, InQueue, Back, Twin, Lossy, After, Heard, PathOf
<1>6. Away'
  BY <1>3, <1>4 DEF Reported, InQueue, Away, Twin, Lossy, After, Heard, PathOf
<1>7. Parted'
  <2> SUFFICES ASSUME NEW i \in DOMAIN kq, kq[i].what = "IGNORED", Heard(kq[i])'
               PROVE  \/ \E m \in Before(kq, i) : Parting(m, kq[i].wd)
                      \/ job'[0].at = "gone" /\ Within(byWd'[kq[i].wd], job'[0].rel)
    BY DEF Parted, Parting, Before, Heard
  <2>1. Heard(kq[i]) /\ byWd'[kq[i].wd] # NoPath
    BY <1>4 DEF Heard
  <2>2. kq[i].wd \in Wds
    <3>1. kq[i] \in Letter /\ kq[i].what # "OVERFLOW"
      BY <1>2, QueuedAre
    <3> QED BY <3>1 DEF Letter
  <2> QED BY <2>1, <2>2 DEF Reported, InQueue, Parted
<1>8. Left'
  BY <1>1, <1>3 DEF Reported, InQueue, Left
<1>9. Ordered'
  BY DEF Reported, InQueue, Ordered, After
<1> QED BY <1>3, <1>5, <1>6, <1>7, <1>8, <1>9 DEF InQueue

\* A thread goes on; what the others bring and take stays.
LEMMA TurnReported ==
    ASSUME Inv, Sound, Reported, NEW j \in Jobs, UNCHANGED <<disk, ops, kq, resync>>,
           \A k \in Jobs \ {j} : job'[k] = job[k],
           \A c \in Cookies : pending'[c] = pending[c] \/ (c = j /\ pending'[c] = NoHalf),
           \A n \in Range(kq) : n.what # "OVERFLOW" => byWd'[n.wd] = byWd[n.wd],
           job[0].at = "gone" => j # 0 /\ UNCHANGED tree,
           blind => blind',
           ~blind' => \A p \in Exists \ view' :
               IF p \in view THEN Rising(p)' \/ Rereads'
               ELSE Brings(j, p) \/ (j \in Cookies /\ Arrived(j, p) /\ pending'[j] # pending[j])
                   => Brings(j, p)',
           ~blind' => \A p \in view' \ Exists :
               /\ p \in view
               /\ Takes(j, p) \/ (j \in Cookies /\ Gone(j, p) /\ pending'[j] # pending[j])
                   => Takes(j, p)',
           InTimers', Latest', Scope'
    PROVE  Reported'
<1>1. ASSUME NEW n \in Range(kq)
      PROVE  \A p : (Raises(n, p)' <=> Raises(n, p)) /\ (Fells(n, p)' <=> Fells(n, p))
  BY <1>1, StillHeard
<1>2. Exists' = Exists /\ (Rereads => Rereads') /\ 0 \in Jobs
  BY SameDisk, LoopsJob DEF Rereads, Lossy
<1>3. ASSUME NEW p, Rising(p),
             Brings(j, p) \/ (j \in Cookies /\ Arrived(j, p) /\ pending'[j] # pending[j])
                 => Brings(j, p)'
      PROVE  Rising(p)'
  <2>1. CASE \E n \in Range(kq) : Raises(n, p)
    <3>1. PICK n \in Range(kq) : Raises(n, p)
      BY <2>1
    <3>2. n \in Range(kq') /\ Raises(n, p)'
      BY <1>1, <3>1
    <3> QED BY <3>2 DEF Rising
  <2>2. CASE \E c \in Cookies : Arrived(c, p)
    <3>1. PICK c \in Cookies : Arrived(c, p)
      BY <2>2
    <3>2. CASE pending'[c] = pending[c]
      BY <3>1, <3>2 DEF Rising, Arrived
    <3>3. CASE pending'[c] # pending[c]
      <4>1. c = j /\ Brings(j, p)'
        BY <1>3, <3>1, <3>3
      <4> QED BY <4>1 DEF Rising
    <3> QED BY <3>2, <3>3
  <2>3. CASE \E k \in Jobs : Brings(k, p)
    <3>1. PICK k \in Jobs : Brings(k, p)
      BY <2>3
    <3>2. CASE k = j
      <4>1. Brings(j, p)'
        BY <1>3, <3>1, <3>2
      <4> QED BY <4>1 DEF Rising
    <3>3. CASE k # j
      <4>1. job'[k] = job[k]
        BY <3>3
      <4>2. Brings(k, p)'
        BY <3>1, <4>1 DEF Brings
      <4> QED BY <4>2 DEF Rising
    <3> QED BY <3>2, <3>3
  <2> QED BY <1>3, <2>1, <2>2, <2>3 DEF Rising
<1>4. ASSUME NEW p, Falling(p),
             Takes(j, p) \/ (j \in Cookies /\ Gone(j, p) /\ pending'[j] # pending[j])
                 => Takes(j, p)'
      PROVE  Falling(p)'
  <2>1. CASE \E n \in Range(kq) : Fells(n, p)
    <3>1. PICK n \in Range(kq) : Fells(n, p)
      BY <2>1
    <3>2. n \in Range(kq') /\ Fells(n, p)'
      BY <1>1, <3>1
    <3> QED BY <3>2 DEF Falling
  <2>2. CASE \E c \in Cookies : Gone(c, p)
    <3>1. PICK c \in Cookies : Gone(c, p)
      BY <2>2
    <3>2. CASE pending'[c] = pending[c]
      BY <3>1, <3>2 DEF Falling, Gone
    <3>3. CASE pending'[c] # pending[c]
      <4>1. c = j /\ Takes(j, p)'
        BY <1>4, <3>1, <3>3
      <4> QED BY <4>1 DEF Falling
    <3> QED BY <3>2, <3>3
  <2>3. CASE \E k \in Jobs : Takes(k, p)
    <3>1. PICK k \in Jobs : Takes(k, p)
      BY <2>3
    <3>2. CASE k = j
      <4>1. Takes(j, p)'
        BY <1>4, <3>1, <3>2
      <4> QED BY <4>1 DEF Falling
    <3>3. CASE k # j
      <4>1. job'[k] = job[k]
        BY <3>3
      <4>2. Takes(k, p)'
        BY <3>1, <4>1 DEF Takes
      <4> QED BY <4>2 DEF Falling
    <3> QED BY <3>2, <3>3
  <2> QED BY <1>4, <2>1, <2>2, <2>3 DEF Falling
<1>5. Untold'
  BY <1>2, <1>3 DEF Reported, Untold
<1>6. Ghosts'
  BY <1>2, <1>4 DEF Reported, Ghosts
<1>7. InHalves'
  BY <1>2 DEF Reported, InHalves
<1>8. InQueue' /\ Kinds'
  <2>1. ASSUME job[0].at = "gone"
        PROVE  job'[0] = job[0] /\ byWd' = byWd
    BY <1>2, <2>1 DEF tree
  <2>2. ASSUME NEW w \in Wds, job[0].at = "gone", Within(byWd[w], job[0].rel)
        PROVE  job'[0].at = "gone" /\ Within(byWd'[w], job'[0].rel)
    BY <2>1, <2>2
  <2> QED BY <2>2, QueueStays
<1> QED BY <1>5, <1>6, <1>7, <1>8 DEF Reported

LEMMA TimerReported == ASSUME Inv, Sound, Reported, NEW c \in Cookies, TimerFires(c) PROVE Reported'
<1> DEFINE r == pending[c].rel
<1>1. /\ c \in Jobs /\ c # 0 /\ job[c].at = "idle" /\ pending[c] # NoHalf /\ IsFile(r)
      /\ r \in AnyPath
  BY LoopsJob DEF TimerFires, Sound, FileTasks, Idle, Inv, WorkOK, Half
<1>2. /\ UNCHANGED <<disk, ops, kq, resync, tree, blind, view>>
      /\ pending' = [pending EXCEPT ![c] = NoHalf]
      /\ job' = [job EXCEPT ![c] = IF pending[c].from THEN Lost(r) ELSE Found(r)]
  BY DEF TimerFires, users, kernel, signals
<1> HIDE DEF r
<1>3. /\ \A k \in Jobs \ {c} : job'[k] = job[k]
      /\ \A d \in Cookies : pending'[d] = pending[d] \/ (d = c /\ pending'[d] = NoHalf)
      /\ job'[c].rel = r /\ job'[c].at = IF pending[c].from THEN "announce" ELSE "add"
  BY <1>1, <1>2 DEF Inv, WorkOK, Lost, Found
<1>4. Exists' = Exists /\ Exists \subseteq Paths /\ byWd' = byWd /\ byPath' = byPath
      /\ 0 \in Jobs /\ \A x : IsDir(x)' <=> IsDir(x)
  BY <1>2, SameDisk, LoopsJob DEF Exists, tree
<1>5. ASSUME NEW p \in Exists \ view, Brings(c, p) \/ (c \in Cookies /\ Arrived(c, p))
      PROVE  Brings(c, p)'
  BY <1>1, <1>3, <1>5 DEF Brings, Arrived, r
<1>6. ASSUME NEW p \in view \ Exists, Takes(c, p) \/ (c \in Cookies /\ Gone(c, p))
      PROVE  Takes(c, p)'
  <2>1. Gone(c, p)
    BY <1>1, <1>6 DEF Takes
  <2> QED BY <1>1, <1>3, <2>1, WithinOrder DEF Takes, Gone, r
<1>7. InTimers'
  <2>1. pending[c].from => r \notin Exists
    BY <1>1 DEF Reported, InHalves, r
  <2> QED BY <1>1, <1>3, <1>4, <2>1, LoopsJob DEF Reported, InTimers
<1>8. job'[0] = job[0]
  BY <1>1, <1>3, <1>4
<1>9. Latest' /\ Scope'
  BY <1>2, <1>4, <1>8 DEF Reported, Latest, Scope, Lossy, Says
<1> QED BY <1>1, <1>2, <1>3, <1>4, <1>5, <1>6, <1>7, <1>9, TurnReported

LEMMA AnnounceReported == ASSUME Inv, Sound, Reported, NEW j \in Jobs, Announce(j) PROVE Reported'
<1> DEFINE r == job[j].rel
<1>1. /\ job[j].at = "announce" /\ job' = [job EXCEPT ![j] = Idle] /\ EmitDelete(r)
      /\ UNCHANGED <<disk, ops, kq, resync, tree, blind, pending>> /\ r \in AnyPath
  BY TaskIs DEF Announce, Doing, users, kernel, signals
<1> HIDE DEF r
<1>2. /\ \A k \in Jobs \ {j} : job'[k] = job[k]
      /\ job'[j].at = "idle"
  BY <1>1 DEF Inv, WorkOK, Idle
<1>3. Exists' = Exists /\ Exists \subseteq Paths /\ byWd' = byWd /\ byPath' = byPath
      /\ 0 \in Jobs /\ (\A x : IsDir(x)' <=> IsDir(x)) /\ view \subseteq Paths
  BY <1>1, SameDisk, LoopsJob DEF Exists, tree, Inv, RestOK
\* What is announced as gone is gone, or its return will be announced.
<1>4. ASSUME NEW p \in Exists, Within(p, r)
      PROVE  Rising(p)' \/ Rereads'
  <2>1. CASE j # 0
    <3>1. IsFile(r) /\ r \notin Exists
      BY <1>1, <2>1, LoopsJob DEF Reported, InTimers, r
    <3> QED BY <1>1, <1>3, <1>4, <3>1, AtFile
  <2>2. CASE j = 0 /\ r \in Paths /\ IsFile(r)
    <3>1. p = r
      BY <1>1, <1>3, <1>4, <2>2, AtFile
    <3>2. r \in Paths \ {Root} /\ IsDir(Parent(r))
      BY <1>4, <3>1, ParentIsDir DEF Inv, Exists
    <3>3. PICK m \in Range(kq) : Lossy(m) \/ Says(m, {"CREATE", "TO"}, r)
      BY <1>1, <1>4, <2>2, <3>1 DEF Reported, Latest, r
    <3>4. byPath[Parent(r)] # None
      BY <1>1, <2>2, <3>2 DEF Reported, Latest, r
    <3>5. CASE Lossy(m)
      BY <1>1, <3>5 DEF Rereads, Lossy
    <3>6. CASE ~Lossy(m)
      <4>1. Heard(m) /\ PathOf(m) = r /\ m.what \in {"CREATE", "TO"}
        BY <3>2, <3>3, <3>4, <3>6, SaysIs DEF Lossy, Says
      <4>2. Raises(m, p)
        BY <1>4, <4>1 DEF Raises
      <4>3. Raises(m, p)'
        BY <1>1, <4>2, HeardAlike
      <4> QED BY <1>1, <4>3 DEF Rising
    <3> QED BY <3>5, <3>6
  <2>3. CASE j = 0 /\ ~(r \in Paths /\ IsFile(r))
    <3>1. ~IsDir(r)
      BY <1>1, <2>3 DEF Reported, Latest, r
    <3> QED BY <1>1, <1>3, <1>4, <2>3, <3>1, NothingBelow DEF Reported
  <2> QED BY <2>1, <2>2, <2>3
<1>5. ASSUME NEW p \in Exists \ view'
      PROVE  IF p \in view THEN Rising(p)' \/ Rereads' ELSE ~Brings(j, p)
  <2>1. p \in view => Within(p, r)
    BY <1>1, <1>5 DEF EmitDelete
  <2>2. ~Brings(j, p)
    BY <1>1 DEF Brings
  <2> QED BY <1>4, <2>1, <2>2
<1>6. ASSUME NEW p \in view' \ Exists
      PROVE  p \in view /\ ~Takes(j, p)
  BY <1>1, <1>6 DEF EmitDelete, Takes, r
<1>7. InTimers'
  BY <1>1, <1>2, <1>3, LoopsJob DEF Reported, InTimers
<1>8. j # 0 => job'[0] = job[0]
  BY <1>2, <1>3
<1>9. Latest' /\ Scope'
  BY <1>1, <1>2, <1>3, <1>8 DEF Reported, Latest, Scope, Lossy, Says
<1> QED BY <1>1, <1>2, <1>3, <1>5, <1>6, <1>7, <1>9, TurnReported

LEMMA WalkDoneReported == ASSUME Inv, Sound, Reported, NEW j \in Jobs, WalkDone(j) PROVE Reported'
<1> DEFINE r == job[j].rel
<1>1. /\ job[j].at = "add" /\ EmitCreate(r) /\ r \in AnyPath
      /\ UNCHANGED <<disk, ops, kq, resync, tree, blind, pending>>
      /\ job' = [job EXCEPT ![j] = IF IsFile(r) THEN Idle
                                   ELSE [at |-> "scan", rel |-> r, todo |-> << r >>]]
  BY TaskIs DEF WalkDone, Doing, users, kernel, signals
<1>2. j # 0 => IsFile(r)
  BY <1>1, OthersJobs
<1> HIDE DEF r
<1>3. /\ \A k \in Jobs \ {j} : job'[k] = job[k]
      /\ IF IsFile(r) THEN job'[j].at = "idle"
         ELSE job'[j].at = "scan" /\ job'[j].rel = r /\ job'[j].todo = << r >>
  BY <1>1 DEF Inv, WorkOK, Idle
<1>4. Exists' = Exists /\ Exists \subseteq Paths /\ byWd' = byWd /\ byPath' = byPath
      /\ 0 \in Jobs /\ (\A x : IsDir(x)' <=> IsDir(x)) /\ view \subseteq Paths
  BY <1>1, SameDisk, LoopsJob DEF Exists, tree, Inv, RestOK
<1>5. /\ view \subseteq view' /\ view' \subseteq view \cup Exists
      /\ r \in Exists => r \in view'
  BY <1>1 DEF EmitCreate
<1>6. ASSUME NEW p \in Exists \ view', Brings(j, p)
      PROVE  Brings(j, p)'
  <2>1. p # r /\ p \in Paths
    BY <1>4, <1>5, <1>6
  <2>2. j = 0 /\ Within(p, r)
    BY <1>1, <1>6, <2>1 DEF Brings, r
  <2>3. ~IsFile(r)
    BY <1>1, <2>1, <2>2, AtFile
  <2>4. r \in Range(job'[0].todo)
    BY <1>3, <2>2, <2>3, RangeOfFew
  <2> QED BY <1>3, <2>1, <2>2, <2>3, <2>4 DEF Brings
<1>7. \A p : ~Takes(j, p)
  BY <1>1 DEF Takes
<1>8. j # 0 => job'[0] = job[0]
  BY <1>3, <1>4
<1>9. InTimers'
  BY <1>1, <1>3, <1>4, LoopsJob DEF Reported, InTimers
<1>10. Latest' /\ Scope'
  BY <1>1, <1>3, <1>4, <1>8 DEF Reported, Latest, Scope, Lossy, Says
<1> QED BY <1>1, <1>3, <1>4, <1>5, <1>6, <1>7, <1>9, <1>10, TurnReported

LEMMA ListedCat ==
    ASSUME NEW S \in SUBSET AnyPath, IsFiniteSet(S), NEW s \in Seq(AnyPath)
    PROVE  /\ SetToSeq(S) \o s \in Seq(AnyPath)
           /\ Range(SetToSeq(S) \o s) = S \cup Range(s)
<1>1. SetToSeq(S) \in Seq(AnyPath)
  BY SeqOfSet
<1>2. Range(SetToSeq(S)) = S
  BY ListedIs
<1>3. Range(SetToSeq(S) \o s) = Range(SetToSeq(S)) \cup Range(s)
  BY <1>1, RangeCat
<1> QED BY <1>1, <1>2, <1>3

LEMMA ScanReported == ASSUME Inv, Sound, Reported, NEW j \in Jobs, ScanVisit(j) PROVE Reported'
<1> DEFINE r == job[j].rel
           h == Ahead(j)
           S == Children(h)
<1>1. /\ job[j].at = "scan" /\ j = 0 /\ job[j].todo # << >> /\ job[j] \in Task
      /\ UNCHANGED <<disk, ops, kq, resync, tree, blind, pending>>
      /\ IF h = r THEN UNCHANGED view ELSE EmitCreate(h)
  BY OthersJobs, TaskIs DEF ScanVisit, Doing, users, kernel, signals, Inv, WorkOK
<1>2. h \in AnyPath /\ r \in AnyPath /\ job[j].todo \in Seq(AnyPath)
      /\ Tail(job[j].todo) \in Seq(AnyPath)
      /\ Range(job[j].todo) = Range(Tail(job[j].todo)) \cup {h}
  <2>1. job[j].todo \in Seq(AnyPath) /\ r \in AnyPath
    BY <1>1, TaskIs
  <2>2. Tail(job[j].todo) \in Seq(AnyPath) /\ h \in AnyPath
    BY <1>1, <2>1, TaskIs, AheadIs
  <2>3. Range(job[j].todo) = Range(Tail(job[j].todo)) \cup {h}
    BY <1>1, <2>1, RangeHead DEF Ahead
  <2> QED BY <2>1, <2>2, <2>3
<1>3. IsFiniteSet(S) /\ S \subseteq AnyPath
  <2>1. S \in SUBSET Paths
    BY DEF Children, Exists
  <2> QED BY <2>1, ConstantsAssumption, FS_Subset, NamesAre
<1>4. PICK rest \in Seq(AnyPath) : /\ rest = SetToSeq(S) \o Tail(job[j].todo)
                                   /\ Range(rest) = S \cup Range(Tail(job[j].todo))
  <2> HIDE DEF S
  <2> QED BY <1>2, <1>3, ListedCat
<1>5. job' = [job EXCEPT ![j] = IF rest = << >> THEN Idle ELSE [job[j] EXCEPT !.todo = rest]]
  BY <1>4 DEF ScanVisit
<1>6. /\ \A k \in Jobs \ {j} : job'[k] = job[k]
      /\ IF rest = << >> THEN job'[j].at = "idle"
         ELSE job'[j].at = "scan" /\ job'[j].rel = r /\ job'[j].todo = rest
  BY <1>1, <1>5 DEF Inv, WorkOK, Idle, Task
<1>7. Exists' = Exists /\ Exists \subseteq Paths /\ byWd' = byWd /\ byPath' = byPath
      /\ 0 \in Jobs /\ (\A x : IsDir(x)' <=> IsDir(x)) /\ view \subseteq Paths
  BY <1>1, SameDisk, LoopsJob DEF Exists, tree, Inv, RestOK
<1>8. /\ view \subseteq view' /\ view' \subseteq view \cup Exists
      /\ h \in Exists /\ h # r => h \in view'
  BY <1>1 DEF EmitCreate
<1>9. ASSUME NEW p \in Exists \ view', Brings(j, p)
      PROVE  Brings(j, p)'
  <2>1. PICK t \in Range(job[j].todo) : p # r /\ Within(p, t)
    BY <1>1, <1>9 DEF Brings
  <2>2. \E x \in Range(rest) : Within(p, x)
    <3>1. CASE t \in Range(Tail(job[j].todo))
      BY <1>4, <2>1, <3>1
    <3>2. CASE t = h
      <4>1. p # h
        BY <1>8, <1>9, <2>1
      <4>2. PICK x \in Paths \ {Root} : Parent(x) = h /\ Within(p, x)
        BY <1>2, <1>7, <2>1, <3>2, <4>1, PathsAbove
      <4>3. x \in Exists
        <5>1. CASE p = x
          BY <1>9, <5>1
        <5>2. CASE p # x
          <6>1. IsDir(x)
            BY <1>9, <4>2, <5>2 DEF Inv, DiskOK, Under, Within, IsStrictPrefix
          <6> QED BY <4>2, <6>1, FileEntryIs DEF Exists, IsDir
        <5> QED BY <5>1, <5>2
      <4>4. x \in S
        BY <4>2, <4>3 DEF Children
      <4> QED BY <1>4, <4>2, <4>4
    <3> QED BY <1>2, <2>1, <3>1, <3>2
  <2>3. rest # << >>
    BY <2>2, RangeOfFew
  <2> QED BY <1>1, <1>6, <2>1, <2>2, <2>3 DEF Brings
<1> HIDE DEF r, h, S
<1>10. \A p : ~Takes(j, p)
  BY <1>1 DEF Takes
<1>11. InTimers'
  BY <1>1, <1>6, <1>7, LoopsJob DEF Reported, InTimers
<1>12. Latest' /\ Scope'
  BY <1>1, <1>6 DEF Latest, Scope
<1> QED BY <1>1, <1>6, <1>7, <1>8, <1>9, <1>10, <1>11, <1>12, TurnReported

\* A walk goes on below the same directory.
LEMMA WalkTurns ==
    ASSUME Inv, Sound, Reported, UNCHANGED <<disk, ops, kq, resync, pending, view>>,
           job[0].at \in {"add", "read"}, job'[0].at \in {"add", "read"},
           job'[0].rel = job[0].rel,
           \A k \in Cookies : job'[k] = job[k],
           \A t \in Range(job'[0].todo) : Within(t, job[0].rel),
           \A n \in Range(kq) : n.what # "OVERFLOW" => byWd'[n.wd] = byWd[n.wd],
           blind => blind'
    PROVE  Reported'
<1>1. 0 \in Jobs /\ Cookies = Jobs \ {0} /\ 0 \notin Cookies
  BY LoopsJob
<1>2. Exists' = Exists
  BY SameDisk
<1>3. \A p : Brings(0, p) => Brings(0, p)'
  BY DEF Brings
<1>4. \A p : ~Takes(0, p)
  BY DEF Takes
<1>5. InTimers' /\ Latest' /\ Scope'
  BY <1>2 DEF Reported, InTimers, Latest, Scope
<1> QED BY <1>1, <1>2, <1>3, <1>4, <1>5, TurnReported

LEMMA WalkIs ==
    ASSUME Inv, Sound, Reported, NEW j \in Jobs, job[j].at \in {"add", "read"}, job[j].todo # << >>
    PROVE  /\ j = 0 /\ job[0] \in Task /\ Ahead(0) \in AnyPath /\ job[0].rel \in AnyPath
           /\ Tail(job[0].todo) \in Seq(AnyPath)
           /\ Range(job[0].todo) = Range(Tail(job[0].todo)) \cup {Ahead(0)}
           /\ \A t \in Range(job[0].todo) : Within(t, job[0].rel)
           /\ \A t : job' = [job EXCEPT ![j] = t] =>
                  job'[0] = t /\ \A k \in Cookies : job'[k] = job[k]
<1>1. j = 0 /\ 0 \in Jobs
  BY OthersJobs
<1>2. job[0] \in Task /\ job[0].todo \in Seq(AnyPath) /\ job[0].rel \in AnyPath
  BY <1>1, TaskIs
<1>3. Tail(job[0].todo) \in Seq(AnyPath) /\ Ahead(0) \in AnyPath
  BY <1>1, <1>2, TaskIs, AheadIs
<1>4. Range(job[0].todo) = Range(Tail(job[0].todo)) \cup {Ahead(0)}
  BY <1>1, <1>2, RangeHead DEF Ahead
<1>5. \A t \in Range(job[0].todo) : Within(t, job[0].rel)
  BY <1>1 DEF Reported, Scope
<1>6. \A t : job' = [job EXCEPT ![j] = t] => job'[0] = t /\ \A k \in Cookies : job'[k] = job[k]
  BY <1>1, LoopsJob
<1> QED BY <1>1, <1>2, <1>3, <1>4, <1>5, <1>6

LEMMA WalkSkipReported == ASSUME Inv, Sound, Reported, NEW j \in Jobs, WalkSkip(j) PROVE Reported'
<1>1. /\ job[j].at = "add" /\ job[j].todo # << >>
      /\ UNCHANGED <<disk, ops, kq, resync, pending, view, byWd>> /\ blind \in BOOLEAN
  BY DEF WalkSkip, Doing, users, kernel, tree, Inv, RestOK
<1>2. /\ j = 0 /\ job[0] \in Task
      /\ Range(job[0].todo) = Range(Tail(job[0].todo)) \cup {Ahead(0)}
      /\ \A t \in Range(job[0].todo) : Within(t, job[0].rel)
      /\ \A t : job' = [job EXCEPT ![j] = t] =>
             job'[0] = t /\ \A k \in Cookies : job'[k] = job[k]
  BY <1>1, WalkIs
<1>3. PICK todo : /\ job' = [job EXCEPT ![j].todo = todo]
                  /\ Range(todo) \subseteq Range(job[0].todo)
                  /\ blind => blind'
  <2>1. CASE job' = [job EXCEPT ![j].todo = Tail(@)] /\ UNCHANGED blind
    BY <1>2, <2>1
  <2>2. CASE job' = [job EXCEPT ![j].todo = << >>] /\ blind' = TRUE
    BY <2>2, RangeOfFew
  <2> QED BY <2>1, <2>2 DEF WalkSkip
<1>4. PICK t : t = [job[0] EXCEPT !.todo = todo]
  OBVIOUS
<1>5. job' = [job EXCEPT ![j] = t] /\ t.at = "add" /\ t.rel = job[0].rel /\ t.todo = todo
  BY <1>1, <1>2, <1>3, <1>4 DEF Task
<1>6. job'[0] = t /\ \A k \in Cookies : job'[k] = job[k]
  BY <1>2, <1>5
<1> QED BY <1>1, <1>2, <1>3, <1>5, <1>6, WalkTurns

LEMMA WalkReadReported == ASSUME Inv, Sound, Reported, NEW j \in Jobs, WalkRead(j) PROVE Reported'
<1>1. /\ job[j].at = "read" /\ job[j].todo # << >>
      /\ UNCHANGED <<disk, ops, kq, resync, pending, view, byWd, blind>>
  BY DEF WalkRead, Doing, users, kernel, tree, signals, Inv, WorkOK
<1>2. /\ j = 0 /\ job[0] \in Task /\ Ahead(0) \in AnyPath /\ job[0].rel \in AnyPath
      /\ Tail(job[0].todo) \in Seq(AnyPath)
      /\ Range(job[0].todo) = Range(Tail(job[0].todo)) \cup {Ahead(0)}
      /\ \A t \in Range(job[0].todo) : Within(t, job[0].rel)
      /\ \A t : job' = [job EXCEPT ![j] = t] =>
             job'[0] = t /\ \A k \in Cookies : job'[k] = job[k]
  BY <1>1, WalkIs
<1> DEFINE h == Ahead(0)
           S == {q \in Children(h) : IsDir(q)}
<1>3. IsFiniteSet(S) /\ S \subseteq AnyPath /\ S \subseteq Children(h) /\ S \subseteq Paths \ {Root}
  <2>1. S \in SUBSET Paths /\ S \subseteq Children(h) /\ S \subseteq Paths \ {Root}
    BY DEF Children, Exists
  <2> QED BY <2>1, ConstantsAssumption, FS_Subset, NamesAre
<1>4. PICK todo : /\ todo = SetToSeq(S) \o Tail(job[0].todo)
                  /\ Range(todo) = S \cup Range(Tail(job[0].todo))
  <2> HIDE DEF S
  <2> QED BY <1>2, <1>3, ListedCat
<1>5. PICK t : t = [job[0] EXCEPT !.at = "add", !.todo = todo]
  OBVIOUS
<1>6. job' = [job EXCEPT ![j].at = "add", ![j].todo = todo]
  BY <1>2, <1>4 DEF WalkRead
<1>7. job' = [job EXCEPT ![j] = t] /\ t.at = "add" /\ t.rel = job[0].rel /\ t.todo = todo
  BY <1>2, <1>5, <1>6, LoopsJob DEF Task
<1>8. job'[0] = t /\ \A k \in Cookies : job'[k] = job[k]
  BY <1>2, <1>7
<1>9. ASSUME NEW q \in S
      PROVE  Within(q, job[0].rel)
  <2>1. q \in AnyPath /\ q # Root /\ Parent(q) = h
    BY <1>3 DEF Children
  <2>2. Within(q, h) /\ Within(h, job[0].rel)
    BY <1>2, <2>1, ParentIs
  <2> QED BY <1>2, <2>1, <2>2, WithinOrder
<1> HIDE DEF h, S
<1>10. \A x \in Range(todo) : Within(x, job[0].rel)
  BY <1>2, <1>4, <1>9
<1> QED BY <1>1, <1>2, <1>7, <1>8, <1>10, WalkTurns

\* A new watch is none that a queued notice is about.
LEMMA WalkAddHears ==
    ASSUME Inv, Sound, NEW j \in Jobs, WalkAdd(j), NEW n \in Range(kq), n.what # "OVERFLOW"
    PROVE  byWd'[n.wd] = byWd[n.wd]
<1> DEFINE h == Ahead(j)
           i == disk[h]
<1>1. IsDir(h) /\ h \in Paths /\ i \in Inodes /\ AddWatch(i) /\ TreeAdd(mark'[i], h)
  BY DEF WalkAdd, IsDir
<1>2. n.wd \in Wds /\ n.wd < nextWd
  <2>1. n \in Letter /\ Fit(n)
    BY QueuedAre DEF Sound, Notices
  <2> QED BY <2>1 DEF Letter, Fit
<1>3. byPath[h] = mark[i] /\ (byPath[h] # None => byPath[h] \in Wds /\ byWd[byPath[h]] = h)
  BY <1>1, WatchedDirs
<1> HIDE DEF h, i
<1>4. byWd' = [byWd EXCEPT ![mark'[i]] = h] /\ byWd \in [Wds -> AnyPath]
  BY <1>1 DEF TreeAdd, Inv, TreeOK
<1>5. CASE mark[i] # None
  <2>1. mark'[i] = mark[i]
    BY <1>1, <1>5 DEF AddWatch
  <2> QED BY <1>2, <1>3, <1>4, <1>5, <2>1
<1>6. CASE mark[i] = None
  <2>1. mark'[i] = nextWd
    BY <1>1, <1>6 DEF AddWatch, Inv, KernelOK
  <2>2. n.wd # nextWd
    BY <1>2 DEF Wds
  <2> QED BY <1>2, <1>4, <2>1, <2>2
<1> QED BY <1>5, <1>6

LEMMA WalkAddReported == ASSUME Inv, Sound, Reported, NEW j \in Jobs, WalkAdd(j) PROVE Reported'
<1>1. /\ job[j].at = "add" /\ job[j].todo # << >> /\ job' = [job EXCEPT ![j].at = "read"]
      /\ UNCHANGED <<disk, ops, kq, resync, pending, view, blind>>
  BY DEF WalkAdd, Doing, users, signals
<1>2. /\ j = 0 /\ job[0] \in Task
      /\ \A t \in Range(job[0].todo) : Within(t, job[0].rel)
      /\ \A t : job' = [job EXCEPT ![j] = t] =>
             job'[0] = t /\ \A k \in Cookies : job'[k] = job[k]
  BY <1>1, WalkIs
<1>3. PICK t : t = [job[0] EXCEPT !.at = "read"]
  OBVIOUS
<1>4. job' = [job EXCEPT ![j] = t] /\ t.at = "read" /\ t.rel = job[0].rel /\ t.todo = job[0].todo
  BY <1>1, <1>2, <1>3 DEF Task
<1>5. job'[0] = t /\ \A k \in Cookies : job'[k] = job[k]
  BY <1>2, <1>4
<1>6. \A n \in Range(kq) : n.what # "OVERFLOW" => byWd'[n.wd] = byWd[n.wd]
  BY WalkAddHears
<1> QED BY <1>1, <1>2, <1>4, <1>5, <1>6, WalkTurns

LEMMA SignalReported ==
    ASSUME Inv, Sound, Reported, LoopEnds \/ FullResync \/ UNCHANGED vars
    PROVE  Reported'
<1>1. UNCHANGED <<disk, ops, kq, tree, pending, job, blind>>
  BY DEF LoopEnds, FullResync, vars, users, kernel, signals
<1>2. Exists' = Exists /\ (\A x : IsDir(x)' <=> IsDir(x)) /\ byPath' = byPath
  BY <1>1, SameDisk DEF tree
<1>3. InQueue' /\ Kinds'
  BY <1>1, QueueStays DEF tree
<1>4. InHalves' /\ InTimers' /\ Latest' /\ Scope'
  BY <1>1, <1>2 DEF Reported, InHalves, InTimers, Latest, Scope, Lossy, Says
<1>5. Untold' /\ Ghosts'
  <2>1. CASE FullResync
    BY <1>2, <2>1 DEF FullResync, Untold, Ghosts
  <2>2. CASE LoopEnds \/ UNCHANGED vars
    <3>1. UNCHANGED <<view, resync>>
      BY <2>2 DEF LoopEnds, vars, signals
    <3>2. \A p : (Rising(p) => Rising(p)') /\ (Falling(p) => Falling(p)')
      BY <1>1, HeardAlike DEF Rising, Falling, Brings, Takes, Arrived, Gone
    <3>3. Rereads => Rereads'
      BY <1>1, <3>1 DEF Rereads, Lossy
    <3> QED BY <1>1, <1>2, <3>1, <3>2, <3>3 DEF Reported, Untold, Ghosts
  <2> QED BY <2>1, <2>2
<1> QED BY <1>3, <1>4, <1>5 DEF Reported

\* What is dropped below a directory that is gone was heard of nothing that is there.
LEMMA UnwatchReported == ASSUME Inv, Sound, Reported, NEW j \in Jobs, Unwatch(j) PROVE Reported'
<1>1. j = 0 /\ job[0].at = "gone" /\ 0 \in Jobs /\ 0 \notin Cookies /\ DOMAIN job = Jobs
  <2>1. 0 \in Jobs /\ 0 \notin Cookies /\ DOMAIN job = Jobs
    BY LoopsJob
  <2>2. job[j].at = "gone"
    BY DEF Unwatch, Doing
  <2> QED BY <2>1, <2>2, OthersJobs
<1>2. PICK r \in AnyPath : r = job[0].rel /\ ~IsDir(r) /\ ~IsFile(r)
  BY <1>1, TaskIs DEF Sound, LoopTask, Reported, Scope
<1>3. ASSUME NEW p \in Paths, Within(p, r)
      PROVE  ~IsDir(p) /\ p \notin Exists
  <2>1. r \in Paths
    BY <1>2, <1>3, PathsAbove
  <2>2. ~IsDir(p)
    BY <1>2, <1>3, <2>1, DirsAbove DEF Inv
  <2> QED BY <1>2, <1>3, <2>2, NothingBelow DEF Reported
<1>4. kq' = kq
  <2> DEFINE live == WdsWithin(r) \cap Range(mark)
             gone == [n \in 1..Cardinality(live) |-> Ignored(SetToSeq(live)[n])]
  <2>1. kq' = kq \o gone
    BY <1>1, <1>2 DEF Unwatch
  <2>2. live = {}
    BY <1>3, NothingToDrop, NamesAre
  <2>3. Cardinality(live) = 0 /\ 1..0 = {}
    BY <2>2, FS_EmptySet
  <2>4. gone \in Seq(Letter) /\ Len(gone) = 0
    <3>1. DOMAIN gone = {}
      BY <2>3
    <3>2. gone \in [1..0 -> Letter]
      BY <2>3, <3>1
    <3> HIDE DEF gone
    <3> QED BY <2>3, <3>2
  <2> HIDE DEF gone, live
  <2>5. kq \in Seq(Letter)
    BY DEF Inv, KernelOK
  <2> QED BY <2>1, <2>4, <2>5
<1>5. ASSUME NEW w \in Wds
      PROVE  byWd'[w] = IF byWd[w] # NoPath /\ Within(byWd[w], r) THEN NoPath ELSE byWd[w]
  <2>1. byWd'[w] = IF w \in WdsWithin(r) THEN NoPath ELSE byWd[w]
    BY <1>1, <1>2 DEF Unwatch, RemoveSubtree
  <2>2. w \in WdsWithin(r) => byWd[w] \in DirPaths /\ Within(byWd[w], r)
    BY WdsWithinAre DEF Inv
  <2>3. byWd[w] # NoPath => byWd[w] \in DirPaths /\ byPath[byWd[w]] = w /\ w # None
    BY DEF Sound, Marks, Wds, None
  <2>4. byWd[w] # NoPath /\ Within(byWd[w], r) => w \in WdsWithin(r)
    BY <2>3 DEF WdsWithin
  <2> QED BY <2>1, <2>2, <2>4, NoPathIs
<1>6. UNCHANGED <<disk, ops, resync, blind, pending, view>>
      /\ job' = [job EXCEPT ![0].at = "announce"]
  BY <1>1 DEF Unwatch, users, signals
<1>7. /\ job'[0].at = "announce" /\ job'[0].rel = r
      /\ \A k \in Cookies : job'[k] = job[k]
  BY <1>1, <1>2, <1>6, TaskIs, LoopsJob DEF Task
<1>8. Exists' = Exists /\ (\A x : IsDir(x)' <=> IsDir(x)) /\ Exists \subseteq Paths
      /\ view \subseteq Paths
  BY <1>6, SameDisk DEF Exists, Inv, RestOK
<1>9. ASSUME NEW n \in Range(kq), Heard(n)
      PROVE  /\ n.wd \in Wds /\ byWd[n.wd] \in AnyPath /\ PathOf(n) \in AnyPath
             /\ Within(PathOf(n), byWd[n.wd])
             /\ Heard(n)' \/ Within(byWd[n.wd], r)
             /\ Heard(n)' => PathOf(n)' = PathOf(n)
  <2>1. n \in Letter
    BY QueuedAre
  <2>2. n.wd \in Wds /\ byWd[n.wd] \in AnyPath /\ PathOf(n) \in AnyPath
        /\ Within(PathOf(n), byWd[n.wd])
    BY <1>9, <2>1, NewsIs
  <2>3. byWd'[n.wd] \in {byWd[n.wd], NoPath} /\ (byWd'[n.wd] = byWd[n.wd] \/ Within(byWd[n.wd], r))
    BY <1>5, <2>2
  <2>4. Heard(n)' \/ Within(byWd[n.wd], r)
    BY <1>9, <2>3 DEF Heard
  <2>5. Heard(n)' => PathOf(n)' = PathOf(n)
    BY <2>3 DEF Heard, PathOf
  <2> QED BY <2>2, <2>4, <2>5
<1>10. ASSUME NEW n \in Range(kq), NEW p \in Paths, Heard(n), Within(p, PathOf(n))
       PROVE  Within(p, r) \/ (Heard(n)' /\ PathOf(n)' = PathOf(n))
  <2>1. p \in AnyPath
    BY NamesAre
  <2>2. Within(p, byWd[n.wd])
    BY <1>9, <1>10, <2>1, WithinOrder
  <2>3. Within(byWd[n.wd], r) => Within(p, r)
    BY <1>2, <1>9, <1>10, <2>1, <2>2, WithinOrder
  <2> QED BY <1>9, <1>10, <2>3
<1>11. ASSUME NEW p \in Exists, Rising(p)
       PROVE  Rising(p)'
  <2>1. CASE \E n \in Range(kq) : Raises(n, p)
    <3>1. PICK n \in Range(kq) : Raises(n, p)
      BY <2>1
    <3>2. Raises(n, p)'
      BY <1>3, <1>8, <1>10, <3>1 DEF Raises
    <3> QED BY <1>4, <3>2 DEF Rising
  <2>2. CASE \E c \in Cookies : Arrived(c, p)
    BY <1>6, <2>2 DEF Rising, Arrived
  <2>3. CASE \E k \in Jobs : Brings(k, p)
    <3>1. PICK k \in Jobs : Brings(k, p)
      BY <2>3
    <3>2. k \in Cookies /\ job'[k] = job[k]
      BY <1>1, <1>7, <3>1, LoopsJob DEF Brings
    <3> QED BY <1>1, <3>1, <3>2 DEF Rising, Brings
  <2> QED BY <1>11, <2>1, <2>2, <2>3 DEF Rising
<1>12. ASSUME NEW p \in Paths, Falling(p)
       PROVE  Falling(p)'
  <2>1. Within(p, r) => Takes(0, p)'
    BY <1>7 DEF Takes
  <2>2. CASE \E n \in Range(kq) : Fells(n, p)
    <3>1. PICK n \in Range(kq) : Fells(n, p)
      BY <2>2
    <3>2. Within(p, r) \/ Fells(n, p)'
      BY <1>10, <3>1 DEF Fells
    <3> QED BY <1>1, <1>4, <2>1, <3>2 DEF Falling
  <2>3. CASE \E c \in Cookies : Gone(c, p)
    BY <1>6, <2>3 DEF Falling, Gone
  <2>4. CASE \E k \in Jobs : Takes(k, p)
    <3>1. PICK k \in Jobs : Takes(k, p)
      BY <2>4
    <3>2. CASE k = 0
      <4>1. Takes(0, p)'
        BY <1>2, <2>1, <3>1, <3>2 DEF Takes
      <4> QED BY <1>1, <4>1 DEF Falling
    <3>3. CASE k # 0
      <4>1. Takes(k, p)'
        BY <1>7, <3>1, <3>3, LoopsJob DEF Takes
      <4> QED BY <4>1 DEF Falling
    <3> QED BY <3>2, <3>3
  <2> QED BY <1>12, <2>2, <2>3, <2>4 DEF Falling
<1>13. Rereads => Rereads'
  BY <1>4, <1>6 DEF Rereads, Lossy
<1>14. Untold' /\ Ghosts'
  BY <1>6, <1>8, <1>11, <1>12, <1>13 DEF Reported, Untold, Ghosts
<1>15. InQueue' /\ Kinds'
  <2>1. \A n \in Range(kq) : n.what # "OVERFLOW" => byWd'[n.wd] \in {byWd[n.wd], NoPath}
    <3> TAKE n \in Range(kq)
    <3>1. n \in Letter
      BY QueuedAre
    <3> QED BY <1>5, <3>1 DEF Letter
  <2>2. \A w \in Wds : job[0].at = "gone" /\ Within(byWd[w], job[0].rel) =>
                      \/ byWd'[w] = NoPath
                      \/ job'[0].at = "gone" /\ Within(byWd'[w], job'[0].rel)
    BY <1>2, <1>5
  <2>3. UNCHANGED <<disk, ops, kq>>
    BY <1>4, <1>6
  <2> QED BY <2>1, <2>2, <2>3, QueueStays
<1>16. InHalves' /\ InTimers'
  <2>1. InHalves'
    BY <1>4, <1>6, <1>8 DEF Reported, InHalves
  <2>2. InTimers'
    BY <1>7, <1>8 DEF Reported, InTimers
  <2> QED BY <2>1, <2>2
<1>17. Latest' /\ Scope'
  <2>1. ~IsDir(r)'
    BY <1>2, <1>8
  <2>2. PICK x : x = job'[0].rel /\ x = r
    BY <1>7
  <2>3. Latest'
    BY <1>2, <2>1, <2>2 DEF Latest, IsDir
  <2> QED BY <1>7, <2>3 DEF Scope
<1> QED BY <1>14, <1>15, <1>16, <1>17 DEF Reported

-------------------------------------------------------------------------------
(* What users do, and what the kernel queues of it.                            *)

\* The kernel says no more than what is so, a watch's end after its directory's, and
\* what has left before what has arrived.
Speaks(t) ==
    \A k \in DOMAIN t :
        /\ t[k].cookie <= ops + 1 /\ (t[k].what = "FROM" => t[k].cookie = ops + 1)
        /\ t[k].what \in {"DELETE", "FROM"} /\ Heard(t[k]) => PathOf(t[k]) \notin Exists'
        /\ t[k].what = "TO" => /\ Heard(t[k]) => PathOf(t[k]) \in Exists'
                               /\ \A m \in After(t, k) : m.what # "FROM"
        /\ t[k].what = "IGNORED" /\ Heard(t[k]) => \E m \in Before(t, k) : Parting(m, t[k].wd)

\* What comes takes a free name in a directory, and is told if that is watched.
Comes(t) ==
    \A p \in Exists' \ Exists :
        /\ IsDir(Parent(p)) /\ Apart(p, Halves)
        /\ byPath[Parent(p)] # None =>
               \E m \in Range(t) : Lossy(m) \/ Says(m, {"CREATE", "TO"}, p)
        /\ ~IsFile(p) => /\ ~Within(job[0].rel, p)
                         /\ \A n \in Range(kq) : n.what = "DELETE" /\ Heard(n) => PathOf(n) # p

\* What goes was seen in a directory that is followed, and is told if that is watched.
Goes(t) ==
    \A p \in Exists \ Exists' :
        /\ MayGo(p)
        /\ byPath[Parent(p)] # None =>
               \E m \in Range(t) : Lossy(m) \/ Says(m, {"DELETE", "FROM"}, p)

LEMMA ToldReported ==
    ASSUME Inv, Sound, Reported, Calm, NEW t \in Seq(Letter), kq' = kq \o t, ops' = ops + 1,
           UNCHANGED <<tree, pending, job, resync, blind, view>>, Speaks(t), Comes(t), Goes(t),
           \A x : IsDir(x)' => IsDir(x) \/ (x \in Exists' \ Exists /\ ~IsFile(x)), Kinds'
    PROVE  Reported'
<1>1. kq \in Seq(Letter) /\ ops \in Nat /\ ops < ops + 1
  BY ConstantsAssumption DEF Inv, KernelOK, RestOK
<1>2. Range(kq') = Range(kq) \cup Range(t) /\ Range(kq) \subseteq Letter
  BY <1>1, RangeCat, QueuedAre
<1>3. ASSUME NEW i \in DOMAIN kq'
      PROVE  \/ /\ i \in DOMAIN kq /\ kq'[i] = kq[i] /\ kq[i] \in Range(kq)
                /\ Before(kq, i) \subseteq Before(kq', i)
                /\ After(kq', i) = After(kq, i) \cup Range(t)
             \/ \E k \in DOMAIN t : /\ kq'[i] = t[k]
                                    /\ Before(t, k) \subseteq Before(kq', i)
                                    /\ After(kq', i) = After(t, k)
  <2>1. i \in DOMAIN (kq \o t)
    OBVIOUS
  <2>2. i \in DOMAIN kq => kq[i] \in Range(kq)
    BY DEF Range
  <2> QED BY <1>1, <2>1, <2>2, PlacesInCat
<1>4. /\ \A n : /\ Heard(n)' <=> Heard(n)
                /\ PathOf(n)' = PathOf(n)
                /\ \A p : (Raises(n, p)' <=> Raises(n, p)) /\ (Fells(n, p)' <=> Fells(n, p))
                /\ \A p, what : Says(n, what, p)' <=> Says(n, what, p)
      /\ byPath' = byPath
  BY HeardAlike DEF tree
<1>5. /\ \A p : (Rising(p) => Rising(p)') /\ (Falling(p) => Falling(p)')
      /\ Rereads => Rereads'
  BY <1>2, <1>4 DEF Rising, Falling, Brings, Takes, Arrived, Gone, Rereads, Lossy
<1>6. \A p \in Exists \cup Exists' : p \in Paths \ {Root} /\ p \in AnyPath /\ Within(p, p)
                                  /\ Parent(p) \in DirPaths /\ Within(p, Parent(p))
                                  /\ Parent(p) \in Paths
  <2> TAKE p \in Exists \cup Exists'
  <2>1. p \in Paths \ {Root}
    BY DEF Exists
  <2> QED BY <2>1, NamesAre, WithinOrder, SelfIsNoName DEF DirPaths
\* What is heard of a name in its watched directory.
<1>7. ASSUME NEW p \in Exists \cup Exists', NEW m \in Range(kq'), NEW what,
             byPath[Parent(p)] # None, Lossy(m) \/ Says(m, what, p)
      PROVE  Lossy(m) \/ (Heard(m)' /\ PathOf(m)' = p)
  BY <1>4, <1>6, <1>7, SaysIs DEF Lossy
<1>8. Untold'
  <2> SUFFICES ASSUME ~blind, NEW p \in Exists' \ view PROVE Rising(p)' \/ Rereads'
    BY DEF Untold
  <2>1. CASE p \in Exists
    BY <1>5, <2>1 DEF Reported, Untold
  <2>2. CASE p \notin Exists /\ byPath[Parent(p)] # None
    <3>1. PICK m \in Range(t) : Lossy(m) \/ Says(m, {"CREATE", "TO"}, p)
      BY <2>2 DEF Comes
    <3>2. m \in Range(kq') /\ (Lossy(m) \/ (Heard(m)' /\ PathOf(m)' = p))
      BY <1>2, <1>7, <2>2, <3>1
    <3>3. Lossy(m) => Rereads'
      BY <3>2 DEF Rereads, Lossy
    <3>4. ~Lossy(m) => Raises(m, p)'
      BY <1>6, <3>1, <3>2 DEF Raises, Says
    <3> QED BY <3>2, <3>3, <3>4 DEF Rising
  <2>3. CASE p \notin Exists /\ byPath[Parent(p)] = None
    <3>1. Called(Parent(p)) \/ Walked(Parent(p))
      BY <1>6, <2>3 DEF Comes, Sound, Reached
    <3>2. Called(p) \/ Walked(p)
      BY <1>6, <3>1, CalledAbove
    <3>3. CASE Called(p)
      <4>1. PICK n \in Range(kq) : Calls(n, p)
        BY <3>3 DEF Called
      <4>2. Raises(n, p)
        BY <4>1 DEF Calls, Raises, Heard
      <4> QED BY <1>5, <4>2 DEF Rising
    <3>4. CASE Walked(p)
      <4>1. PICK x \in Range(job[0].todo) : Within(p, x)
        BY <3>4 DEF Walked
      <4>2. job[0].at \in {"add", "read"} /\ Within(x, job[0].rel)
        BY <3>4 DEF Walked, Reported, Scope
      <4>3. 0 \in Jobs /\ job[0].rel \in AnyPath /\ x \in AnyPath
        BY LoopsJob, TaskIs DEF Range
      <4>4. Within(p, job[0].rel)
        BY <1>6, <4>1, <4>2, <4>3, WithinOrder
      <4> QED BY <1>5, <4>2, <4>3, <4>4 DEF Rising, Brings
    <3> QED BY <3>2, <3>3, <3>4
  <2> QED BY <2>1, <2>2, <2>3
<1>9. Ghosts'
  <2> SUFFICES ASSUME ~blind, NEW p \in view \ Exists' PROVE Falling(p)' \/ Rereads'
    BY DEF Ghosts
  <2>1. CASE p \notin Exists
    BY <1>5, <2>1 DEF Reported, Ghosts
  <2>2. CASE p \in Exists
    <3>1. IsDir(Parent(p))
      BY <1>6, <2>2, ParentIsDir DEF Inv
    <3>2. byPath[Parent(p)] = mark[disk[Parent(p)]] /\ mark[disk[Parent(p)]] # None
      BY <1>6, <2>2, <3>1, WatchedDirs DEF Goes, MayGo, Followed, Calm
    <3>3. PICK m \in Range(t) : Lossy(m) \/ Says(m, {"DELETE", "FROM"}, p)
      BY <2>2, <3>2 DEF Goes
    <3>4. m \in Range(kq') /\ (Lossy(m) \/ (Heard(m)' /\ PathOf(m)' = p))
      BY <1>2, <1>7, <2>2, <3>2, <3>3
    <3>5. Lossy(m) => Rereads'
      BY <3>4 DEF Rereads, Lossy
    <3>6. ~Lossy(m) => Fells(m, p)'
      BY <1>6, <2>2, <3>3, <3>4 DEF Fells, Says
    <3> QED BY <3>4, <3>5, <3>6 DEF Falling
  <2> QED BY <2>1, <2>2
<1>10. Back'
  <2> SUFFICES ASSUME NEW i \in DOMAIN kq', kq'[i].what = "DELETE", Heard(kq[i])',
                      PathOf(kq[i])' \in Exists'
               PROVE  \E m \in After(kq', i) : Lossy(m) \/ Twin(m, kq'[i], {"CREATE", "TO"})
    BY DEF Back, Lossy, Twin
  <2>1. PICK n : n = kq'[i]
    OBVIOUS
  <2>2. n.what = "DELETE" /\ Heard(n)' /\ PathOf(n)' \in Exists'
    BY <2>1 DEF Heard, PathOf
  <2>3. Heard(n) /\ PathOf(n) \in Exists'
    BY <1>4, <2>2
  <2>4. /\ i \in DOMAIN kq /\ n = kq[i] /\ n \in Range(kq)
        /\ After(kq', i) = After(kq, i) \cup Range(t)
    BY <1>3, <2>1, <2>2, <2>3 DEF Speaks
  <2>5. CASE PathOf(n) \in Exists
    BY <2>1, <2>2, <2>3, <2>4, <2>5 DEF Reported, InQueue, Back
  <2>6. CASE PathOf(n) \notin Exists
    <3>1. IsFile(PathOf(n)) /\ PathOf(n) \in Paths /\ n \in Letter
      BY <1>2, <1>6, <2>2, <2>3, <2>4, <2>6 DEF Comes
    <3>2. n.name = Last(PathOf(n)) /\ byPath[Parent(PathOf(n))] = n.wd /\ n.wd # None
      BY <2>3, <3>1, FileNews
    <3>3. PICK m \in Range(t) : Lossy(m) \/ Says(m, {"CREATE", "TO"}, PathOf(n))
      BY <2>3, <2>6, <3>2 DEF Comes
    <3>4. Lossy(m) \/ Twin(m, n, {"CREATE", "TO"})
      BY <3>2, <3>3 DEF Says, Twin
    <3> QED BY <2>1, <2>4, <3>4
  <2> QED BY <2>5, <2>6
<1>11. Away'
  <2> SUFFICES ASSUME NEW i \in DOMAIN kq', kq'[i].what = "TO", Heard(kq[i])',
                      PathOf(kq[i])' \notin Exists'
               PROVE  \E m \in After(kq', i) : Lossy(m) \/ Twin(m, kq'[i], {"DELETE", "FROM"})
    BY DEF Away, Lossy, Twin
  <2>1. PICK n : n = kq'[i]
    OBVIOUS
  <2>2. n.what = "TO" /\ Heard(n)' /\ PathOf(n)' \notin Exists'
    BY <2>1 DEF Heard, PathOf
  <2>3. Heard(n) /\ PathOf(n) \notin Exists'
    BY <1>4, <2>2
  <2>4. /\ i \in DOMAIN kq /\ n = kq[i] /\ n \in Range(kq)
        /\ After(kq', i) = After(kq, i) \cup Range(t)
    BY <1>3, <2>1, <2>2, <2>3 DEF Speaks
  <2>5. CASE PathOf(n) \notin Exists
    BY <2>1, <2>2, <2>3, <2>4, <2>5 DEF Reported, InQueue, Away
  <2>6. CASE PathOf(n) \in Exists
    <3>1. PathOf(n) \in Paths /\ n \in Letter /\ n.name \in FileNames /\ n.name # Self
      BY <1>2, <1>6, <2>2, <2>4, <2>6 DEF Sound, Notices, Fit
    <3>2. IsFile(PathOf(n))
      BY <2>2, <3>1, PathOfIs DEF IsFile
    <3>3. n.name = Last(PathOf(n)) /\ byPath[Parent(PathOf(n))] = n.wd /\ n.wd # None
      BY <2>3, <3>1, <3>2, FileNews
    <3>4. PICK m \in Range(t) : Lossy(m) \/ Says(m, {"DELETE", "FROM"}, PathOf(n))
      BY <2>3, <2>6, <3>3 DEF Goes
    <3>5. Lossy(m) \/ Twin(m, n, {"DELETE", "FROM"})
      BY <3>3, <3>4 DEF Says, Twin
    <3> QED BY <2>1, <2>4, <3>5
  <2> QED BY <2>5, <2>6
<1>12. Parted'
  <2> SUFFICES ASSUME NEW i \in DOMAIN kq', kq'[i].what = "IGNORED", Heard(kq[i])'
               PROVE  \/ \E m \in Before(kq', i) : Parting(m, kq'[i].wd)
                      \/ job[0].at = "gone" /\ Within(byWd[kq'[i].wd], job[0].rel)
    BY DEF Parted, Parting, tree
  <2>1. PICK n : n = kq'[i]
    OBVIOUS
  <2>2. n.what = "IGNORED" /\ Heard(n)
    BY <2>1 DEF Heard, tree
  <2>3. CASE i \in DOMAIN kq /\ n = kq[i] /\ Before(kq, i) \subseteq Before(kq', i)
    BY <2>1, <2>2, <2>3 DEF Reported, InQueue, Parted
  <2>4. CASE \E k \in DOMAIN t : n = t[k] /\ Before(t, k) \subseteq Before(kq', i)
    BY <2>1, <2>2, <2>4 DEF Speaks
  <2> QED BY <1>3, <2>1, <2>3, <2>4
\* A name that comes is not one the watcher has half a rename of.
<1>13. ASSUME NEW p \in Exists' \ Exists
       PROVE  p \notin Halves
  <2>1. p # Root /\ Within(p, p)
    BY <1>6
  <2> QED BY <2>1 DEF Comes, Apart
<1>14. Left'
  <2> SUFFICES ASSUME NEW n \in Range(kq'), n.what = "FROM", Heard(n)'
               PROVE  PathOf(n)' \notin Exists'
    BY DEF Left
  <2>1. Heard(n) /\ PathOf(n)' = PathOf(n)
    BY <1>4
  <2>2. CASE n \in Range(kq)
    <3>1. PathOf(n) \notin Exists /\ n.cookie # 0
      BY <1>2, <2>1, <2>2 DEF Reported, InQueue, Left, Letter, Cookies
    <3>2. PathOf(n) \in Halves
      <4> DEFINE S == {m \in Range(kq) : m.cookie # 0}
      <4>1. n \in S /\ byWd[n.wd] # NoPath
        BY <2>1, <2>2, <3>1 DEF Heard
      <4>2. PathOf(n) \in Concerned(S)
        BY <4>1, NoticesConcern
      <4> QED BY <4>2 DEF Halves
    <3> QED BY <1>13, <2>1, <3>1, <3>2
  <2>3. CASE n \in Range(t)
    <3>1. PICK k \in DOMAIN t : n = t[k]
      BY <2>3 DEF Range
    <3> QED BY <2>1, <3>1 DEF Speaks
  <2> QED BY <1>2, <2>2, <2>3
<1>15. ASSUME NEW m \in Range(t)
       PROVE  m.cookie <= ops + 1 /\ (m.what = "FROM" => m.cookie = ops + 1)
  <2>1. PICK k \in DOMAIN t : m = t[k]
    BY DEF Range
  <2> QED BY <2>1 DEF Speaks
<1>16. ASSUME NEW n \in Range(kq)
       PROVE  n.cookie \in Nat /\ n.cookie <= ops
  <2>1. n \in Letter
    BY <1>2
  <2>2. n.cookie \in Jobs
    BY <2>1 DEF Letter, Notice
  <2> QED BY <2>2 DEF Jobs, Reported, InQueue, Ordered
<1>17. Ordered'
  <2>1. \A n \in Range(kq') : n.cookie <= ops'
    BY <1>1, <1>2, <1>15, <1>16
  <2>2. ASSUME NEW i \in DOMAIN kq', kq'[i].what = "TO", NEW m \in After(kq', i),
               m.what = "FROM", m.cookie = kq'[i].cookie
        PROVE  FALSE
    <3>1. CASE i \in DOMAIN kq /\ kq'[i] = kq[i] /\ kq[i] \in Range(kq)
               /\ After(kq', i) = After(kq, i) \cup Range(t)
      <4>1. m \notin After(kq, i)
        BY <2>2, <3>1 DEF Reported, InQueue, Ordered
      <4>2. m.cookie = ops + 1 /\ kq[i].cookie <= ops /\ kq[i].cookie \in Nat
        BY <1>15, <1>16, <2>2, <3>1, <4>1
      <4> QED BY <1>1, <2>2, <3>1, <4>2
    <3>2. CASE \E k \in DOMAIN t : kq'[i] = t[k] /\ After(kq', i) = After(t, k)
      BY <2>2, <3>2 DEF Speaks
    <3> QED BY <1>3, <3>1, <3>2
  <2> QED BY <2>1, <2>2 DEF Ordered
<1>18. InHalves'
  <2> SUFFICES ASSUME NEW c \in Cookies, pending[c] # NoHalf
               PROVE  /\ c <= ops + 1
                      /\ IF pending[c].from THEN pending[c].rel \notin Exists'
                         ELSE \A m \in Range(kq') : ~(m.what = "FROM" /\ m.cookie = c)
    BY DEF InHalves
  <2>1. /\ c \in Nat /\ c <= ops
        /\ IF pending[c].from THEN pending[c].rel \notin Exists
           ELSE \A m \in Range(kq) : ~(m.what = "FROM" /\ m.cookie = c)
    BY DEF Cookies, Reported, InHalves
  <2>2. pending[c].rel \in Halves
    BY DEF Halves
  <2>3. \A m \in Range(t) : ~(m.what = "FROM" /\ m.cookie = c)
    BY <1>1, <1>15, <2>1
  <2>4. c <= ops + 1
    BY <1>1, <2>1
  <2> QED BY <1>2, <1>13, <2>1, <2>2, <2>3, <2>4
<1>19. InTimers'
  <2> SUFFICES ASSUME NEW c \in Cookies, job[c].at = "announce"
               PROVE  IsFile(job[c].rel) /\ job[c].rel \notin Exists'
    BY DEF InTimers
  <2>1. job[c] # Idle
    BY DEF Idle
  <2>2. job[c].rel \in Halves
    BY <2>1 DEF Halves
  <2> QED BY <1>13, <2>2 DEF Reported, InTimers
<1>20. Latest'
  <2> DEFINE r == job[0].rel
  <2> SUFFICES ASSUME job[0].at = "announce"
               PROVE  IF r \in Paths /\ IsFile(r)
                      THEN /\ IsDir(Parent(r))' => byPath[Parent(r)] # None
                           /\ r \in Exists' =>
                                  \E m \in Range(kq') : Lossy(m) \/ Says(m, {"CREATE", "TO"}, r)
                      ELSE ~IsDir(r)'
    BY DEF Latest, IsDir, Lossy, Says, tree
  <2>1. IF r \in Paths /\ IsFile(r)
        THEN /\ IsDir(Parent(r)) => byPath[Parent(r)] # None
             /\ r \in Exists =>
                    \E m \in Range(kq) : Lossy(m) \/ Says(m, {"CREATE", "TO"}, r)
        ELSE ~IsDir(r)
    BY DEF Reported, Latest
  <2>2. \A x : IsDir(x)' => IsDir(x) \/ (x \in Exists' \ Exists /\ ~Within(r, x))
    BY DEF Comes
  <2>3. CASE r \in Paths /\ IsFile(r)
    <3>1. r \in Paths \ {Root}
      BY <2>3 DEF IsFile
    <3>2. Within(r, Parent(r))
      BY <3>1, SelfIsNoName
    <3>3. IsDir(Parent(r))' => byPath[Parent(r)] # None
      BY <2>1, <2>2, <2>3, <3>2
    <3>4. ASSUME r \in Exists', r \notin Exists
          PROVE  \E m \in Range(kq') : Lossy(m) \/ Says(m, {"CREATE", "TO"}, r)
      <4>1. IsDir(Parent(r))
        BY <3>4 DEF Comes
      <4>2. byPath[Parent(r)] # None
        BY <2>1, <2>3, <4>1
      <4> QED BY <1>2, <3>4, <4>2 DEF Comes
    <3> QED BY <1>2, <2>1, <2>3, <3>3, <3>4
  <2>4. CASE ~(r \in Paths /\ IsFile(r))
    <3>1. IsDir(r)' => Within(r, r)
      <4>1. IsDir(r)' => r \in AnyPath
        BY NamesAre DEF IsDir
      <4> QED BY <4>1, WithinOrder
    <3> QED BY <2>1, <2>2, <2>4, <3>1
  <2> QED BY <2>3, <2>4
<1>21. Scope'
  BY DEF Reported, Scope
<1> QED BY <1>8, <1>9, <1>10, <1>11, <1>12, <1>14, <1>17, <1>18, <1>19, <1>20, <1>21
    DEF Reported, InQueue

\* What the kernel says of a name: one notice if its directory is watched, or none.
LEMMA ToldSays ==
    ASSUME Inv, Sound, NEW p \in Paths \ {Root}, IsDir(Parent(p)), NEW what, NEW c,
           what # "OVERFLOW"
    PROVE  \/ byPath[Parent(p)] = None /\ Told(p, what, c) = << >>
           \/ \E n : /\ Told(p, what, c) = <<n>> /\ n.what = what /\ n.cookie = c
                     /\ Says(n, {what}, p) /\ Heard(n) /\ PathOf(n) = p
<1>1. Parent(p) \in DirPaths /\ Parent(p) \in Paths
  BY SelfIsNoName DEF DirPaths
<1>2. byPath[Parent(p)] = mark[disk[Parent(p)]]
  BY <1>1, WatchedDirs
<1>3. CASE byPath[Parent(p)] = None
  BY <1>2, <1>3 DEF Told
<1>4. CASE byPath[Parent(p)] # None
  <2>1. PICK n : n = [wd |-> byPath[Parent(p)], what |-> what, name |-> Last(p), cookie |-> c]
    OBVIOUS
  <2>2. Told(p, what, c) = <<n>>
    BY <1>2, <1>4, <2>1 DEF Told
  <2>3. n.what = what /\ n.cookie = c /\ Says(n, {what}, p)
    BY <2>1 DEF Says
  <2>4. Heard(n) /\ PathOf(n) = p
    BY <1>4, <2>3, SaysIs
  <2> QED BY <2>2, <2>3, <2>4
<1> QED BY <1>3, <1>4

LEMMA CatIs ==
    ASSUME NEW S, NEW s \in Seq(S), NEW t \in Seq(S)
    PROVE  s \o t \in Seq(S) /\ s \o << >> = s /\ << >> \o t = t
OBVIOUS

LEMMA OneIs ==
    ASSUME NEW S, NEW x, <<x>> \in Seq(S)
    PROVE  x \in S
OBVIOUS

LEMMA FewInARow ==
    ASSUME NEW S, NEW x, NEW y, <<x>> \in Seq(S), <<y>> \in Seq(S)
    PROVE  <<x, y>> \in Seq(S) /\ <<x>> \o <<y>> = <<x, y>>
<1>1. x \in S /\ y \in S
  BY OneIs
<1>2. PICK u : u = <<x>> \o <<y>>
  OBVIOUS
<1>3. u \in Seq(S)
  BY <1>2, CatIs
<1>4. PICK v : v = <<x, y>>
  OBVIOUS
<1>5. v \in Seq(S)
  BY <1>1, <1>4
<1>6. Len(u) = 2 /\ u[1] = x /\ u[2] = y
  BY <1>1, <1>2
<1>7. Len(v) = 2 /\ v[1] = x /\ v[2] = y
  BY <1>1, <1>4
<1>8. u = v
  <2>1. \A i \in 1..2 : u[i] = v[i]
    BY <1>6, <1>7
  <2> QED BY <1>3, <1>5, <1>6, <1>7, <2>1
<1> QED BY <1>2, <1>4, <1>5, <1>8

LEMMA FewPlaces ==
    /\ DOMAIN << >> = {}
    /\ \A x : DOMAIN <<x>> = {1} /\ <<x>>[1] = x /\ After(<<x>>, 1) = {}
    /\ \A x, y : /\ DOMAIN <<x, y>> = {1, 2} /\ <<x, y>>[1] = x /\ <<x, y>>[2] = y
                 /\ Range(<<x, y>>) = {x, y}
                 /\ Before(<<x, y>>, 2) = {x} /\ After(<<x, y>>, 2) = {}
BY DEF After, Before, Range

\* A notice that may be queued.
Plainly(n) ==
    /\ n.cookie \in {0, ops + 1} /\ (n.what = "FROM" => n.cookie = ops + 1)
    /\ n.what \in {"DELETE", "FROM"} /\ Heard(n) => PathOf(n) \notin Exists'
    /\ n.what = "TO" /\ Heard(n) => PathOf(n) \in Exists'
    /\ n.what # "IGNORED"

LEMMA FewSpeak ==
    ASSUME Inv
    PROVE  /\ Speaks(<< >>) /\ Speaks(<<Overflowed>>)
           /\ \A n : Plainly(n) => Speaks(<<n>>)
           /\ \A m, n : Plainly(m) /\ Plainly(n) /\ m.what = "FROM" => Speaks(<<m, n>>)
<1>1. ops \in Nat
  BY ConstantsAssumption DEF Inv, RestOK
<1>2. Speaks(<< >>)
  BY FewPlaces DEF Speaks
<1>3. ASSUME NEW n, Plainly(n)
      PROVE  Speaks(<<n>>)
  <2>1. n.cookie <= ops + 1
    BY <1>1, <1>3 DEF Plainly
  <2> QED BY <1>3, <2>1, FewPlaces DEF Speaks, Plainly
<1>4. Plainly(Overflowed)
  BY DEF Plainly, Overflowed
<1>5. ASSUME NEW m, NEW n, Plainly(m), Plainly(n), m.what = "FROM"
      PROVE  Speaks(<<m, n>>)
  <2>1. m.cookie <= ops + 1 /\ n.cookie <= ops + 1
    BY <1>1, <1>5 DEF Plainly
  <2>2. \A k \in DOMAIN <<m, n>> :
            (<<m, n>>[k] = m /\ m.what \notin {"TO", "IGNORED"}) \/ (<<m, n>>[k] = n /\ k = 2)
    BY <1>5, FewPlaces
  <2> QED BY <1>5, <2>1, <2>2, FewPlaces DEF Speaks, Plainly
<1> QED BY <1>2, <1>3, <1>4, <1>5

\* The kernel queues the notices, or one that says that they were lost.
LEMMA QueueSpeaks ==
    ASSUME Inv, Sound, Reported, Calm, NEW p, NEW t \in Seq(Letter), Queue(p, t),
           UserMoves, Unheard, Speaks(t), Comes(t), Goes(t),
           \A x : IsDir(x)' => IsDir(x) \/ (x \in Exists' \ Exists /\ ~IsFile(x)), Kinds'
    PROVE  Reported'
<1>1. /\ UNCHANGED <<tree, pending, job, resync, blind, view>> /\ ops' = ops + 1
  BY DEF Unheard, signals, UserMoves
<1>2. kq' = kq \o t => Reported'
  BY <1>1, ToldReported
<1>3. CASE kq' = Append(kq, Overflowed)
  <2>1. kq \in Seq(Letter) /\ Overflowed \in Letter
    BY LettersOfUsers DEF Inv, KernelOK
  <2>2. kq' = kq \o <<Overflowed>> /\ <<Overflowed>> \in Seq(Letter)
    BY <1>3, <2>1
  <2>3. Overflowed \in Range(<<Overflowed>>) /\ Lossy(Overflowed)
    BY RangeOfFew DEF Lossy, Overflowed
  <2>4. Comes(<<Overflowed>>) /\ Goes(<<Overflowed>>) /\ Speaks(<<Overflowed>>)
    BY <2>3, FewSpeak DEF Comes, Goes
  <2> QED BY <1>1, <2>2, <2>4, ToldReported
<1> QED BY <1>2, <1>3 DEF Queue

LEMMA MakeReported == ASSUME Inv, Sound, Reported, Calm, NEW p \in Paths, Make(p) PROVE Reported'
<1>1. /\ p \in Paths \ {Root} /\ IsDir(Parent(p)) /\ Apart(p, Halves) /\ disk[p] = None
      /\ Queue(p, Told(p, "CREATE", 0)) /\ UserMoves /\ Unheard /\ InodesLeft
  BY DEF Make, FreeName, Calm
<1>2. PICK t : t = Told(p, "CREATE", 0)
  OBVIOUS
<1>3. t \in Seq(Letter)
  BY <1>1, <1>2, LettersOfUsers
<1>4. FreshInode \in Inodes /\ DOMAIN disk = Paths
  BY <1>1, FreshIs DEF Inv, DiskOK
<1>5. PICK d : /\ disk' = [disk EXCEPT ![p] = d] /\ d # None
               /\ d = FileEntry <=> IsFile(p)
               /\ d \in Inodes => ~IsFile(p)
  BY <1>4, FileEntryIs DEF Make
<1>6. /\ Exists' \ Exists = {p} /\ Exists \subseteq Exists'
      /\ \A x : IsDir(x)' => IsDir(x) \/ (x = p /\ ~IsFile(p))
      /\ Kinds'
  <2>1. \A x \in Paths : disk'[x] = IF x = p THEN d ELSE disk[x]
    BY <1>4, <1>5
  <2>2. Kinds'
    BY <1>5, <2>1 DEF Reported, Kinds
  <2>3. Exists' \ Exists = {p} /\ Exists \subseteq Exists'
    BY <1>1, <1>5, <2>1 DEF Exists
  <2>4. \A x : IsDir(x)' => IsDir(x) \/ (x = p /\ ~IsFile(p))
    BY <1>5, <2>1 DEF IsDir
  <2> QED BY <2>2, <2>3, <2>4
<1>7. \/ byPath[Parent(p)] = None /\ t = << >>
      \/ \E n : /\ t = <<n>> /\ n.what = "CREATE" /\ n.cookie = 0
                /\ Says(n, {"CREATE"}, p) /\ Heard(n) /\ PathOf(n) = p
  <2>1. "CREATE" # "OVERFLOW"
    OBVIOUS
  <2>2. \/ byPath[Parent(p)] = None /\ Told(p, "CREATE", 0) = << >>
        \/ \E n : /\ Told(p, "CREATE", 0) = <<n>> /\ n.what = "CREATE" /\ n.cookie = 0
                  /\ Says(n, {"CREATE"}, p) /\ Heard(n) /\ PathOf(n) = p
    BY <1>1, <2>1, ToldSays
  <2> QED BY <1>2, <2>2
<1>8. Speaks(t)
  BY <1>7, FewSpeak DEF Plainly
<1>9. byPath[Parent(p)] # None => \E m \in Range(t) : Says(m, {"CREATE", "TO"}, p)
  BY <1>7, RangeOfFew DEF Says
<1>10. ~IsFile(p) => /\ ~Within(job[0].rel, p)
                     /\ \A n \in Range(kq) : n.what = "DELETE" /\ Heard(n) => PathOf(n) # p
  <2> SUFFICES ASSUME ~IsFile(p)
               PROVE  /\ ~Within(job[0].rel, p)
                      /\ \A n \in Range(kq) : n.what = "DELETE" /\ Heard(n) => PathOf(n) # p
    OBVIOUS
  <2>1. ~Within(job[0].rel, p)
    BY DEF Make, Calm, Plain, InHand
  <2> QED BY <2>1, NoNewsOf DEF Calm, Heard
<1>11. Comes(t) /\ Goes(t)
  BY <1>1, <1>6, <1>9, <1>10 DEF Comes, Goes
<1> QED BY <1>1, <1>2, <1>3, <1>6, <1>8, <1>11, QueueSpeaks

\* t is what the kernel says of a name that goes.
TellsGone(t, p, what, c) ==
    \/ byPath[Parent(p)] = None /\ t = << >>
    \/ \E n : /\ t = <<n>> /\ n.what = what /\ n.cookie = c
              /\ Says(n, {what}, p) /\ Heard(n) /\ PathOf(n) = p

LEMMA ToldGone ==
    ASSUME Inv, Sound, NEW p \in Paths \ {Root}, IsDir(Parent(p)),
           NEW what \in {"DELETE", "FROM"}, NEW c
    PROVE  TellsGone(Told(p, what, c), p, what, c)
<1>1. what # "OVERFLOW"
  OBVIOUS
<1> QED BY <1>1, ToldSays DEF TellsGone

\* A path goes, and nothing else.
LEMMA PathGone ==
    ASSUME Inv, Reported, NEW p \in Paths \ {Root}, p \in Exists,
           \A x \in Paths : disk'[x] = IF x = p THEN None ELSE disk[x]
    PROVE  /\ Exists \ Exists' = {p} /\ Exists' \subseteq Exists
           /\ (\A x : IsDir(x)' => IsDir(x)) /\ Kinds'
<1>1. Kinds'
  BY FileEntryIs DEF Reported, Kinds
<1>2. Exists \ Exists' = {p} /\ Exists' \subseteq Exists
  BY DEF Exists
<1>3. \A x : IsDir(x)' => IsDir(x)
  BY FileEntryIs DEF IsDir
<1> QED BY <1>1, <1>2, <1>3

LEMMA FileGone ==
    ASSUME Inv, Sound, Reported, Calm, NEW p \in Paths \ {Root}, p \in Exists, MayGo(p),
           UserMoves, Unheard, NEW what \in {"DELETE", "FROM"},
           NEW c, c = IF what = "FROM" THEN ops + 1 ELSE 0,
           \A x \in Paths : disk'[x] = IF x = p THEN None ELSE disk[x],
           NEW t \in Seq(Letter), t = Told(p, what, c), Queue(p, t)
    PROVE  Reported'
<1>1. /\ Exists \ Exists' = {p} /\ Exists' \subseteq Exists
      /\ (\A x : IsDir(x)' => IsDir(x)) /\ Kinds'
  BY PathGone
<1>2. IsDir(Parent(p))
  BY ParentIsDir DEF Inv
<1>3. \/ byPath[Parent(p)] = None /\ t = << >>
      \/ \E n : /\ t = <<n>> /\ n.what = what /\ n.cookie = c
                /\ Says(n, {what}, p) /\ Heard(n) /\ PathOf(n) = p
  <2>1. TellsGone(Told(p, what, c), p, what, c)
    BY <1>2, ToldGone
  <2> QED BY <2>1 DEF TellsGone
<1>4. p \notin Exists'
  BY <1>1
<1>5. Speaks(t)
  BY <1>3, <1>4, FewSpeak DEF Plainly
<1>6. byPath[Parent(p)] # None => \E m \in Range(t) : Says(m, {"DELETE", "FROM"}, p)
  BY <1>3, RangeOfFew DEF Says
<1>7. Comes(t) /\ Goes(t)
  BY <1>1, <1>6 DEF Comes, Goes
<1> QED BY <1>1, <1>5, <1>7, QueueSpeaks

LEMMA MoveOutReported ==
    ASSUME Inv, Sound, Reported, Calm, NEW p \in Paths, MoveOut(p)
    PROVE  Reported'
<1>1. /\ p \in Paths \ {Root} /\ p \in Exists /\ IsFile(p) /\ MayGo(p)
      /\ UserMoves /\ Unheard /\ Queue(p, Told(p, "FROM", ops + 1))
  BY DEF MoveOut, MayMove, Calm, Plain, Exists
<1>2. IsDir(Parent(p)) /\ ops + 1 \in Cookies
  BY <1>1, ParentIsDir, UnheardKeeps DEF Unheard, Inv, RestOK
<1>3. \A x \in Paths : Within(x, p) <=> x = p
  BY <1>1, FilesAreNoDirs, NamesAre, WithinOrder
<1>4. \A x \in Paths : disk'[x] = IF x = p THEN None ELSE disk[x]
  BY <1>3 DEF MoveOut
<1>5. Told(p, "FROM", ops + 1) \in Seq(Letter)
  BY <1>1, <1>2, LettersOfUsers
<1>6. ops + 1 = IF "FROM" = "FROM" THEN ops + 1 ELSE 0
  OBVIOUS
<1> QED BY <1>1, <1>4, <1>5, <1>6, FileGone

LEMMA UnlinkFileReported ==
    ASSUME Inv, Sound, Reported, Calm, NEW p \in Paths, Unlink(p), ~IsDir(p)
    PROVE  Reported'
<1>1. /\ p \in Paths \ {Root} /\ p \in Exists /\ MayGo(p) /\ UserMoves /\ Unheard
      /\ Queue(p, Destroyed(p) \o Told(p, "DELETE", 0))
  BY DEF Unlink, Exists
<1>2. IsDir(Parent(p))
  BY <1>1, ParentIsDir DEF Inv
<1>3. Told(p, "DELETE", 0) \in Seq(Letter)
  BY <1>1, <1>2, LettersOfUsers
<1>4. Destroyed(p) \o Told(p, "DELETE", 0) = Told(p, "DELETE", 0)
  BY <1>3 DEF Destroyed
<1>5. \A x \in Paths : disk'[x] = IF x = p THEN None ELSE disk[x]
  BY DEF Unlink, Inv, DiskOK
<1>6. 0 = IF "DELETE" = "FROM" THEN ops + 1 ELSE 0
  OBVIOUS
<1> QED BY <1>1, <1>3, <1>4, <1>5, <1>6, FileGone

\* A directory that is watched says itself that it goes, and that its watch does.
LEMMA UnlinkDirReported ==
    ASSUME Inv, Sound, Reported, Calm, NEW p \in Paths, Unlink(p), IsDir(p)
    PROVE  Reported'
<1>1. /\ p \in Paths \ {Root} /\ p \in Exists /\ p \in DirPaths /\ ~IsFile(p) /\ MayGo(p)
      /\ UserMoves /\ Unheard
      /\ Queue(p, (ToldSelf(disk[p], "DELETE") \o ToldSelf(disk[p], "IGNORED"))
                  \o Told(p, "DELETE", 0))
  BY DEF Unlink, Exists, Sound, Places, DirPaths, Destroyed
<1>2. IsDir(Parent(p))
  BY <1>1, ParentIsDir DEF Inv
<1>3. /\ disk[p] \in Inodes /\ byPath[p] = mark[disk[p]]
      /\ byPath[p] # None => byWd[byPath[p]] = p
  BY <1>1, WatchedDirs
<1>4. /\ ToldSelf(disk[p], "DELETE") \in Seq(Letter) /\ ToldSelf(disk[p], "IGNORED") \in Seq(Letter)
      /\ Told(p, "DELETE", 0) \in Seq(Letter)
  BY <1>1, <1>2, <1>3, LettersOfUsers
<1>5. /\ Exists \ Exists' = {p} /\ Exists' \subseteq Exists
      /\ (\A x : IsDir(x)' => IsDir(x)) /\ Kinds'
  <2>1. \A x \in Paths : disk'[x] = IF x = p THEN None ELSE disk[x]
    BY DEF Unlink, Inv, DiskOK
  <2> QED BY <1>1, <2>1, PathGone
<1>6. \/ byPath[Parent(p)] = None /\ Told(p, "DELETE", 0) = << >>
      \/ \E n : /\ Told(p, "DELETE", 0) = <<n>> /\ n.what = "DELETE" /\ n.cookie = 0
                /\ Says(n, {"DELETE"}, p) /\ Heard(n) /\ PathOf(n) = p
  <2>1. "DELETE" # "OVERFLOW"
    OBVIOUS
  <2> QED BY <1>1, <1>2, <2>1, ToldSays
<1>7. PICK t \in Seq(Letter) : t = Told(p, "DELETE", 0)
  BY <1>4
<1>8. /\ Speaks(t) /\ p \notin Exists' /\ \A n \in Range(t) : n.what = "DELETE" /\ n.cookie = 0
      /\ byPath[Parent(p)] # None => \E m \in Range(t) : Says(m, {"DELETE", "FROM"}, p)
  <2>1. p \notin Exists'
    BY <1>5
  <2>2. Speaks(t)
    BY <1>6, <1>7, <2>1, FewSpeak DEF Plainly
  <2>3. byPath[Parent(p)] # None => \E m \in Range(t) : Says(m, {"DELETE", "FROM"}, p)
    BY <1>6, <1>7, RangeOfFew DEF Says
  <2>4. \A n \in Range(t) : n.what = "DELETE" /\ n.cookie = 0
    BY <1>6, <1>7, RangeOfFew
  <2> QED BY <2>1, <2>2, <2>3, <2>4
<1>9. \E s \in Seq(Letter) : Speaks(s) /\ Range(t) \subseteq Range(s) /\ Queue(p, s)
  <2>1. CASE mark[disk[p]] = None
    <3>1. (ToldSelf(disk[p], "DELETE") \o ToldSelf(disk[p], "IGNORED")) \o t = t
      BY <2>1 DEF ToldSelf
    <3> QED BY <1>1, <1>7, <1>8, <3>1
  <2>2. CASE mark[disk[p]] # None
    <3>1. PICK d, g :
              /\ d = [wd |-> mark[disk[p]], what |-> "DELETE", name |-> Self, cookie |-> 0]
              /\ g = [wd |-> mark[disk[p]], what |-> "IGNORED", name |-> Self, cookie |-> 0]
      OBVIOUS
    <3>2. ToldSelf(disk[p], "DELETE") = <<d>> /\ ToldSelf(disk[p], "IGNORED") = <<g>>
      BY <2>2, <3>1 DEF ToldSelf
    <3>3. <<d>> \in Seq(Letter) /\ <<g>> \in Seq(Letter)
      BY <1>4, <3>2
    <3>4. PICK u \in Seq(Letter) : u = <<d, g>> /\ u = <<d>> \o <<g>>
      BY <3>3, FewInARow
    <3>5. PICK s \in Seq(Letter) : s = u \o t
      BY CatIs
    <3>9. Queue(p, s)
      <4>1. s = (ToldSelf(disk[p], "DELETE") \o ToldSelf(disk[p], "IGNORED"))
                \o Told(p, "DELETE", 0)
        BY <1>7, <3>2, <3>4, <3>5, Zenon
      <4> QED BY <1>1, <4>1, Zenon
    <3>6. Range(t) \subseteq Range(s)
      BY <3>5, RangeCat
    <3>7. PathOf(d) = p /\ d.what = "DELETE" /\ g.what = "IGNORED" /\ Parting(d, g.wd)
          /\ d.cookie = 0 /\ g.cookie = 0
      BY <1>3, <2>2, <3>1 DEF PathOf, Parting
    <3>8. Speaks(s)
      <4> SUFFICES ASSUME NEW k \in DOMAIN s
                   PROVE  /\ s[k].cookie <= ops + 1 /\ s[k].what \notin {"FROM", "TO"}
                          /\ s[k].what = "DELETE" => PathOf(s[k]) \notin Exists'
                          /\ s[k].what = "IGNORED" => \E m \in Before(s, k) : Parting(m, s[k].wd)
        BY DEF Speaks
      <4>1. ops \in Nat /\ 0 <= ops + 1
        BY ConstantsAssumption DEF Inv, RestOK
      <4>2. CASE k \in DOMAIN u /\ s[k] = u[k] /\ Before(u, k) \subseteq Before(s, k)
        <5>1. \/ s[k] = d
              \/ s[k] = g /\ d \in Before(s, k)
          BY <3>4, <4>2, FewPlaces
        <5> QED BY <1>8, <3>7, <4>1, <5>1
      <4>3. CASE \E x \in DOMAIN t : s[k] = t[x]
        <5>1. PICK x \in DOMAIN t : s[k] = t[x]
          BY <4>3
        <5>2. t[x] \in Range(t) /\ s[k].what = "DELETE" /\ s[k].cookie = 0
          BY <1>8, <5>1 DEF Range
        <5>3. PathOf(t[x]) = p
          <6>1. t # << >>
            BY <5>2, RangeOfFew
          <6>2. \E n : t = <<n>> /\ PathOf(n) = p
            BY <1>6, <1>7, <6>1
          <6>3. \A n \in Range(t) : PathOf(n) = p
            BY <6>2, RangeOfFew
          <6> QED BY <5>2, <6>3
        <5> QED BY <1>8, <4>1, <5>1, <5>2, <5>3
      <4> QED BY <3>5, <4>2, <4>3, PlacesInCat
    <3> QED BY <3>6, <3>8, <3>9
  <2> QED BY <2>1, <2>2
<1>10. PICK s \in Seq(Letter) : Speaks(s) /\ Range(t) \subseteq Range(s) /\ Queue(p, s)
  BY <1>9
<1>11. Comes(s) /\ Goes(s)
  BY <1>1, <1>5, <1>8, <1>10 DEF Comes, Goes
<1> QED BY <1>1, <1>5, <1>10, <1>11, QueueSpeaks

LEMMA RenameReported ==
    ASSUME Inv, Sound, Reported, Calm, NEW p \in Paths, NEW q \in Paths, Rename(p, q)
    PROVE  Reported'
<1>1. /\ p \in Paths \ {Root} /\ q \in Paths \ {Root} /\ p \in Exists /\ IsDir(Parent(q))
      /\ IsFile(p) /\ IsFile(q) /\ UserMoves /\ Unheard /\ MayGo(p) /\ Apart(q, Halves)
      /\ ~Within(q, p)
  BY DEF Rename, CanMove, MayMove, FreeName, Calm, Plain, Exists
<1>2. /\ IsDir(Parent(p)) /\ p \in AnyPath /\ q \in AnyPath /\ Rebase(q, q, p) = p
      /\ ops + 1 \in Cookies
  BY <1>1, ParentIsDir, NamesAre, RebaseOnto, UnheardKeeps DEF Unheard, Inv, RestOK
<1>3. /\ ~IsDir(q) /\ disk[p] \notin Inodes
      /\ \A x \in Paths : (Within(x, p) <=> x = p) /\ (Within(x, q) <=> x = q)
  BY <1>1, <1>2, FilesAreNoDirs, WithinOrder
<1>4. /\ p # q
      /\ \A x \in Paths : disk'[x] = IF x = q THEN disk[p] ELSE IF x = p THEN None ELSE disk[x]
  BY <1>1, <1>2, <1>3 DEF Rename, Moved
<1>5. disk[p] = FileEntry
  BY <1>1, <1>3 DEF Exists, Inv, DiskOK
<1>6. /\ Exists' = (Exists \ {p}) \cup {q}
      /\ \A x : IsDir(x)' => IsDir(x)
      /\ Kinds'
  <2>1. Exists' = (Exists \ {p}) \cup {q}
    BY <1>1, <1>4, <1>5, FileEntryIs DEF Exists
  <2>2. \A x : IsDir(x)' => IsDir(x)
    BY <1>4, <1>5, FileEntryIs DEF IsDir
  <2>3. Kinds'
    BY <1>1, <1>4, FileEntryIs DEF Reported, Kinds
  <2> QED BY <2>1, <2>2, <2>3
<1>7. "FROM" # "OVERFLOW" /\ "TO" # "OVERFLOW"
  OBVIOUS
<1>8. \/ byPath[Parent(p)] = None /\ Told(p, "FROM", ops + 1) = << >>
      \/ \E n : /\ Told(p, "FROM", ops + 1) = <<n>> /\ n.what = "FROM" /\ n.cookie = ops + 1
                /\ Says(n, {"FROM"}, p) /\ Heard(n) /\ PathOf(n) = p
  BY <1>1, <1>2, <1>7, ToldSays
<1>9. \/ byPath[Parent(q)] = None /\ Told(q, "TO", ops + 1) = << >>
      \/ \E n : /\ Told(q, "TO", ops + 1) = <<n>> /\ n.what = "TO" /\ n.cookie = ops + 1
                /\ Says(n, {"TO"}, q) /\ Heard(n) /\ PathOf(n) = q
  BY <1>1, <1>7, ToldSays
<1>10. PICK a \in Seq(Letter), b \in Seq(Letter) :
           a = Told(p, "FROM", ops + 1) /\ b = Told(q, "TO", ops + 1)
  BY <1>1, <1>2, LettersOfUsers
<1>11. p \notin Exists' /\ q \in Exists'
  BY <1>4, <1>6
<1>12. /\ a = << >> \/ \E n : a = <<n>> /\ Plainly(n) /\ n.what = "FROM"
       /\ b = << >> \/ \E n : b = <<n>> /\ Plainly(n)
  <2>1. a = << >> \/ \E n : a = <<n>> /\ Plainly(n) /\ n.what = "FROM"
    BY <1>8, <1>10, <1>11 DEF Plainly
  <2>2. b = << >> \/ \E n : b = <<n>> /\ Plainly(n)
    BY <1>9, <1>10, <1>11 DEF Plainly
  <2> QED BY <2>1, <2>2
<1>13. PICK t \in Seq(Letter) : t = a \o b
  BY CatIs
<1>14. Speaks(t)
  <2>1. a = << >> => t = b
    BY <1>13
  <2>2. b = << >> => t = a
    BY <1>13
  <2>3. \A m, n : a = <<m>> /\ b = <<n>> => t = <<m, n>>
    BY <1>10, <1>13, FewInARow, ZenonT(60)
  <2> QED BY <1>12, <2>1, <2>2, <2>3, FewSpeak
<1>15. /\ byPath[Parent(p)] # None => \E m \in Range(t) : Says(m, {"DELETE", "FROM"}, p)
       /\ byPath[Parent(q)] # None => \E m \in Range(t) : Says(m, {"CREATE", "TO"}, q)
  <2>1. Range(t) = Range(a) \cup Range(b)
    BY <1>13, RangeCat
  <2>2. byPath[Parent(p)] # None => \E m \in Range(a) : Says(m, {"DELETE", "FROM"}, p)
    BY <1>8, <1>10, RangeOfFew DEF Says
  <2>3. byPath[Parent(q)] # None => \E m \in Range(b) : Says(m, {"CREATE", "TO"}, q)
    BY <1>9, <1>10, RangeOfFew DEF Says
  <2> QED BY <2>1, <2>2, <2>3
<1>16. Queue(p, t)
  <2>1. Queue(p, (a \o b) \o Destroyed(q)) /\ Destroyed(q) = << >>
    BY <1>3, <1>10 DEF Rename, Destroyed
  <2>2. t \o << >> = t
    OBVIOUS
  <2> QED BY <1>13, <2>1, <2>2
<1>17. Comes(t) /\ Goes(t)
  BY <1>1, <1>6, <1>15 DEF Comes, Goes
<1> QED BY <1>1, <1>6, <1>14, <1>16, <1>17, QueueSpeaks

LEMMA LoseRootReported == ASSUME Inv, Sound, Reported, Calm, LoseRoot PROVE Reported'
<1>1. 1 \in Inodes
  BY ConstantsAssumption DEF Inodes
<1>2. PICK t \in Seq(Letter) : t = ToldSelf(1, "MOVED")
  BY <1>1, LettersOfUsers
<1>3. /\ kq' = kq \o t /\ ops' = ops + 1 /\ disk' = disk
      /\ UNCHANGED <<tree, pending, job, resync, blind, view>>
  BY <1>2 DEF LoseRoot, UserMoves, signals
<1>4. Exists' = Exists /\ (\A x : IsDir(x)' <=> IsDir(x)) /\ Kinds'
  BY <1>3, SameDisk DEF Reported, Kinds
<1>5. Speaks(t)
  BY <1>2, FewSpeak DEF ToldSelf, Plainly
<1>6. Comes(t) /\ Goes(t)
  BY <1>4 DEF Comes, Goes
<1> QED BY <1>3, <1>4, <1>5, <1>6, ToldReported

LEMMA UsersReported == ASSUME Inv, Sound, Reported, Calm, UserStep PROVE Reported'
<1>1. CASE \E p \in Paths : Make(p)
  BY <1>1, MakeReported
<1>2. CASE \E p \in Paths : Unlink(p)
  BY <1>2, UnlinkFileReported, UnlinkDirReported
<1>3. CASE \E p \in Paths : MoveOut(p)
  BY <1>3, MoveOutReported
<1>4. CASE \E p \in Paths : MoveIn(p)
  BY <1>4 DEF MoveIn, Calm, Plain
<1>5. CASE \E p, q \in Paths : Rename(p, q)
  BY <1>5, RenameReported
<1>6. CASE LoseRoot
  BY <1>6, LoseRootReported
<1> QED BY <1>1, <1>2, <1>3, <1>4, <1>5, <1>6 DEF UserStep

LEMMA StepKeepsReported == Calm /\ Inv /\ Sound /\ Reported /\ [Next]_vars => Reported'
<1> SUFFICES ASSUME Calm, Inv, Sound, Reported, [Next]_vars PROVE Reported'
  OBVIOUS
<1>1. CASE UserStep
  BY <1>1, UsersReported
<1>2. CASE LoopStep
  BY <1>2, OverflowReported, IgnoredReported, ResidualReported, CreateReported, DeleteReported,
     MovedReported, PairReported, WaitReported DEF LoopStep
<1>3. CASE \E c \in Cookies : TimerFires(c)
  BY <1>3, TimerReported
<1>4. CASE \E j \in Jobs : JobStep(j)
  BY <1>4, NoHalfWalk, WalkAddReported, WalkSkipReported, WalkReadReported, WalkDoneReported,
     ScanReported, UnwatchReported, AnnounceReported DEF JobStep
<1>5. CASE LoopEnds \/ FullResync \/ UNCHANGED vars
  BY <1>5, SignalReported
<1> QED BY <1>1, <1>2, <1>3, <1>4, <1>5 DEF Next

\* With nothing queued and nobody at work, nothing is on its way into the view.
LEMMA ReportedImplies == Inv /\ Sound /\ Reported => Announced
<1> SUFFICES ASSUME Inv, Sound, Reported, Quiet, ~blind PROVE view = Exists
  BY DEF Announced
<1>1. Range(kq) = {} /\ \A j \in Jobs : job[j].at = "idle"
  BY RangeOfFew DEF Quiet, Idle
<1>2. ~Rereads
  BY <1>1 DEF Rereads, Quiet
<1>3. \A p : ~Rising(p) /\ ~Falling(p)
  BY <1>1, LoopsJob DEF Rising, Falling, Quiet, Arrived, Gone, Brings, Takes
<1> QED BY <1>2, <1>3 DEF Reported, Untold, Ghosts

\* Once the watcher has caught up, the events it emitted add up to the disk: for users
\* who make and remove directories, and write, move and remove files, with the watcher
\* anywhere behind, however late timers expire and whenever it is stopped, as long as
\* they take no name again of which it holds half a rename and remove nothing that a
\* scan or a full resync found in a directory not watched yet.
THEOREM AnnouncesAll ==
    ASSUME Hurry \cap {"moves", "again", "overflow", "reuse", "scan"} = {}
    PROVE  Spec => []Announced
<1>1. Calm /\ Plain
  BY DEF Calm, Plain
<1>2. Inv /\ Sound /\ [Next]_vars => Sound'
  BY <1>1, StepKeepsSound
<1>3. Inv /\ Sound /\ Reported /\ [Next]_vars => Reported'
  BY <1>1, StepKeepsReported
<1> QED BY <1>2, <1>3, InitHolds, SoundAtFirst, ReportedAtFirst, StepKeeps, ReportedImplies,
        PTL DEF Spec
===============================================================================
