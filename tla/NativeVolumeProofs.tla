-------------------------- MODULE NativeVolumeProofs --------------------------
(***************************************************************************)
(* The durability of the native volume, for any number of roots, slots,    *)
(* pages, recordings, operations and resets.                               *)
(*                                                                         *)
(* A cut may leave any of the images written since the last sync, so what  *)
(* is promised must hold of each of them.                                  *)
(*                                                                         *)
(* DeleteInv is about the tombstones: they are on every image (Answered,   *)
(* WellKept); a call decides on what RAM says, which is behind the map     *)
(* exactly while a tombstone is written and not yet synced (Cached, Same); *)
(* what the pages on their way are (Pending) ties a reply to the image     *)
(* that will back it.                                                      *)
(*                                                                         *)
(* VolumeInv adds the segments, ends of recordings and receipts (Durable). *)
(* A slot or root is written over only when the store's RAM says it is     *)
(* free, so that must mean nothing is there that is not deleted            *)
(* (StoreSound, Backed); a segment is promised only when its job has       *)
(* passed the sync of its commit (SegmentJob, RootJob, Single); a receipt  *)
(* is promised when its page is synced, and the slot is the right one      *)
(* because the catalog names committed segments only (Catalog, Receiving). *)
(***************************************************************************)
EXTENDS NativeVolume, FiniteSetTheorems, WellFoundedInduction, TLAPS

-----------------------------------------------------------------------------
(* Numbers and sequences.                                                  *)

(* A set of numbers has a least element: the form in which what a          *)
(* recursive definition computes is argued here, from the last page down.  *)
LEMMA LeastNumber ==
  ASSUME NEW S, S \subseteq Nat, S # {}
  PROVE  \E n \in S : \A m \in S : n <= m
<1>1. PICK n \in S : \A m \in S : ~ (<<m, n>> \in OpToRel(<, Nat))
  BY WFMin, NatLessThanWellFounded
<1>2. \A m \in S : ~ (m < n)
  BY <1>1 DEF OpToRel
<1>3. \A m \in S : n <= m
  <2> TAKE m \in S
  <2>1. m \in Nat /\ n \in Nat /\ ~ (m < n)
    BY <1>2
  <2> QED
    BY <2>1
<1> QED
  BY <1>3

(* The sequence that g yields from each page upwards exists, ...           *)
LEMMA UpwardRecursion ==
  ASSUME NEW K \in Nat, NEW E, NEW g \in [0..K -> Seq(E)]
  PROVE  \E f : f = [n \in Nat |-> IF n \notin 0..K THEN << >> ELSE g[n] \o f[n + 1]]
<1> DEFINE Eq(f, n) == f[n] = IF n \notin 0..K THEN << >> ELSE g[n] \o f[n + 1]
           Solves(f, j) == \A n \in Nat : n >= j => Eq(f, n)
           From == {j \in Nat : j <= K + 1 /\ \E f \in [Nat -> Seq(E)] : Solves(f, j)}
<1>1. K + 1 \in From
  <2> DEFINE f == [n \in Nat |-> << >>]
  <2>1. f \in [Nat -> Seq(E)]
    OBVIOUS
  <2>2. \A n \in Nat : n >= K + 1 => n \notin 0..K /\ f[n] = << >>
    OBVIOUS
  <2>3. Solves(f, K + 1)
    BY <2>2
  <2>4. K + 1 \in Nat /\ K + 1 <= K + 1
    OBVIOUS
  <2> HIDE DEF f, Solves
  <2> QED
    BY <2>1, <2>3, <2>4
<1>2. PICK j \in From : \A i \in From : j <= i
  <2> HIDE DEF Solves
  <2>1. From \subseteq Nat
    OBVIOUS
  <2> HIDE DEF From
  <2> QED
    BY <1>1, <2>1, LeastNumber
<1>3. j \in Nat /\ j <= K + 1 /\ \E f \in [Nat -> Seq(E)] : Solves(f, j)
  <2> HIDE DEF Solves
  <2> QED
    BY <1>2
<1>4. PICK f \in [Nat -> Seq(E)] : Solves(f, j)
  BY <1>3
<1>5. j = 0
  <2> SUFFICES ASSUME j # 0 PROVE FALSE
    OBVIOUS
  <2>2. j - 1 \in 0..K /\ j - 1 \in Nat /\ j - 1 <= K + 1 /\ ~(j <= j - 1)
    BY <1>3
  <2> DEFINE e == g[j - 1] \o f[j]
             f2 == [f EXCEPT ![j - 1] = e]
  <2>3. e \in Seq(E)
    <3>1. g[j - 1] \in Seq(E) /\ f[j] \in Seq(E)
      BY <1>3, <1>4, <2>2
    <3> QED
      BY <3>1
  <2>4. f2 \in [Nat -> Seq(E)]
    <3> HIDE DEF e
    <3> QED
      BY <1>4, <2>2, <2>3
  <2>5. Solves(f2, j - 1)
    <3> SUFFICES ASSUME NEW n \in Nat, n >= j - 1 PROVE Eq(f2, n)
      OBVIOUS
    <3>1. CASE n = j - 1
      <4>1. n \in 0..K /\ n + 1 = j /\ f2[n] = e /\ f2[j] = f[j]
        <5> HIDE DEF e
        <5> QED
          BY <3>1, <1>3, <1>4, <2>2
      <4> QED
        BY <3>1, <4>1
    <3>2. CASE n # j - 1
      <4>1. n >= j /\ n + 1 # j - 1 /\ n + 1 \in Nat
        BY <3>2, <1>3
      <4>2. f2[n] = f[n] /\ f2[n + 1] = f[n + 1]
        <5> HIDE DEF e
        <5> QED
          BY <4>1, <3>2, <1>4
      <4>3. Eq(f, n)
        BY <4>1, <1>4
      <4> HIDE DEF f2
      <4> QED
        BY <4>2, <4>3
    <3> QED
      BY <3>1, <3>2
  <2>6. j - 1 \in From
    <3> HIDE DEF f2, Solves
    <3> QED
      BY <2>2, <2>4, <2>5
  <2> HIDE DEF From
  <2> QED
    BY <1>2, <2>2, <2>6
<1>6. \A n \in Nat : Eq(f, n)
  <2> TAKE n \in Nat
  <2>1. n >= j
    BY <1>5
  <2> QED
    BY <1>4, <2>1
<1>7. f = [n \in Nat |-> f[n]]
  BY <1>4
<1>8. f = [n \in Nat |-> IF n \notin 0..K THEN << >> ELSE g[n] \o f[n + 1]]
  BY <1>6, <1>7
<1> QED
  BY <1>8

(* ... and holds what g yields, ...                                        *)
LEMMA UpwardType ==
  ASSUME NEW K \in Nat, NEW E, NEW g \in [0..K -> Seq(E)], NEW f,
         f = [n \in Nat |-> IF n \notin 0..K THEN << >> ELSE g[n] \o f[n + 1]]
  PROVE  f[0] \in Seq(E) /\ \A n \in 0..(K + 1) : f[n] \in Seq(E)
<1> DEFINE Good(j) == \A n \in j..(K + 1) : f[n] \in Seq(E)
           From == {j \in Nat : j <= K + 1 /\ Good(j)}
<1>0. \A n \in Nat : f[n] = IF n \notin 0..K THEN << >> ELSE g[n] \o f[n + 1]
  <2> DEFINE h(n) == IF n \notin 0..K THEN << >> ELSE g[n] \o f[n + 1]
  <2>1. f = [n \in Nat |-> h(n)]
    OBVIOUS
  <2> HIDE DEF h
  <2>2. \A n \in Nat : f[n] = h(n)
    BY <2>1
  <2> QED
    BY <2>2 DEF h
<1>1. K + 1 \in From
  <2>1. f[K + 1] = << >> /\ K + 1 \in Nat
    BY <1>0
  <2>2. \A n \in (K + 1)..(K + 1) : n = K + 1
    OBVIOUS
  <2>3. << >> \in Seq(E) /\ K + 1 <= K + 1
    OBVIOUS
  <2>4. Good(K + 1)
    BY ONLY <2>1, <2>2, <2>3
  <2> HIDE DEF Good
  <2> QED
    BY ONLY <2>1, <2>3, <2>4
<1>2. PICK j \in From : \A i \in From : j <= i
  <2>1. From \subseteq Nat
    OBVIOUS
  <2> HIDE DEF From
  <2> QED
    BY <1>1, <2>1, LeastNumber
<1>3. j = 0
  <2> SUFFICES ASSUME j # 0 PROVE FALSE
    OBVIOUS
  <2>0. j \in Nat /\ j <= K + 1 /\ Good(j)
    <3> HIDE DEF Good
    <3> QED
      BY ONLY <1>2
  <2>1. /\ j - 1 \in 0..K /\ j - 1 \in Nat /\ (j - 1) + 1 = j /\ f[j] \in Seq(E)
        /\ j - 1 <= K + 1 /\ ~(j <= j - 1)
    <3>1. j \in j..(K + 1) /\ j - 1 \in 0..K
      BY ONLY <2>0, j # 0, K \in Nat
    <3>2. f[j] \in Seq(E)
      BY ONLY <2>0, <3>1
    <3> QED
      BY ONLY <2>0, <3>1, <3>2, K \in Nat
  <2>2. f[j - 1] = g[j - 1] \o f[j] /\ g[j - 1] \in Seq(E)
    <3>1. f[j - 1] = g[j - 1] \o f[(j - 1) + 1]
      BY ONLY <2>1, <1>0
    <3> QED
      BY ONLY <2>1, <3>1, g \in [0..K -> Seq(E)]
  <2>3. \A a, b \in Seq(E) : a \o b \in Seq(E)
    OBVIOUS
  <2>4. f[j - 1] \in Seq(E)
    BY ONLY <2>1, <2>2, <2>3
  <2>5. \A n \in (j - 1)..(K + 1) : n = j - 1 \/ n \in j..(K + 1)
    BY ONLY <2>0, <2>1, K \in Nat
  <2>6. Good(j - 1)
    BY ONLY <2>0, <2>4, <2>5
  <2> HIDE DEF Good
  <2>7. j - 1 \in From
    BY ONLY <2>1, <2>6
  <2> HIDE DEF From
  <2> QED
    BY ONLY <1>2, <2>1, <2>7
<1>4. Good(0)
  <2> HIDE DEF Good
  <2> QED
    BY ONLY <1>2, <1>3
<1>5. 0 \in 0..(K + 1)
  OBVIOUS
<1> QED
  BY ONLY <1>4, <1>5

(* A sequence has what its parts have.                                     *)
LEMMA RangeConcat ==
  ASSUME NEW E, NEW a \in Seq(E), NEW b \in Seq(E)
  PROVE  Range(a) \subseteq Range(a \o b) /\ Range(b) \subseteq Range(a \o b)
<1>1. Len(a) \in Nat /\ Len(b) \in Nat /\ a \o b \in Seq(E) /\ Len(a \o b) = Len(a) + Len(b)
  OBVIOUS
<1>2. ASSUME NEW i \in 1..Len(a) PROVE i \in 1..Len(a \o b) /\ (a \o b)[i] = a[i]
  BY <1>1
<1>3. ASSUME NEW i \in 1..Len(b)
      PROVE  Len(a) + i \in 1..Len(a \o b) /\ (a \o b)[Len(a) + i] = b[i]
  BY <1>1
<1>4. /\ DOMAIN a = 1..Len(a) /\ DOMAIN b = 1..Len(b) /\ DOMAIN (a \o b) = 1..Len(a \o b)
  BY <1>1
<1> QED
  BY <1>2, <1>3, <1>4 DEF Range

(* ... all of it.                                                          *)
LEMMA UpwardRange ==
  ASSUME NEW K \in Nat, NEW E, NEW g \in [0..K -> Seq(E)], NEW f,
         f = [n \in Nat |-> IF n \notin 0..K THEN << >> ELSE g[n] \o f[n + 1]]
  PROVE  \A k \in 0..K : Range(g[k]) \subseteq Range(f[0])
<1> SUFFICES ASSUME NEW k \in 0..K, NEW y \in Range(g[k]) PROVE y \in Range(f[0])
  OBVIOUS
<1> DEFINE From == {j \in Nat : j <= k /\ y \in Range(f[j])}
<1>0. \A n \in 0..K : f[n] = g[n] \o f[n + 1]
  <2> DEFINE h(n) == IF n \notin 0..K THEN << >> ELSE g[n] \o f[n + 1]
  <2>1. f = [n \in Nat |-> h(n)]
    OBVIOUS
  <2> HIDE DEF h
  <2>2. \A n \in Nat : f[n] = h(n)
    BY <2>1
  <2>3. \A n \in 0..K : n \in Nat
    OBVIOUS
  <2> QED
    BY <2>2, <2>3 DEF h
<1>1. \A n \in 0..(K + 1) : f[n] \in Seq(E)
  BY UpwardType
<1>2. ASSUME NEW n \in 0..K
      PROVE  Range(g[n]) \subseteq Range(f[n]) /\ Range(f[n + 1]) \subseteq Range(f[n])
  <2>1. n + 1 \in 0..(K + 1)
    OBVIOUS
  <2>2. g[n] \in Seq(E) /\ f[n + 1] \in Seq(E) /\ f[n] = g[n] \o f[n + 1]
    BY <1>0, <1>1, <2>1
  <2> QED
    BY <2>2, RangeConcat
<1>3. k \in From
  <2>0. Range(g[k]) \subseteq Range(f[k])
    BY <1>2
  <2>1. y \in Range(f[k]) /\ k \in Nat /\ k <= k
    BY ONLY <2>0, y \in Range(g[k]), k \in 0..K
  <2> QED
    BY ONLY <2>1
<1>4. PICK j \in From : \A i \in From : j <= i
  <2>1. From \subseteq Nat
    OBVIOUS
  <2> HIDE DEF From
  <2> QED
    BY <1>3, <2>1, LeastNumber
<1>5. j = 0
  <2> SUFFICES ASSUME j # 0 PROVE FALSE
    OBVIOUS
  <2>1. j \in Nat /\ j <= k /\ k \in Nat /\ k <= K /\ y \in Range(f[j])
    BY <1>4
  <2>2. j - 1 \in 0..K /\ j - 1 \in Nat /\ (j - 1) + 1 = j /\ j - 1 <= k /\ ~(j <= j - 1)
    BY <2>1
  <2>3. y \in Range(f[j - 1])
    BY <1>2, <2>1, <2>2
  <2> QED
    BY <1>4, <2>2, <2>3
<1> QED
  BY <1>4, <1>5

(* A bounded set of numbers has a greatest element.                        *)
LEMMA Greatest ==
  ASSUME NEW S, S \subseteq Nat, S # {}, NEW b \in Nat, \A x \in S : x <= b
  PROVE  \E n \in S : \A m \in S : n >= m
<1> DEFINE U == {n \in Nat : \A x \in S : x <= n}
<1>1. PICK n \in U : \A m \in U : n <= m
  BY LeastNumber
<1>2. n \in S
  <2> SUFFICES ASSUME n \notin S PROVE FALSE
    OBVIOUS
  <2>0. PICK x \in S : TRUE
    OBVIOUS
  <2>1. n \in Nat /\ x \in Nat /\ x <= n /\ x # n
    BY <2>0
  <2>2. n - 1 \in U
    BY <2>1
  <2> QED
    BY <1>1, <2>1, <2>2
<1> QED
  BY <1>1, <1>2

-----------------------------------------------------------------------------
(* The invariant.  Its parts are predicates of the images I a cut may      *)
(* leave, the last of them m, the promises pr, the metadata x and the      *)
(* state v of the volume.                                                  *)

TombTypes == [op : Ops, man : Manifests, rev : Nat]

(* A map has every sector, a tombstone page is missing or a list, and no   *)
(* two tombstones share their operation, recording or revision.            *)
Written(m, s, page) == [m EXCEPT ![s] = page]
IsMap(m) == m = [s \in Sector |-> m[s]]
TombPageOK(page) ==
  page # Missing =>
    page = [kind |-> "tombs", list |-> page.list] /\ page.list \in Seq(TombTypes)
NoneTwice(T) ==
  \A t, u \in T : t.op = u.op \/ t.man.id = u.man.id \/ t.rev = u.rev => t = u
UpTo(T, bound) == \A t \in T : t.rev <= bound
WellKept(m) ==
  /\ IsMap(m) /\ \A p \in TombPage : TombPageOK(m[Tombs(p)])
  /\ NoneTwice(Tombstones(m)) /\ \E bound \in Nat : UpTo(Tombstones(m), bound)

(* A promised deletion is its tombstone, on every image.                   *)
IsDelete(q) == q.kind = "delete"
TombOf(q) == [op |-> q.op, man |-> q.man, rev |-> q.rev]
DeleteReply(t) == [kind |-> "delete", op |-> t.op, man |-> t.man, rev |-> t.rev]
Answered(I, pr) ==
  \A q \in pr : IsDelete(q) =>
    q = DeleteReply(TombOf(q)) /\ \A m \in I : TombOf(q) \in Tombstones(m)

Shape(x) ==
  /\ x = [mounted |-> x.mounted, deleted |-> x.deleted, revision |-> x.revision,
          todo |-> x.todo, wrote |-> x.wrote, reply |-> x.reply]
  /\ x.mounted \in BOOLEAN /\ x.wrote \in BOOLEAN /\ x.revision \in Nat
  /\ IsFiniteSet(x.deleted) /\ x.todo \in Seq(Range(x.todo))
  /\ x.todo = << >> => ~x.wrote /\ x.reply = {}

(* The tombstone of a deletion is on the map and not yet synced.  Only     *)
(* then is the cached list of a mounted metadata behind the map, and the   *)
(* images of a cut differ in their tombstones.                             *)
Deleting(x) == x.wrote /\ \E q \in x.reply : IsDelete(q)
Cached(m, x) ==
  x.mounted =>
    /\ \A p \in TombPage : m[Tombs(p)] # Missing
    /\ ~Deleting(x) => Deleted(m) \subseteq x.deleted /\ UpTo(Tombstones(m), x.revision)
Same(I, m, x, v) == v # "FENCED" /\ ~Deleting(x) => \A n \in I : Tombstones(n) = Tombstones(m)

(* What the pages still to be published are.                               *)
IsReceipts(sector) == \E p \in ReceiptPage : sector = Receipts(p)
ReceiptsPending(x) ==
  /\ x.mounted /\ \A y \in Range(x.todo) : IsReceipts(y.sector)
  /\ \A q \in x.reply : ~IsDelete(q)
IsEmptyPage(y) == \/ IsReceipts(y.sector) /\ y.page = EmptyReceipts
                  \/ y.sector = MetaRoot
                  \/ y.page = EmptyTombs /\ \E p \in TombPage : y.sector = Tombs(p)
CreationPending(I, x) ==
  /\ ~x.mounted /\ x.reply = {}
  /\ \A n \in I : Tombstones(n) = {}
  /\ \A y \in Range(x.todo) : IsEmptyPage(y)
NewTomb(t, T) == \A u \in T : u.op # t.op /\ u.man.id # t.man.id /\ u.rev < t.rev
ListPage(list) == [kind |-> "tombs", list |-> list]
Extended(m, p, t) == ListPage(Append(TombList(m, p), t))
TombPending(m, x, t) ==
  \E p \in TombPage : /\ x.todo = <<[sector |-> Tombs(p), page |-> Extended(m, p, t)]>>
                      /\ NewTomb(t, Tombstones(m))
TombWritten(m, x, t) ==
  /\ Len(x.todo) = 1 /\ t \in Tombstones(m) /\ UpTo(Tombstones(m), t.rev)
  /\ Deleted(m) \subseteq x.deleted \cup {t.man.id}
DeletePending(m, x) ==
  /\ x.mounted
  /\ \E t \in TombTypes : /\ x.reply = {DeleteReply(t)}
                          /\ IF x.wrote THEN TombWritten(m, x, t) ELSE TombPending(m, x, t)
Pending(I, m, x) ==
  x.todo # << >> => ReceiptsPending(x) \/ CreationPending(I, x) \/ DeletePending(m, x)

Unmounted == {"LEGACY", "PREPARED", "FORMATTING", "ERASING", "CONFIGURED", "FENCED"}
AtRest(pr, x, v) == /\ v \in Unmounted => x = NoMetadata
                    /\ v \in {"FORMATTING", "ERASING"} => pr = {}

Sound(I, m, pr, x, v) ==
  /\ m \in I /\ \A n \in I : WellKept(n)
  /\ Answered(I, pr) /\ Shape(x) /\ Cached(m, x) /\ Same(I, m, x, v) /\ Pending(I, m, x)
  /\ AtRest(pr, x, v)
Chain(vs) == vs \in Seq(Range(vs)) /\ vs # << >>
DeleteInv == Chain(versions) /\ Sound(Images, Image, promised, rsm, vol)

-----------------------------------------------------------------------------
(* Maps and their tombstones.                                              *)

(* An appended image is the last one, and one more.                        *)
LEMMA Appended ==
  ASSUME NEW vs, Chain(vs), NEW m, NEW vs2, vs2 = Append(vs, m)
  PROVE  Chain(vs2) /\ Range(vs2) = Range(vs) \cup {m} /\ vs2[Len(vs2)] = m
<1> DEFINE S == Range(vs) \cup {m}
<1>1. vs \in Seq(Range(vs)) /\ vs # << >>
  BY DEF Chain
<1>2. vs \in Seq(S)
  BY <1>1
<1>3. vs2 \in Seq(S) /\ Len(vs2) = Len(vs) + 1 /\ vs2[Len(vs) + 1] = m
       /\ (\A i \in 1..Len(vs) : vs2[i] = vs[i]) /\ Len(vs) \in Nat
  BY <1>2
<1>4. DOMAIN vs2 = 1..Len(vs)+1 /\ DOMAIN vs = 1..Len(vs)
  BY <1>2, <1>3
<1>5. Range(vs2) = S
  <2>1. Range(vs2) \subseteq S
    BY <1>3, <1>4 DEF Range
  <2>2. ASSUME NEW n \in Range(vs) PROVE n \in Range(vs2)
    <3>1. PICK i \in 1..Len(vs) : n = vs[i]
      BY <1>4 DEF Range
    <3>2. i \in DOMAIN vs2 /\ vs2[i] = n
      BY <1>3, <1>4, <3>1
    <3> QED
      BY <3>2 DEF Range
  <2>3. m \in Range(vs2)
    <3>1. Len(vs) + 1 \in DOMAIN vs2 /\ vs2[Len(vs) + 1] = m
      BY <1>3, <1>4
    <3> QED
      BY <3>1 DEF Range
  <2> QED
    BY <2>1, <2>2, <2>3
<1>6. vs2 # << >>
  BY <1>3
<1> QED
  BY <1>3, <1>5, <1>6 DEF Chain

(* A synced map is one image.                                              *)
LEMMA Synced ==
  ASSUME NEW m, NEW vs2, vs2 = <<m>>
  PROVE  Chain(vs2) /\ Range(vs2) = {m} /\ vs2[Len(vs2)] = m
<1>1. vs2 \in Seq({m}) /\ Len(vs2) = 1 /\ vs2[1] = m /\ DOMAIN vs2 = 1..1
  OBVIOUS
<1>2. Range(vs2) = {m}
  BY <1>1 DEF Range
<1> QED
  BY <1>1, <1>2 DEF Chain

(* The last image is one of them.                                          *)
LEMMA LastImage ==
  ASSUME NEW vs, Chain(vs)
  PROVE  vs[Len(vs)] \in Range(vs) /\ \A i \in DOMAIN vs : vs[i] \in Range(vs)
<1>1. Len(vs) \in DOMAIN vs
  BY DEF Chain
<1> QED
  BY <1>1 DEF Range

(* The sectors of the tombstones are theirs alone.                         *)
LEMMA TombSectors ==
  \A p \in TombPage :
    /\ Tombs(p) \in Sector /\ Tombs(p) # MetaRoot
    /\ \A q : Tombs(p) # Receipts(q) /\ Tombs(p) # Root(q) /\ Tombs(p) # Slot(q)
    /\ \A s, i : Tombs(p) # Data(s, i)
    /\ \A q : Tombs(q) = Tombs(p) => q = p
<1> TAKE p \in TombPage
<1>1. Tombs(p) \in Sector
  BY DEF Sector
<1>2. Len(Tombs(p)) = 2 /\ Tombs(p)[1] = "tombs"
  BY DEF Tombs
<1>3. Len(MetaRoot) = 1 /\ \A s, i : Len(Data(s, i)) = 3
  BY DEF MetaRoot, Data
<1>4. \A q : Receipts(q)[1] = "receipts" /\ Root(q)[1] = "root" /\ Slot(q)[1] = "slot"
  BY DEF Receipts, Root, Slot
<1>5. \A q : Tombs(q) = Tombs(p) => q = p
  BY DEF Tombs
<1> QED
  BY <1>1, <1>2, <1>3, <1>4, <1>5

(* The tombstones are what the tombstone pages hold.                       *)
LEMMA SameTombs ==
  ASSUME NEW m, NEW m2, \A p \in TombPage : m2[Tombs(p)] = m[Tombs(p)]
  PROVE  /\ Tombstones(m2) = Tombstones(m) /\ Deleted(m2) = Deleted(m)
         /\ \A p \in TombPage : TombList(m2, p) = TombList(m, p)
<1>1. \A p \in TombPage : TombList(m2, p) = TombList(m, p)
  BY DEF TombList
<1>2. Tombstones(m2) = Tombstones(m)
  BY <1>1 DEF Tombstones
<1> QED
  BY <1>1, <1>2 DEF Deleted

(* A write elsewhere leaves the tombstones as they are.                    *)
LEMMA WriteElsewhere ==
  ASSUME NEW m, WellKept(m), NEW s, NEW page, \A p \in TombPage : s # Tombs(p),
         NEW m2, m2 = Written(m, s, page)
  PROVE  WellKept(m2) /\ \A p \in TombPage : m2[Tombs(p)] = m[Tombs(p)]
<1>1. m = [z \in Sector |-> m[z]]
  BY DEF WellKept, IsMap
<1>2. m2 = [z \in Sector |-> IF z = s THEN page ELSE m[z]]
  BY <1>1 DEF Written
<1>3. IsMap(m2)
  BY <1>2 DEF IsMap
<1>4. \A p \in TombPage : m2[Tombs(p)] = m[Tombs(p)]
  BY <1>2, TombSectors
<1>5. Tombstones(m2) = Tombstones(m)
  BY <1>4, SameTombs
<1> QED
  BY <1>3, <1>4, <1>5 DEF WellKept

(* The tombstones of a formatted map, and of a new tombstone page.         *)
LEMMA FormattedTombs ==
  WellKept(Formatted) /\ Tombstones(Formatted) = {}
<1>1. IsMap(Formatted)
  BY DEF IsMap, Formatted
<1>2. \A p \in TombPage : Formatted[Tombs(p)] = Missing
  BY TombSectors DEF Formatted
<1>3. \A p \in TombPage : TombList(Formatted, p) = << >>
  BY <1>2 DEF TombList
<1>4. Range(<< >>) = {}
  BY DEF Range
<1>5. Tombstones(Formatted) = {}
  BY <1>3, <1>4 DEF Tombstones
<1>6. \A p \in TombPage : TombPageOK(Formatted[Tombs(p)])
  BY <1>2 DEF TombPageOK
<1>7. NoneTwice({}) /\ UpTo({}, 0) /\ 0 \in Nat
  BY DEF NoneTwice, UpTo
<1> QED
  BY <1>1, <1>5, <1>6, <1>7 DEF WellKept

(* The elements of an appended list.                                       *)
LEMMA RangeAppend ==
  ASSUME NEW S, NEW list \in Seq(S), NEW t
  PROVE  Range(Append(list, t)) = Range(list) \cup {t}
<1> DEFINE l2 == Append(list, t)
<1>1. DOMAIN list = 1..Len(list) /\ DOMAIN l2 = 1..Len(list)+1 /\ Len(list) \in Nat
  OBVIOUS
<1>2. l2[Len(list) + 1] = t /\ \A i \in 1..Len(list) : l2[i] = list[i]
  OBVIOUS
<1> HIDE DEF l2
<1>3. Range(l2) \subseteq Range(list) \cup {t}
  BY <1>1, <1>2 DEF Range
<1>4. t \in Range(l2)
  <2>1. Len(list) + 1 \in DOMAIN l2
    BY <1>1
  <2> QED
    BY <2>1, <1>2 DEF Range
<1>5. Range(list) \subseteq Range(l2)
  <2>1. \A i \in DOMAIN list : i \in DOMAIN l2 /\ l2[i] = list[i]
    BY <1>1, <1>2
  <2> QED
    BY <2>1 DEF Range
<1> QED
  BY <1>3, <1>4, <1>5 DEF l2

(* Writing one tombstone page changes its list and no other.               *)
LEMMA WriteTombs ==
  ASSUME NEW m, WellKept(m), NEW p \in TombPage, NEW list \in Seq(TombTypes),
         NEW m2, m2 = Written(m, Tombs(p), ListPage(list))
  PROVE  /\ IsMap(m2) /\ \A q \in TombPage : TombPageOK(m2[Tombs(q)])
         /\ \A q \in TombPage : m[Tombs(q)] # Missing => m2[Tombs(q)] # Missing
         /\ TombList(m2, p) = list /\ m2[Tombs(p)] # Missing
         /\ \A q \in TombPage : q # p => TombList(m2, q) = TombList(m, q)
<1> DEFINE page == ListPage(list)
<1>1. m = [z \in Sector |-> m[z]]
  BY DEF WellKept, IsMap
<1>2. m2 = [z \in Sector |-> IF z = Tombs(p) THEN page ELSE m[z]]
  BY <1>1 DEF Written
<1>3. page = [kind |-> "tombs", list |-> page.list] /\ page.list = list /\ page # Missing
  BY DEF Missing, ListPage
<1> HIDE DEF page
<1>4. \A q \in TombPage : m2[Tombs(q)] = IF q = p THEN page ELSE m[Tombs(q)]
  BY <1>2, TombSectors
<1>5. IsMap(m2)
  BY <1>2 DEF IsMap
<1>6. TombPageOK(page)
  BY <1>3 DEF TombPageOK
<1>7. \A q \in TombPage : TombPageOK(m2[Tombs(q)])
  BY <1>4, <1>6 DEF WellKept
<1> QED
  BY <1>3, <1>4, <1>5, <1>7 DEF TombList

(* A tombstone page that is missing holds no tombstones.                   *)
LEMMA TombLists ==
  ASSUME NEW m, WellKept(m)
  PROVE  \A q \in TombPage : TombList(m, q) \in Seq(TombTypes)
<1> TAKE q \in TombPage
<1>1. TombPageOK(m[Tombs(q)])
  BY DEF WellKept
<1>2. CASE m[Tombs(q)] = Missing
  BY <1>2 DEF TombList
<1>3. CASE m[Tombs(q)] # Missing
  BY <1>1, <1>3 DEF TombList, TombPageOK
<1> QED
  BY <1>2, <1>3

(* A new tombstone at the end of a page is one more.                       *)
LEMMA OneMoreTomb ==
  ASSUME NEW m, WellKept(m), NEW p \in TombPage, NEW t \in TombTypes, NewTomb(t, Tombstones(m)),
         m[Tombs(p)] # Missing,
         NEW m2, m2 = Written(m, Tombs(p), Extended(m, p, t))
  PROVE  /\ WellKept(m2) /\ Tombstones(m2) = Tombstones(m) \cup {t}
         /\ \A q \in TombPage : m[Tombs(q)] # Missing => m2[Tombs(q)] # Missing
<1> DEFINE list == Append(TombList(m, p), t)
<1>1. TombList(m, p) \in Seq(TombTypes)
  BY TombLists
<1>2. list \in Seq(TombTypes) /\ Range(list) = Range(TombList(m, p)) \cup {t}
  BY <1>1, RangeAppend
<1>3. m2 = Written(m, Tombs(p), ListPage(list))
  BY DEF Extended
<1> HIDE DEF list
<1>4. /\ IsMap(m2) /\ \A q \in TombPage : TombPageOK(m2[Tombs(q)])
      /\ \A q \in TombPage : m[Tombs(q)] # Missing => m2[Tombs(q)] # Missing
      /\ TombList(m2, p) = list
      /\ \A q \in TombPage : q # p => TombList(m2, q) = TombList(m, q)
  BY <1>2, <1>3, WriteTombs
<1>5. Tombstones(m2) = Tombstones(m) \cup {t}
  <2>1. \A u : u \in Tombstones(m2) <=> \E q \in TombPage : u \in Range(TombList(m2, q))
    BY DEF Tombstones
  <2>2. \A u : u \in Tombstones(m) <=> \E q \in TombPage : u \in Range(TombList(m, q))
    BY DEF Tombstones
  <2> QED
    BY <2>1, <2>2, <1>2, <1>4
<1>6. PICK bound \in Nat : UpTo(Tombstones(m), bound)
  BY DEF WellKept
<1>7. UpTo(Tombstones(m2), bound + t.rev) /\ bound + t.rev \in Nat
  <2>1. t.rev \in Nat
    BY DEF TombTypes
  <2>2. \A u \in Tombstones(m) : u.rev \in Nat
    <3>1. \A q \in TombPage : TombList(m, q) \in Seq(TombTypes)
      BY TombLists
    <3>2. \A q \in TombPage : Range(TombList(m, q)) \subseteq TombTypes
      BY <3>1 DEF Range
    <3> QED
      BY <3>2 DEF Tombstones, TombTypes
  <2>3. ASSUME NEW u \in Tombstones(m2) PROVE u.rev <= bound + t.rev
    <3>1. CASE u = t
      BY <2>1, <3>1
    <3>2. CASE u \in Tombstones(m)
      <4>1. u.rev <= bound /\ u.rev \in Nat
        BY <3>2, <1>6, <2>2 DEF UpTo
      <4> QED
        BY <4>1, <2>1
    <3> QED
      BY <1>5, <3>1, <3>2
  <2> QED
    BY <2>1, <2>3 DEF UpTo
<1>8. NoneTwice(Tombstones(m2))
  <2>1. NoneTwice(Tombstones(m))
    BY DEF WellKept
  <2>2. t.rev \in Nat
    BY DEF TombTypes
  <2>3. \A u \in Tombstones(m) : u.op # t.op /\ u.man.id # t.man.id /\ u.rev # t.rev
    BY <2>2 DEF NewTomb
  <2> QED
    BY <1>5, <2>1, <2>3 DEF NoneTwice
<1> QED
  BY <1>4, <1>5, <1>7, <1>8 DEF WellKept

(* An empty page in the place of a page without tombstones.                *)
LEMMA EmptyTombPage ==
  ASSUME NEW m, WellKept(m), Tombstones(m) = {}, NEW p \in TombPage,
         NEW m2, m2 = Written(m, Tombs(p), EmptyTombs)
  PROVE  WellKept(m2) /\ Tombstones(m2) = {}
<1> DEFINE list == << >>
<1>1. list \in Seq(TombTypes) /\ m2 = Written(m, Tombs(p), ListPage(list)) /\ Range(list) = {}
  BY DEF EmptyTombs, ListPage, Range
<1> HIDE DEF list
<1>2. /\ IsMap(m2) /\ \A q \in TombPage : TombPageOK(m2[Tombs(q)])
      /\ TombList(m2, p) = list
      /\ \A q \in TombPage : q # p => TombList(m2, q) = TombList(m, q)
  BY <1>1, WriteTombs
<1>4. Tombstones(m2) = {}
  BY <1>1, <1>2 DEF Tombstones
<1>5. NoneTwice({}) /\ UpTo({}, 0) /\ 0 \in Nat
  BY DEF NoneTwice, UpTo
<1> QED
  BY <1>2, <1>4, <1>5 DEF WellKept

(* The tombstones of a map have their types, and are finitely many.        *)
LEMMA TombsTyped ==
  ASSUME NEW m, WellKept(m)
  PROVE  /\ Tombstones(m) \subseteq TombTypes
         /\ IsFiniteSet(Deleted(m))
<1>1. \A q \in TombPage : TombList(m, q) \in Seq(TombTypes)
  BY TombLists
<1>2. \A q \in TombPage : Range(TombList(m, q)) \subseteq TombTypes
  BY <1>1 DEF Range
<1>3. Tombstones(m) \subseteq TombTypes
  BY <1>2 DEF Tombstones
<1>4. IsFiniteSet(Deleted(m))
  <2>1. PICK bound \in Nat : UpTo(Tombstones(m), bound)
    BY DEF WellKept
  <2> DEFINE revs == {t.rev : t \in Tombstones(m)}
             idOf == [r \in revs |-> (CHOOSE t \in Tombstones(m) : t.rev = r).man.id]
  <2>2. IsFiniteSet(revs)
    <3>1. revs \in SUBSET Nat /\ \A r \in revs : r <= bound
      BY <1>3, <2>1 DEF TombTypes, UpTo
    <3> QED
      BY <3>1, FS_BoundedSetOfNaturals
  <2>3. \A t \in Tombstones(m) : t.rev \in revs /\ idOf[t.rev] = t.man.id
    BY DEF WellKept, NoneTwice
  <2>4. idOf \in Surjection(revs, Deleted(m))
    <3>1. \A r \in revs : idOf[r] \in Deleted(m)
      BY <2>3 DEF Deleted
    <3>2. \A id \in Deleted(m) : \E r \in revs : idOf[r] = id
      BY <2>3 DEF Deleted
    <3>3. idOf \in [revs -> Deleted(m)]
      BY <3>1
    <3> HIDE DEF idOf
    <3> QED
      BY <3>2, <3>3 DEF Surjection
  <2> HIDE DEF idOf, revs
  <2> QED
    BY <2>2, <2>4, FS_Surjection
<1> QED
  BY <1>3, <1>4

(* Newest: no tombstone has a later revision.                              *)
LEMMA NewestTomb ==
  ASSUME NEW m, WellKept(m)
  PROVE  Newest(m) \in Nat /\ UpTo(Tombstones(m), Newest(m))
<1>1. CASE Tombstones(m) = {}
  BY <1>1 DEF Newest, UpTo
<1>2. CASE Tombstones(m) # {}
  <2> DEFINE revs == {t.rev : t \in Tombstones(m)}
  <2>1. revs \subseteq Nat /\ revs # {}
    BY <1>2, TombsTyped DEF TombTypes
  <2>2. PICK bound \in Nat : UpTo(Tombstones(m), bound)
    BY DEF WellKept
  <2>3. \A r \in revs : r <= bound
    BY <2>2 DEF UpTo
  <2> HIDE DEF revs
  <2>4. \E n \in revs : \A r \in revs : n >= r
    BY <2>1, <2>3, Greatest
  <2>5. \E n \in revs : \A t \in Tombstones(m) : n >= t.rev
    BY <2>4 DEF revs
  <2>6. Newest(m) = CHOOSE n \in revs : \A t \in Tombstones(m) : n >= t.rev
    BY <1>2 DEF Newest, revs
  <2>7. Newest(m) \in revs /\ \A t \in Tombstones(m) : Newest(m) >= t.rev
    BY <2>5, <2>6
  <2>8. \A t \in Tombstones(m) : t.rev \in Nat /\ Newest(m) \in Nat
    BY <2>1, <2>7 DEF revs
  <2>9. \A t \in Tombstones(m) : t.rev <= Newest(m)
    <3> TAKE t \in Tombstones(m)
    <3>1. t.rev \in Nat /\ Newest(m) \in Nat /\ Newest(m) >= t.rev
      BY <2>7, <2>8
    <3> QED
      BY <3>1
  <2> QED
    BY <2>1, <2>7, <2>9 DEF UpTo
<1> QED
  BY <1>1, <1>2
-----------------------------------------------------------------------------
(* What a step does to the images, the promises and the metadata.          *)

(* A step that leaves the tombstones and the metadata alone.               *)
LEMMA Unrelated ==
  ASSUME NEW I, NEW m, NEW pr, NEW x, NEW v, Sound(I, m, pr, x, v),
         NEW m2, WellKept(m2), \A p \in TombPage : m2[Tombs(p)] = m[Tombs(p)],
         NEW I2, m2 \in I2, I2 \subseteq I \cup {m2},
         NEW pr2, \A q \in pr2 : q \in pr \/ ~IsDelete(q),
         NEW v2, v # "FENCED" \/ I2 = {m2}, AtRest(pr2, x, v2)
  PROVE  Sound(I2, m2, pr2, x, v2)
<1>1. /\ Tombstones(m2) = Tombstones(m) /\ Deleted(m2) = Deleted(m)
      /\ \A p \in TombPage : TombList(m2, p) = TombList(m, p)
  BY SameTombs
<1>2. m \in I /\ \A n \in I : WellKept(n)
  BY DEF Sound
<1>3. Answered(I2, pr2)
  BY <1>1, <1>2 DEF Sound, Answered
<1>4. Cached(m2, x)
  BY <1>1 DEF Sound, Cached
<1>5. Same(I2, m2, x, v2)
  BY <1>1 DEF Sound, Same
<1>6. Pending(I2, m2, x)
  <2> SUFFICES ASSUME x.todo # << >>
               PROVE  ReceiptsPending(x) \/ CreationPending(I2, x) \/ DeletePending(m2, x)
    BY DEF Pending
  <2>1. CASE ReceiptsPending(x)
    BY <2>1
  <2>2. CASE CreationPending(I, x)
    BY <2>2, <1>1, <1>2 DEF CreationPending
  <2>3. CASE DeletePending(m, x)
    <3>1. \A t : TombWritten(m, x, t) => TombWritten(m2, x, t)
      BY <1>1 DEF TombWritten
    <3>2. \A t : TombPending(m, x, t) => TombPending(m2, x, t)
      BY <1>1 DEF TombPending, Extended
    <3> QED
      BY <2>3, <3>1, <3>2 DEF DeletePending
  <2> QED
    BY <2>1, <2>2, <2>3 DEF Sound, Pending
<1> QED
  BY <1>2, <1>3, <1>4, <1>5, <1>6 DEF Sound

(* Every promise forgotten with the volume.                                *)
LEMMA Forgotten ==
  ASSUME NEW I, NEW m, NEW pr, NEW x, NEW v, Sound(I, m, pr, x, v),
         NEW m2, NEW I2, m2 \in I2, I2 \subseteq I,
         NEW v2, v2 = "FENCED" \/ I2 = {m2}, v2 \notin {"FORMATTING", "ERASING"}
  PROVE  Sound(I2, m2, pr, NoMetadata, v2)
<1> DEFINE none == NoMetadata
<1>1. Shape(none) /\ none.todo = << >> /\ ~none.mounted
  <2>1. << >> \in Seq(Range(<< >>)) /\ IsFiniteSet({})
    BY FS_EmptySet
  <2> QED
    BY <2>1 DEF Shape, NoMetadata
<1> HIDE DEF none
<1>2. \A n \in I2 : WellKept(n)
  BY DEF Sound
<1>3. Answered(I2, pr)
  BY DEF Sound, Answered
<1>4. Cached(m2, none) /\ Pending(I2, m2, none)
  BY <1>1 DEF Cached, Pending
<1>5. Same(I2, m2, none, v2)
  BY DEF Same
<1>6. AtRest(pr, none, v2)
  BY DEF AtRest, none
<1> QED
  BY <1>1, <1>2, <1>3, <1>4, <1>5, <1>6 DEF Sound, none

(* The metadata opened on the pages it finds.                              *)
LEMMA Reopened ==
  ASSUME NEW I, NEW m, NEW pr, NEW x, NEW v, Sound(I, m, pr, x, v),
         x.todo = << >>, v # "FENCED", \A p \in TombPage : m[Tombs(p)] # Missing,
         NEW x2, x2 = [NoMetadata EXCEPT !.mounted = TRUE, !.deleted = Deleted(m),
                                         !.revision = Newest(m)],
         NEW v2, v2 \notin Unmounted
  PROVE  Sound(I, m, pr, x2, v2)
<1>1. WellKept(m) /\ m \in I
  BY DEF Sound
<1>2. /\ x2.mounted = TRUE /\ x2.deleted = Deleted(m) /\ x2.revision = Newest(m)
      /\ x2.todo = << >> /\ x2.wrote = FALSE /\ x2.reply = {}
      /\ x2 = [mounted |-> x2.mounted, deleted |-> x2.deleted, revision |-> x2.revision,
               todo |-> x2.todo, wrote |-> x2.wrote, reply |-> x2.reply]
  BY DEF NoMetadata
<1>3. Shape(x2)
  <2>1. << >> \in Seq(Range(<< >>))
    OBVIOUS
  <2>2. IsFiniteSet(x2.deleted) /\ x2.revision \in Nat
    BY <1>1, <1>2, TombsTyped, NewestTomb
  <2> QED
    BY <1>2, <2>1, <2>2 DEF Shape
<1>4. Cached(m, x2)
  BY <1>1, <1>2, NewestTomb DEF Cached
<1>5. ~Deleting(x)
  BY DEF Deleting, Sound, Shape
<1>6. Same(I, m, x2, v2)
  BY <1>5 DEF Sound, Same
<1>7. Pending(I, m, x2)
  BY <1>2 DEF Pending
<1>8. AtRest(pr, x2, v2)
  BY DEF AtRest, Unmounted
<1> QED
  BY <1>3, <1>4, <1>6, <1>7, <1>8 DEF Sound

(* Pages to be published, for a call that found nothing pending.           *)
LEMMA Queued ==
  ASSUME NEW I, NEW m, NEW pr, NEW x, NEW v, Sound(I, m, pr, x, v),
         x.todo = << >>, v \notin Unmounted,
         NEW S, NEW pages \in Seq(S), pages # << >>, NEW reply,
         NEW x2, x2 = [x EXCEPT !.todo = pages, !.reply = reply],
         ReceiptsPending(x2) \/ CreationPending(I, x2) \/ DeletePending(m, x2)
  PROVE  Sound(I, m, pr, x2, v)
<1>1. Shape(x)
  BY DEF Sound
<1>2. /\ x2.mounted = x.mounted /\ x2.deleted = x.deleted /\ x2.revision = x.revision
      /\ x2.todo = pages /\ x2.wrote = x.wrote /\ x2.reply = reply
      /\ x2 = [mounted |-> x2.mounted, deleted |-> x2.deleted, revision |-> x2.revision,
               todo |-> x2.todo, wrote |-> x2.wrote, reply |-> x2.reply]
  BY <1>1 DEF Shape
<1>3. ~x.wrote
  BY <1>1 DEF Shape
<1>4. pages \in Seq(Range(pages))
  <2>1. Len(pages) \in Nat /\ pages = [i \in 1..Len(pages) |-> pages[i]]
        /\ DOMAIN pages = 1..Len(pages)
    OBVIOUS
  <2>2. \A i \in 1..Len(pages) : pages[i] \in Range(pages)
    BY <2>1 DEF Range
  <2> QED
    BY <2>1, <2>2
<1>5. Shape(x2)
  BY <1>1, <1>2, <1>4 DEF Shape
<1>6. ~Deleting(x2) /\ ~Deleting(x)
  BY <1>2, <1>3 DEF Deleting
<1>7. Cached(m, x2)
  BY <1>2, <1>6 DEF Sound, Cached
<1>8. Same(I, m, x2, v)
  BY <1>6 DEF Sound, Same
<1>9. AtRest(pr, x2, v)
  BY DEF Sound, AtRest, Unmounted
<1> QED
  BY <1>5, <1>7, <1>8, <1>9 DEF Sound, Pending

(* The answer to a deletion that is on every image.                        *)
LEMMA AnsweredAgain ==
  ASSUME NEW I, NEW m, NEW pr, NEW x, NEW v, Sound(I, m, pr, x, v),
         x.todo = << >>, v \notin Unmounted, NEW t \in Tombstones(m),
         NEW pr2, pr2 = pr \cup {DeleteReply(t)}
  PROVE  Sound(I, m, pr2, x, v)
<1>1. ~Deleting(x)
  BY DEF Deleting, Sound, Shape
<1>2. \A n \in I : t \in Tombstones(n)
  BY <1>1 DEF Sound, Same, Unmounted
<1>3. t \in TombTypes
  BY TombsTyped DEF Sound
<1>4. t = [op |-> t.op, man |-> t.man, rev |-> t.rev]
  BY <1>3 DEF TombTypes
<1>5. TombOf(DeleteReply(t)) = t
  BY <1>4 DEF TombOf, DeleteReply
<1>6. Answered(I, pr2)
  BY <1>2, <1>5 DEF Sound, Answered
<1>7. AtRest(pr2, x, v)
  BY DEF Unmounted, AtRest
<1> QED
  BY <1>6, <1>7 DEF Sound

(* The first of the pages is written.                                      *)
LEMMA PageWritten ==
  ASSUME NEW I, NEW m, NEW pr, NEW x, NEW v, Sound(I, m, pr, x, v),
         x.todo # << >>, ~x.wrote,
         NEW m2, m2 = Written(m, x.todo[1].sector, x.todo[1].page),
         NEW I2, I2 = I \cup {m2},
         NEW x2, x2 = [x EXCEPT !.wrote = TRUE]
  PROVE  Sound(I2, m2, pr, x2, v)
<1>1. Shape(x) /\ WellKept(m) /\ m \in I
  BY DEF Sound
<1>2. /\ x2.mounted = x.mounted /\ x2.deleted = x.deleted /\ x2.revision = x.revision
      /\ x2.todo = x.todo /\ x2.wrote = TRUE /\ x2.reply = x.reply
      /\ x2 = [mounted |-> x2.mounted, deleted |-> x2.deleted, revision |-> x2.revision,
               todo |-> x2.todo, wrote |-> x2.wrote, reply |-> x2.reply]
  BY <1>1 DEF Shape
<1>3. Shape(x2)
  BY <1>1, <1>2 DEF Shape
<1>4. ~Deleting(x) /\ (Deleting(x2) <=> \E q \in x.reply : IsDelete(q))
  BY <1>2 DEF Deleting
<1>5. v \notin Unmounted
  BY DEF Sound, AtRest, NoMetadata
<1>6. AtRest(pr, x2, v)
  BY <1>5 DEF AtRest, Unmounted
<1>7. \A n \in I : Tombstones(n) = Tombstones(m)
  BY <1>4, <1>5 DEF Sound, Same, Unmounted
<1>8. x.todo[1] \in Range(x.todo)
  <2>1. 1 \in DOMAIN x.todo
    BY <1>1 DEF Shape
  <2> QED
    BY <2>1 DEF Range
<1> DEFINE y == x.todo[1]
<1>9. CASE ReceiptsPending(x) \/ (CreationPending(I, x) /\ \A p \in TombPage : y.sector # Tombs(p))
  <2>1. \A p \in TombPage : y.sector # Tombs(p)
    BY <1>8, <1>9, TombSectors DEF ReceiptsPending, IsReceipts
  <2>2. WellKept(m2) /\ \A p \in TombPage : m2[Tombs(p)] = m[Tombs(p)]
    BY <1>1, <2>1, WriteElsewhere
  <2>3. Tombstones(m2) = Tombstones(m) /\ Deleted(m2) = Deleted(m)
    BY <2>2, SameTombs
  <2>4. \A q \in x.reply : ~IsDelete(q)
    BY <1>9 DEF ReceiptsPending, CreationPending
  <2>5. Cached(m2, x2)
    BY <1>2, <1>4, <2>2, <2>3 DEF Sound, Cached
  <2>6. Same(I2, m2, x2, v)
    BY <1>7, <2>3 DEF Same
  <2>7. Answered(I2, pr)
    BY <2>3, <1>1 DEF Sound, Answered
  <2>8. ReceiptsPending(x2) \/ CreationPending(I2, x2)
    BY <1>1, <1>2, <1>9, <2>3 DEF ReceiptsPending, CreationPending
  <2> QED
    BY <1>3, <1>6, <2>2, <2>5, <2>6, <2>7, <2>8 DEF Sound, Pending
<1>10. CASE CreationPending(I, x) /\ \E p \in TombPage : y.sector = Tombs(p)
  <2>1. PICK p \in TombPage : y.sector = Tombs(p)
    BY <1>10
  <2>2. y.page = EmptyTombs
    BY <1>8, <1>10, <2>1, TombSectors DEF CreationPending, IsEmptyPage, IsReceipts
  <2>3. \A n \in I : Tombstones(n) = {}
    BY <1>10 DEF CreationPending
  <2>4. WellKept(m2) /\ Tombstones(m2) = {}
    BY <1>1, <2>1, <2>2, <2>3, EmptyTombPage
  <2>5. ~x2.mounted /\ ~Deleting(x2)
    BY <1>2, <1>4, <1>10 DEF CreationPending
  <2>6. Cached(m2, x2)
    BY <2>5 DEF Cached
  <2>7. Same(I2, m2, x2, v)
    BY <2>3, <2>4 DEF Same
  <2>8. Answered(I2, pr)
    BY <2>3, <2>4, <1>1 DEF Sound, Answered
  <2>9. CreationPending(I2, x2)
    BY <1>2, <1>10, <2>4 DEF CreationPending
  <2> QED
    BY <1>3, <1>6, <2>4, <2>6, <2>7, <2>8, <2>9 DEF Sound, Pending
<1>11. CASE DeletePending(m, x)
  <2>1. PICK t \in TombTypes : x.reply = {DeleteReply(t)} /\ TombPending(m, x, t)
    BY <1>11 DEF DeletePending
  <2>2. PICK p \in TombPage :
          /\ x.todo = <<[sector |-> Tombs(p), page |-> Extended(m, p, t)]>>
          /\ NewTomb(t, Tombstones(m))
    BY <2>1 DEF TombPending
  <2>3. x.mounted /\ \A q \in TombPage : m[Tombs(q)] # Missing
    BY <1>11 DEF DeletePending, Sound, Cached
  <2>4. y.sector = Tombs(p) /\ y.page = Extended(m, p, t) /\ Len(x.todo) = 1
    BY <2>2
  <2>5. /\ WellKept(m2) /\ Tombstones(m2) = Tombstones(m) \cup {t}
        /\ \A q \in TombPage : m2[Tombs(q)] # Missing
    BY <1>1, <2>2, <2>3, <2>4, OneMoreTomb
  <2>6. Deleting(x2)
    BY <1>4, <2>1 DEF IsDelete, DeleteReply
  <2>7. Cached(m2, x2) /\ Same(I2, m2, x2, v)
    BY <2>5, <2>6 DEF Cached, Same
  <2>8. Answered(I2, pr)
    BY <2>5, <1>1 DEF Sound, Answered
  <2>9. TombWritten(m2, x2, t)
    <3>1. UpTo(Tombstones(m2), t.rev)
      <4>1. t.rev \in Nat /\ \A u \in Tombstones(m) : u.rev \in Nat
        BY <1>1, TombsTyped DEF TombTypes
      <4> QED
        BY <2>2, <2>5, <4>1 DEF UpTo, NewTomb
    <3>2. Deleted(m2) = Deleted(m) \cup {t.man.id}
      BY <2>5 DEF Deleted
    <3>3. Deleted(m) \subseteq x.deleted
      BY <1>4, <2>3 DEF Sound, Cached
    <3> QED
      BY <1>2, <2>4, <2>5, <3>1, <3>2, <3>3 DEF TombWritten
  <2>10. DeletePending(m2, x2)
    BY <1>2, <2>1, <2>3, <2>9 DEF DeletePending
  <2> QED
    BY <1>3, <1>6, <2>5, <2>7, <2>8, <2>10 DEF Sound, Pending
<1> QED
  BY <1>9, <1>10, <1>11 DEF Sound, Pending

(* A page is synced, and there are more.                                   *)
LEMMA PageSynced ==
  ASSUME NEW I, NEW m, NEW pr, NEW x, NEW v, Sound(I, m, pr, x, v),
         x.wrote, Len(x.todo) > 1,
         NEW x2, x2 = [x EXCEPT !.todo = Tail(@), !.wrote = FALSE]
  PROVE  Sound({m}, m, pr, x2, v)
<1>1. Shape(x) /\ WellKept(m) /\ m \in I
  BY DEF Sound
<1>2. /\ x2.mounted = x.mounted /\ x2.deleted = x.deleted /\ x2.revision = x.revision
      /\ x2.todo = Tail(x.todo) /\ x2.wrote = FALSE /\ x2.reply = x.reply
      /\ x2 = [mounted |-> x2.mounted, deleted |-> x2.deleted, revision |-> x2.revision,
               todo |-> x2.todo, wrote |-> x2.wrote, reply |-> x2.reply]
  BY <1>1 DEF Shape
<1>3. /\ x2.todo \in Seq(Range(x2.todo)) /\ x2.todo # << >>
      /\ Range(x2.todo) \subseteq Range(x.todo)
  <2> DEFINE S == Range(x.todo)
             l == Tail(x.todo)
  <2>1. x.todo \in Seq(S)
    BY <1>1 DEF Shape
  <2>2. l \in Seq(S) /\ Len(l) = Len(x.todo) - 1 /\ Len(x.todo) \in Nat
    <3> HIDE DEF S
    <3>1. ASSUME NEW s \in Seq(S), Len(s) > 1
          PROVE  Tail(s) \in Seq(S) /\ Len(Tail(s)) = Len(s) - 1 /\ Len(s) \in Nat
      BY ONLY <3>1
    <3> QED
      BY <2>1, <3>1
  <2> HIDE DEF l, S
  <2>3. l = [i \in 1..Len(l) |-> l[i]] /\ DOMAIN l = 1..Len(l) /\ Len(l) \in Nat
        /\ \A i \in 1..Len(l) : l[i] \in S
    BY <2>2
  <2>4. \A i \in 1..Len(l) : l[i] \in Range(l)
    BY <2>3 DEF Range
  <2>5. l \in Seq(Range(l)) /\ Range(l) \subseteq S
    BY <2>3, <2>4 DEF Range
  <2>6. l # << >>
    BY <2>2
  <2> QED
    BY <1>2, <2>5, <2>6 DEF l, S
<1>4. Shape(x2)
  BY <1>1, <1>2, <1>3 DEF Shape
<1>5. ReceiptsPending(x) \/ CreationPending(I, x)
  <2>1. x.todo # << >>
    BY <1>1 DEF Shape
  <2>2. ~DeletePending(m, x)
    <3>1. SUFFICES ASSUME NEW t, TombWritten(m, x, t) PROVE FALSE
      BY DEF DeletePending
    <3>2. Len(x.todo) = 1
      BY <3>1 DEF TombWritten
    <3> QED
      BY <3>2
  <2> QED
    BY <2>1, <2>2 DEF Sound, Pending
<1>6. ReceiptsPending(x2) \/ CreationPending({m}, x2)
  BY <1>1, <1>2, <1>3, <1>5 DEF ReceiptsPending, CreationPending
<1>7. ~Deleting(x) /\ ~Deleting(x2)
  BY <1>2, <1>5 DEF Deleting, ReceiptsPending, CreationPending
<1>8. Cached(m, x2) /\ Same({m}, m, x2, v)
  BY <1>2, <1>7 DEF Sound, Cached, Same
<1>9. Answered({m}, pr)
  BY <1>1 DEF Sound, Answered
<1>10. AtRest(pr, x2, v)
  BY <1>2 DEF Sound, AtRest, NoMetadata
<1> QED
  BY <1>1, <1>4, <1>6, <1>8, <1>9, <1>10 DEF Sound, Pending

(* The last page is synced: the caller gets its reply.                     *)
LEMMA LastPageSynced ==
  ASSUME NEW I, NEW m, NEW pr, NEW x, NEW v, Sound(I, m, pr, x, v),
         x.wrote, ~(Len(x.todo) > 1),
         NEW x2, x2 = [x EXCEPT !.todo = << >>, !.wrote = FALSE, !.reply = {},
                 !.deleted = @ \cup {q.man.id : q \in {q \in x.reply : q.kind = "delete"}},
                 !.revision = IF \E q \in x.reply : q.kind = "delete"
                              THEN (CHOOSE q \in x.reply : q.kind = "delete").rev ELSE @],
         NEW pr2, pr2 = pr \cup x.reply
  PROVE  Sound({m}, m, pr2, x2, v)
<1>1. Shape(x) /\ WellKept(m) /\ m \in I
  BY DEF Sound
<1> DEFINE deletes == {q \in x.reply : q.kind = "delete"}
           ids == {q.man.id : q \in deletes}
           rev == IF \E q \in x.reply : q.kind = "delete"
                  THEN (CHOOSE q \in x.reply : q.kind = "delete").rev ELSE x.revision
<1>2. x2 = [x EXCEPT !.todo = << >>, !.wrote = FALSE, !.reply = {}, !.deleted = @ \cup ids,
                     !.revision = rev]
  OBVIOUS
<1> HIDE DEF ids, rev
<1>3. /\ x2.mounted = x.mounted /\ x2.deleted = x.deleted \cup ids /\ x2.revision = rev
      /\ x2.todo = << >> /\ x2.wrote = FALSE /\ x2.reply = {}
      /\ x2 = [mounted |-> x2.mounted, deleted |-> x2.deleted, revision |-> x2.revision,
               todo |-> x2.todo, wrote |-> x2.wrote, reply |-> x2.reply]
  BY <1>1, <1>2 DEF Shape
<1>4. x.todo # << >>
  BY <1>1 DEF Shape
<1>5. v \notin Unmounted
  BY <1>4 DEF Sound, AtRest, NoMetadata
<1>6. AtRest(pr2, x2, v)
  BY <1>5 DEF AtRest, Unmounted
<1>7. Pending({m}, m, x2) /\ Same({m}, m, x2, v) /\ ~Deleting(x2)
  BY <1>3 DEF Pending, Same, Deleting
<1>8. << >> \in Seq(Range(<< >>))
  OBVIOUS
<1>9. CASE ReceiptsPending(x) \/ CreationPending(I, x)
  <2>1. \A q \in x.reply : ~IsDelete(q)
    BY <1>9 DEF ReceiptsPending, CreationPending
  <2>2. ids = {} /\ rev = x.revision
    BY <2>1 DEF ids, rev, IsDelete
  <2>3. Shape(x2)
    <3>1. x2.deleted = x.deleted /\ x2.revision = x.revision
      BY <1>3, <2>2
    <3> QED
      BY <1>1, <1>3, <1>8, <3>1 DEF Shape
  <2>4. ~Deleting(x)
    BY <2>1 DEF Deleting
  <2>5. Cached(m, x2)
    BY <1>3, <2>2, <2>4 DEF Sound, Cached
  <2>6. Answered({m}, pr2)
    BY <1>1, <2>1 DEF Sound, Answered
  <2> QED
    BY <1>1, <1>6, <1>7, <2>3, <2>5, <2>6 DEF Sound
<1>10. CASE DeletePending(m, x)
  <2>1. PICK t \in TombTypes : x.mounted /\ x.reply = {DeleteReply(t)} /\ TombWritten(m, x, t)
    BY <1>10 DEF DeletePending
  <2> DEFINE q == DeleteReply(t)
  <2>2. q.kind = "delete" /\ q.man = t.man /\ q.rev = t.rev /\ IsDelete(q) /\ TombOf(q) = t
    BY DEF DeleteReply, IsDelete, TombOf, TombTypes
  <2> HIDE DEF q
  <2>3. x.reply = {q}
    BY <2>1 DEF q
  <2>4. ids = {t.man.id} /\ rev = t.rev
    BY <2>2, <2>3 DEF ids, rev
  <2>5. Shape(x2)
    <3>1. IsFiniteSet(x.deleted \cup {t.man.id})
      BY <1>1, FS_AddElement DEF Shape
    <3>2. t.rev \in Nat
      BY DEF TombTypes
    <3> QED
      BY <1>1, <1>3, <1>8, <2>4, <3>1, <3>2 DEF Shape
  <2>6. Cached(m, x2)
    BY <1>3, <2>1, <2>4 DEF Sound, Cached, TombWritten
  <2>7. Answered({m}, pr2)
    <3>1. q = DeleteReply(TombOf(q)) /\ TombOf(q) \in Tombstones(m)
      BY <2>1, <2>2 DEF q, TombWritten
    <3> QED
      BY <1>1, <2>3, <3>1 DEF Sound, Answered
  <2> QED
    BY <1>1, <1>6, <1>7, <2>5, <2>6, <2>7 DEF Sound
<1> QED
  BY <1>4, <1>9, <1>10 DEF Sound, Pending

(* The pages of a creation are empty pages.                                *)
EmptyPages == {[sector |-> Receipts(p), page |-> EmptyReceipts] : p \in ReceiptPage}
              \cup {[sector |-> Tombs(p), page |-> EmptyTombs] : p \in TombPage}
              \cup {[sector |-> MetaRoot, page |-> MetaPage]}

(* The pages are numbered from zero.                                       *)
LEMMA Counts ==
  /\ (Slots - 1) \div SlotsPerPage \in Nat /\ ReceiptPage = 0..(Slots - 1) \div SlotsPerPage
  /\ TombPages - 1 \in Nat /\ TombPage = 0..TombPages-1
BY LayoutAssumption DEF LayoutAssumption, ReceiptPage, TombPage

(* The receipt pages of a creation.                                        *)
LEMMA CreateReceipts ==
  PagesOf(ReceiptPage, Receipts, EmptyReceipts) \in Seq(EmptyPages)
<1> DEFINE K == (Slots - 1) \div SlotsPerPage
           e(n) == <<[sector |-> Receipts(n), page |-> EmptyReceipts]>>
           g == [n \in 0..K |-> e(n)]
           Body(f, n) == IF n \notin ReceiptPage THEN << >> ELSE e(n) \o f[n + 1]
           Solves(f) == f = [n \in Nat |-> Body(f, n)]
           next == CHOOSE f : Solves(f)
<1>1. K \in Nat /\ ReceiptPage = 0..K
  BY Counts
<1>2. g \in [0..K -> Seq(EmptyPages)]
  <2> SUFFICES ASSUME NEW n \in 0..K PROVE e(n) \in Seq(EmptyPages)
    OBVIOUS
  <2> DEFINE y == [sector |-> Receipts(n), page |-> EmptyReceipts]
  <2>1. y \in EmptyPages
    BY <1>1 DEF EmptyPages
  <2> HIDE DEF y
  <2>2. <<y>> \in Seq(EmptyPages)
    BY <2>1
  <2> QED
    BY <2>2 DEF y
<1>3. \A f : Solves(f) <=> f = [n \in Nat |-> IF n \notin 0..K THEN << >> ELSE g[n] \o f[n + 1]]
  <2> TAKE f
  <2>1. \A n \in Nat : Body(f, n) = IF n \notin 0..K THEN << >> ELSE g[n] \o f[n + 1]
    <3> HIDE DEF e
    <3> QED
      BY <1>1
  <2> HIDE DEF Body
  <2> QED
    BY <2>1
<1>4. \E f : Solves(f)
  <2>1. \E f : f = [n \in Nat |-> IF n \notin 0..K THEN << >> ELSE g[n] \o f[n + 1]]
    <3> HIDE DEF g, K
    <3> QED
      BY <1>1, <1>2, UpwardRecursion
  <2> HIDE DEF g, K, Solves
  <2> QED
    BY <2>1, <1>3
<1>5. Solves(next)
  <2> HIDE DEF Solves
  <2> QED
    BY <1>4
<1>6. next[0] \in Seq(EmptyPages)
  <2> HIDE DEF g, K, Solves, next
  <2> QED
    BY <1>1, <1>2, <1>3, <1>5, UpwardType
<1> QED
  BY <1>6 DEF PagesOf

(* The tombstone pages of a creation.                                      *)
LEMMA CreateTombs ==
  PagesOf(TombPage, Tombs, EmptyTombs) \in Seq(EmptyPages)
<1> DEFINE K == TombPages - 1
           e(n) == <<[sector |-> Tombs(n), page |-> EmptyTombs]>>
           g == [n \in 0..K |-> e(n)]
           Body(f, n) == IF n \notin TombPage THEN << >> ELSE e(n) \o f[n + 1]
           Solves(f) == f = [n \in Nat |-> Body(f, n)]
           next == CHOOSE f : Solves(f)
<1>1. K \in Nat /\ TombPage = 0..K
  BY Counts
<1>2. g \in [0..K -> Seq(EmptyPages)]
  <2> SUFFICES ASSUME NEW n \in 0..K PROVE e(n) \in Seq(EmptyPages)
    OBVIOUS
  <2> DEFINE y == [sector |-> Tombs(n), page |-> EmptyTombs]
  <2>1. y \in EmptyPages
    BY <1>1 DEF EmptyPages
  <2> HIDE DEF y
  <2>2. <<y>> \in Seq(EmptyPages)
    BY <2>1
  <2> QED
    BY <2>2 DEF y
<1>3. \A f : Solves(f) <=> f = [n \in Nat |-> IF n \notin 0..K THEN << >> ELSE g[n] \o f[n + 1]]
  <2> TAKE f
  <2>1. \A n \in Nat : Body(f, n) = IF n \notin 0..K THEN << >> ELSE g[n] \o f[n + 1]
    <3> HIDE DEF e
    <3> QED
      BY <1>1
  <2> HIDE DEF Body
  <2> QED
    BY <2>1
<1>4. \E f : Solves(f)
  <2>1. \E f : f = [n \in Nat |-> IF n \notin 0..K THEN << >> ELSE g[n] \o f[n + 1]]
    <3> HIDE DEF g, K
    <3> QED
      BY <1>1, <1>2, UpwardRecursion
  <2> HIDE DEF g, K, Solves
  <2> QED
    BY <2>1, <1>3
<1>5. Solves(next)
  <2> HIDE DEF Solves
  <2> QED
    BY <1>4
<1>6. next[0] \in Seq(EmptyPages)
  <2> HIDE DEF g, K, Solves, next
  <2> QED
    BY <1>1, <1>2, <1>3, <1>5, UpwardType
<1> QED
  BY <1>6 DEF PagesOf

(* What a creation writes.                                                 *)
LEMMA CreationPages ==
  /\ CreatePages \in Seq(EmptyPages) /\ CreatePages # << >>
  /\ \A y \in EmptyPages : IsEmptyPage(y)
<1> DEFINE a == PagesOf(ReceiptPage, Receipts, EmptyReceipts)
           b == PagesOf(TombPage, Tombs, EmptyTombs)
           y == [sector |-> MetaRoot, page |-> MetaPage]
<1>1. a \in Seq(EmptyPages) /\ b \in Seq(EmptyPages)
  BY CreateReceipts, CreateTombs
<1>2. y \in EmptyPages
  BY DEF EmptyPages
<1>3. CreatePages = (a \o b) \o <<y>>
  BY DEF CreatePages
<1> HIDE DEF a, b, y
<1>4. CreatePages \in Seq(EmptyPages) /\ CreatePages # << >>
  BY <1>1, <1>2, <1>3
<1>5. \A z \in EmptyPages : IsEmptyPage(z)
  BY DEF EmptyPages, IsEmptyPage, IsReceipts
<1> QED
  BY <1>4, <1>5

(* Receipts change receipt pages only.                                     *)
ReceiptWrite(fs, p) ==
  LET changed == {s \in DOMAIN fs : ReceiptAt(Image, s) # fs[s]}
  IN [Image[Receipts(p)] EXCEPT !.entries =
        [s \in SlotNo |-> IF s \in changed /\ s \div SlotsPerPage = p THEN fs[s] ELSE @[s]]]
ReceiptWrites(fs) == {[sector |-> Receipts(p), page |-> ReceiptWrite(fs, p)] : p \in ReceiptPage}

(* The pages of some receipts are among these, and every page that changes *)
(* is one of them.                                                         *)
LEMMA ReceiptPages ==
  ASSUME NEW fs
  PROVE  /\ ReceiptPagesOf(fs) \in Seq(ReceiptWrites(fs))
         /\ \A y \in ReceiptWrites(fs) : IsReceipts(y.sector)
         /\ \A s \in DOMAIN fs, p \in ReceiptPage :
              s \div SlotsPerPage = p /\ ReceiptAt(Image, s) # fs[s] =>
                [sector |-> Receipts(p), page |-> ReceiptWrite(fs, p)] \in Range(ReceiptPagesOf(fs))
<1> DEFINE K == (Slots - 1) \div SlotsPerPage
           changed == {s \in DOMAIN fs : ReceiptAt(Image, s) # fs[s]}
           page(p) == [Image[Receipts(p)] EXCEPT !.entries =
                         [s \in SlotNo |-> IF s \in changed /\ s \div SlotsPerPage = p
                                           THEN fs[s] ELSE @[s]]]
           e(n) == (IF \E s \in changed : s \div SlotsPerPage = n
                    THEN <<[sector |-> Receipts(n), page |-> page(n)]>> ELSE << >>)
           g == [n \in 0..K |-> e(n)]
           Body(f, n) == IF n \notin ReceiptPage THEN << >> ELSE e(n) \o f[n + 1]
           Solves(f) == f = [n \in Nat |-> Body(f, n)]
           next == CHOOSE f : Solves(f)
<1>1. K \in Nat /\ ReceiptPage = 0..K
  BY Counts
<1>2. g \in [0..K -> Seq(ReceiptWrites(fs))]
  <2> SUFFICES ASSUME NEW n \in 0..K PROVE e(n) \in Seq(ReceiptWrites(fs))
    OBVIOUS
  <2> DEFINE y == [sector |-> Receipts(n), page |-> ReceiptWrite(fs, n)]
  <2>1. y \in ReceiptWrites(fs)
    BY <1>1 DEF ReceiptWrites
  <2>2. e(n) = IF \E s \in changed : s \div SlotsPerPage = n THEN <<y>> ELSE << >>
    BY DEF ReceiptWrite
  <2> HIDE DEF y, e
  <2>3. <<y>> \in Seq(ReceiptWrites(fs)) /\ << >> \in Seq(ReceiptWrites(fs))
    BY <2>1
  <2> QED
    BY <2>2, <2>3
<1>3. \A f : Solves(f) <=> f = [n \in Nat |-> IF n \notin 0..K THEN << >> ELSE g[n] \o f[n + 1]]
  <2> TAKE f
  <2>1. \A n \in Nat : Body(f, n) = IF n \notin 0..K THEN << >> ELSE g[n] \o f[n + 1]
    <3> HIDE DEF e
    <3> QED
      BY <1>1
  <2> HIDE DEF Body
  <2> QED
    BY <2>1
<1>4. \E f : Solves(f)
  <2>1. \E f : f = [n \in Nat |-> IF n \notin 0..K THEN << >> ELSE g[n] \o f[n + 1]]
    <3> HIDE DEF g, K
    <3> QED
      BY <1>1, <1>2, UpwardRecursion
  <2> HIDE DEF g, K, Solves
  <2> QED
    BY <2>1, <1>3
<1>5. Solves(next)
  <2> HIDE DEF Solves
  <2> QED
    BY <1>4
<1>6. next[0] \in Seq(ReceiptWrites(fs))
  <2> HIDE DEF g, K, Solves, next
  <2> QED
    BY <1>1, <1>2, <1>3, <1>5, UpwardType
<1>7. ReceiptPagesOf(fs) = next[0]
  BY DEF ReceiptPagesOf
<1>8. ASSUME NEW s \in DOMAIN fs, NEW p \in ReceiptPage, s \div SlotsPerPage = p,
             ReceiptAt(Image, s) # fs[s]
      PROVE  [sector |-> Receipts(p), page |-> ReceiptWrite(fs, p)] \in Range(ReceiptPagesOf(fs))
  <2> DEFINE y == [sector |-> Receipts(p), page |-> ReceiptWrite(fs, p)]
  <2>1. g[p] = <<y>>
    <3>1. s \in changed /\ p \in 0..K
      BY <1>1, <1>8
    <3>2. g[p] = e(p)
      <4> HIDE DEF e
      <4> QED
        BY <3>1
    <3> HIDE DEF changed
    <3>3. e(p) = <<[sector |-> Receipts(p), page |-> page(p)]>>
      BY <1>8, <3>1
    <3> QED
      BY <3>2, <3>3 DEF ReceiptWrite, changed
  <2> HIDE DEF y
  <2>2. y \in Range(g[p])
    <3>1. \A z : z \in Range(<<z>>)
      BY DEF Range
    <3> QED
      BY ONLY <2>1, <3>1
  <2>3. Range(g[p]) \subseteq Range(next[0])
    <3> HIDE DEF g, K, Solves, next
    <3> QED
      BY <1>1, <1>2, <1>3, <1>5, UpwardRange
  <2>4. y \in Range(next[0])
    BY ONLY <2>2, <2>3
  <2> HIDE DEF next
  <2> QED
    BY <1>7, <2>4 DEF y
<1>9. \A y \in ReceiptWrites(fs) : IsReceipts(y.sector)
  BY DEF ReceiptWrites, IsReceipts
<1> HIDE DEF next
<1> QED
  BY <1>6, <1>7, <1>8, <1>9
-----------------------------------------------------------------------------
(* The actions.                                                            *)

(* The map is left alone, synced, or written where no tombstone is.        *)
Elsewhere ==
  \/ versions' = versions
  \/ rns_sync
  \/ \E s, page : (\A p \in TombPage : s # Tombs(p)) /\ rns_write(s, page)

(* Deletions that are promised were promised before.                       *)
NoNewDelete == \A q \in promised' : q \in promised \/ ~IsDelete(q)

(* A step of anybody but the metadata.                                     *)
LEMMA QuietStep ==
  ASSUME DeleteInv, Elsewhere, NoNewDelete, UNCHANGED rsm, vol # "FENCED",
         AtRest(promised', rsm, vol')
  PROVE  DeleteInv'
<1>1. Chain(versions) /\ Sound(Images, Image, promised, rsm, vol)
  BY DEF DeleteInv
<1>2. WellKept(Image) /\ Image \in Images
  BY <1>1 DEF Sound
<1>3. /\ Chain(versions') /\ Image' \in Images' /\ Images' \subseteq Images \cup {Image'}
      /\ WellKept(Image') /\ \A p \in TombPage : Image'[Tombs(p)] = Image[Tombs(p)]
  <2>1. CASE versions' = versions
    BY <1>1, <1>2, <2>1 DEF Images, Image
  <2>2. CASE rns_sync
    <3>1. versions' = <<Image>>
      BY <2>2 DEF rns_sync
    <3>2. Chain(versions') /\ Range(versions') = {Image} /\ versions'[Len(versions')] = Image
      BY <3>1, Synced
    <3>3. Images' = {Image} /\ Image' = Image
      BY <3>2 DEF Images, Image
    <3> QED
      BY <1>2, <3>2, <3>3
  <2>3. CASE \E s, page : (\A p \in TombPage : s # Tombs(p)) /\ rns_write(s, page)
    <3>1. PICK s, page : (\A p \in TombPage : s # Tombs(p)) /\ rns_write(s, page)
      BY <2>3
    <3> DEFINE m2 == Written(Image, s, page)
    <3>2. versions' = Append(versions, m2)
      BY <3>1 DEF rns_write, Written
    <3> HIDE DEF m2
    <3>3. /\ Chain(versions') /\ Range(versions') = Range(versions) \cup {m2}
          /\ versions'[Len(versions')] = m2
      BY <1>1, <3>2, Appended
    <3>4. Images' = Images \cup {m2} /\ Image' = m2
      BY <3>3 DEF Images, Image
    <3>5. WellKept(m2) /\ \A p \in TombPage : m2[Tombs(p)] = Image[Tombs(p)]
      BY <1>2, <3>1, WriteElsewhere DEF m2
    <3> QED
      BY <3>3, <3>4, <3>5
  <2> QED
    BY <2>1, <2>2, <2>3 DEF Elsewhere
<1>4. Sound(Images', Image', promised', rsm, vol')
  BY <1>1, <1>3, Unrelated DEF NoNewDelete
<1> QED
  BY <1>3, <1>4 DEF DeleteInv

(* A step after which the metadata is another, on the same map.            *)
LEMMA SameMap ==
  ASSUME DeleteInv, UNCHANGED versions, Sound(Images, Image, promised', rsm', vol')
  PROVE  DeleteInv'
<1>1. Images' = Images /\ Image' = Image
  BY DEF Images, Image
<1> QED
  BY <1>1 DEF DeleteInv

(* No job of the object store touches the tombstones or promises deletions.*)
LEMMA StoreQuiet ==
  ASSUME StoreStep
  PROVE  Elsewhere /\ NoNewDelete
<1>1. CASE UNCHANGED <<versions, promised>>
  BY <1>1 DEF Elsewhere, NoNewDelete
<1>2. CASE UNCHANGED promised /\ rns_sync
  BY <1>2 DEF Elsewhere, NoNewDelete
<1>3. CASE UNCHANGED promised /\ \E r, page : rns_write(Root(r), page)
  BY <1>3, TombSectors DEF Elsewhere, NoNewDelete
<1>4. CASE UNCHANGED promised /\ \E s, page : rns_write(Slot(s), page)
  BY <1>4, TombSectors DEF Elsewhere, NoNewDelete
<1>5. CASE UNCHANGED promised /\ \E s, i, page : rns_write(Data(s, i), page)
  BY <1>5, TombSectors DEF Elsewhere, NoNewDelete
<1>6. CASE \E id \in Recs : ros_reserve(id)
  BY <1>6, <1>1 DEF ros_reserve
<1>7. CASE ros_prepare \/ ros_prepare_deferred \/ ros_finalize
  BY <1>7, <1>1 DEF ros_prepare, ros_prepare_deferred, Prepare, ros_finalize
<1>8. CASE WriteRoot
  BY <1>8, <1>3 DEF WriteRoot
<1>9. CASE SyncRoot \/ SyncIntent \/ SyncCommit
  BY <1>9, <1>2 DEF SyncRoot, SyncIntent, SyncCommit
<1>10. CASE VerifyRoot \/ VerifyIntent \/ Seal \/ VerifyPayload \/ VerifyCommit \/ ros_finish
  BY <1>10, <1>1 DEF VerifyRoot, VerifyIntent, Seal, VerifyPayload, VerifyCommit, ros_finish
<1>11. CASE WriteIntent \/ WriteCommit
  BY <1>11, <1>4 DEF WriteIntent, WriteCommit
<1>12. CASE WritePayload
  BY <1>12, <1>1, <1>5 DEF WritePayload
<1>13. CASE ros_take_segment_receipt
  BY <1>13 DEF ros_take_segment_receipt, Elsewhere, NoNewDelete, IsDelete
<1>14. CASE ros_take_final_receipt
  BY <1>14 DEF ros_take_final_receipt, Elsewhere, NoNewDelete, IsDelete
<1> QED
  BY <1>6, <1>7, <1>8, <1>9, <1>10, <1>11, <1>12, <1>13, <1>14 DEF StoreStep

(* A reset keeps some image, and a fence keeps them all.                   *)
LEMMA ForgetStep ==
  ASSUME DeleteInv, Fence \/ Reset
  PROVE  DeleteInv'
<1>1. Chain(versions) /\ Sound(Images, Image, promised, rsm, vol)
  BY DEF DeleteInv
<1>2. CASE Fence
  <2>1. UNCHANGED <<versions, promised>> /\ vol' = "FENCED" /\ rsm' = NoMetadata
    BY <1>2 DEF Fence, Forget
  <2>2. Image \in Images
    BY <1>1 DEF Sound
  <2>3. Sound(Images, Image, promised, NoMetadata, vol')
    BY <1>1, <2>1, <2>2, Forgotten
  <2> QED
    BY <2>1, <2>3, SameMap
<1>3. CASE Reset
  <2>1. promised' = promised /\ rsm' = NoMetadata /\ vol' \notin {"FORMATTING", "ERASING"}
    BY <1>3 DEF Reset, Forget, Configured
  <2>2. PICK i \in DOMAIN versions : versions' = <<versions[i]>>
    BY <1>3 DEF Reset, Cut
  <2>3. versions[i] \in Images
    BY <1>1, LastImage DEF Images
  <2>4. /\ Chain(versions') /\ Range(versions') = {versions[i]}
        /\ versions'[Len(versions')] = versions[i]
    BY <2>2, Synced
  <2>5. Images' = {versions[i]} /\ Image' = versions[i]
    BY <2>4 DEF Images, Image
  <2>6. Sound(Images', Image', promised, NoMetadata, vol')
    BY <1>1, <2>1, <2>3, <2>5, Forgotten
  <2> QED
    BY <2>1, <2>4, <2>6 DEF DeleteInv
<1> QED
  BY <1>2, <1>3

(* A volume is formatted only when nothing is promised any more.           *)
LEMMA FormatStep ==
  ASSUME DeleteInv, Format
  PROVE  DeleteInv'
<1>1. Sound(Images, Image, promised, rsm, vol)
  BY DEF DeleteInv
<1>2. /\ vol \in {"FORMATTING", "ERASING"} /\ vol' \in {"PROVISIONING", "RESETTING"}
      /\ versions' = <<Formatted>> /\ promised' = promised /\ rsm' = rsm
  BY DEF Format, rns_format
<1>3. promised = {} /\ rsm = NoMetadata
  BY <1>1, <1>2 DEF Sound, AtRest, Unmounted
<1>4. Chain(versions') /\ Images' = {Formatted} /\ Image' = Formatted
  BY <1>2, Synced DEF Images, Image
<1> DEFINE none == NoMetadata
<1>5. Shape(none) /\ none.todo = << >> /\ ~none.mounted
  BY <1>1, <1>3 DEF Sound, NoMetadata
<1>6. Cached(Formatted, none) /\ Pending({Formatted}, Formatted, none)
  <2> HIDE DEF none
  <2> QED
    BY <1>5 DEF Cached, Pending
<1>7. Sound({Formatted}, Formatted, {}, none, vol')
  <2> HIDE DEF none
  <2> QED
    BY <1>2, <1>5, <1>6, FormattedTombs DEF Sound, Answered, Same, AtRest, Unmounted
<1> QED
  BY <1>2, <1>3, <1>4, <1>7 DEF DeleteInv

(* The metadata is opened.                                                 *)
LEMMA OpenStep ==
  ASSUME DeleteInv, OpenMetadata \/ \E s \in {"RECORDING", "SYNCING"} : Mount(s)
  PROVE  DeleteInv'
<1>1. Sound(Images, Image, promised, rsm, vol)
  BY DEF DeleteInv
<1>2. /\ MetadataValid(Image) /\ rsm' = Opened /\ UNCHANGED <<versions, promised>>
      /\ vol # "FENCED" /\ vol' \notin Unmounted
  BY DEF OpenMetadata, Mount, Creating, Unmounted
<1>3. rsm.todo = << >>
  <2>1. CASE OpenMetadata
    BY <2>1 DEF OpenMetadata, Idle
  <2>2. CASE \E s \in {"RECORDING", "SYNCING"} : Mount(s)
    <3>1. vol = "CONFIGURED"
      BY <2>2 DEF Mount
    <3> QED
      BY <1>1, <3>1 DEF Sound, AtRest, Unmounted, NoMetadata
  <2> QED
    BY <2>1, <2>2
<1>4. \A p \in TombPage : Image[Tombs(p)] # Missing
  BY <1>2 DEF MetadataValid, Companions
<1>5. Sound(Images, Image, promised, rsm', vol')
  BY <1>1, <1>2, <1>3, <1>4, Reopened DEF Opened
<1> QED
  BY <1>2, <1>5, SameMap

(* The pages of a creation are queued.                                     *)
LEMMA CreateStep ==
  ASSUME DeleteInv, CreateMetadata
  PROVE  DeleteInv'
<1>1. Sound(Images, Image, promised, rsm, vol)
  BY DEF DeleteInv
<1>2. /\ Creating /\ ~rsm.mounted /\ rsm.todo = << >> /\ AllMissing(Image)
      /\ rsm' = [rsm EXCEPT !.todo = CreatePages] /\ UNCHANGED <<versions, promised, vol>>
  BY DEF CreateMetadata, Idle
<1>3. Shape(rsm) /\ rsm.reply = {} /\ ~rsm.wrote
  BY <1>1, <1>2 DEF Sound, Shape
<1>4. rsm' = [rsm EXCEPT !.todo = CreatePages, !.reply = {}]
  BY <1>2, <1>3 DEF Shape
<1>5. rsm'.mounted = rsm.mounted /\ rsm'.todo = CreatePages /\ rsm'.reply = {}
  BY <1>3, <1>4 DEF Shape
<1>6. \A p \in TombPage : TombList(Image, p) = << >>
  BY <1>2 DEF AllMissing, Companions, TombList
<1>7. Tombstones(Image) = {}
  BY <1>6 DEF Tombstones, Range
<1>8. vol \notin Unmounted
  BY <1>2 DEF Creating, Unmounted
<1>9. \A n \in Images : Tombstones(n) = {}
  BY <1>1, <1>3, <1>7, <1>8 DEF Sound, Same, Deleting, Unmounted
<1>10. \A y \in Range(CreatePages) : IsEmptyPage(y)
  <2>1. \A i \in DOMAIN CreatePages : CreatePages[i] \in EmptyPages
    BY CreationPages
  <2> QED
    BY <2>1, CreationPages DEF Range
<1>11. CreationPending(Images, rsm')
  BY <1>2, <1>5, <1>9, <1>10 DEF CreationPending
<1>12. Sound(Images, Image, promised, rsm', vol)
  BY <1>1, <1>2, <1>4, <1>8, <1>11, CreationPages, Queued
<1> QED
  BY <1>2, <1>12, SameMap

(* Receipts: answered at once, or their pages are queued.                  *)
LEMMA ReceiveStep ==
  ASSUME DeleteInv, NEW fs, rsm_receive_slots(fs), vol = "SYNCING", UNCHANGED vol
  PROVE  DeleteInv'
<1>1. Sound(Images, Image, promised, rsm, vol)
  BY DEF DeleteInv
<1> DEFINE reply == {[kind |-> "receipt", id |-> fs[s].id, seq |-> fs[s].seq] : s \in DOMAIN fs}
           pages == ReceiptPagesOf(fs)
<1>2. /\ rsm.mounted /\ rsm.todo = << >> /\ UNCHANGED versions
      /\ IF pages = << >>
         THEN promised' = promised \cup reply /\ UNCHANGED rsm
         ELSE rsm' = [rsm EXCEPT !.todo = pages, !.reply = reply] /\ UNCHANGED promised
  BY DEF rsm_receive_slots, Idle
<1>3. \A q \in reply : ~IsDelete(q)
  BY DEF IsDelete
<1>4. pages \in Seq(ReceiptWrites(fs)) /\ \A y \in ReceiptWrites(fs) : IsReceipts(y.sector)
  BY ReceiptPages
<1> HIDE DEF reply, pages
<1>5. CASE pages = << >>
  <2>1. NoNewDelete /\ Elsewhere /\ UNCHANGED rsm
    BY <1>2, <1>3, <1>5 DEF NoNewDelete, Elsewhere
  <2>2. AtRest(promised', rsm, vol')
    BY DEF AtRest, Unmounted
  <2> QED
    BY <2>1, <2>2, QuietStep
<1>6. CASE pages # << >>
  <2>1. rsm' = [rsm EXCEPT !.todo = pages, !.reply = reply] /\ promised' = promised
    BY <1>2, <1>6
  <2>2. Shape(rsm)
    BY <1>1 DEF Sound
  <2>3. rsm'.mounted = rsm.mounted /\ rsm'.todo = pages /\ rsm'.reply = reply
    BY <2>1, <2>2 DEF Shape
  <2>4. \A y \in Range(pages) : IsReceipts(y.sector)
    <3>1. \A i \in DOMAIN pages : pages[i] \in ReceiptWrites(fs)
      BY <1>4
    <3> QED
      BY <3>1, <1>4 DEF Range
  <2>5. ReceiptsPending(rsm')
    BY <1>2, <1>3, <2>3, <2>4 DEF ReceiptsPending
  <2>6. vol \notin Unmounted
    BY DEF Unmounted
  <2>7. Sound(Images, Image, promised, rsm', vol)
    BY <1>1, <1>2, <1>4, <1>6, <2>1, <2>5, <2>6, Queued
  <2> QED
    BY <1>2, <2>1, <2>7, SameMap
<1> QED
  BY <1>5, <1>6

(* A deletion that was made before is answered from its tombstone.         *)
LEMMA ReplayStep ==
  ASSUME DeleteInv, NEW op, NEW man, rsm_replay_delete(op, man), vol = "SYNCING", UNCHANGED vol
  PROVE  DeleteInv'
<1>1. Sound(Images, Image, promised, rsm, vol)
  BY DEF DeleteInv
<1>2. rsm.todo = << >> /\ UNCHANGED <<versions, rsm>> /\ ~Conflict(op, man)
  BY DEF rsm_replay_delete, Idle
<1>3. PICK t \in Tombstones(Image) :
        /\ t.op = op
        /\ promised' = promised \cup {[kind |-> "delete", op |-> op, man |-> man, rev |-> t.rev]}
  BY DEF rsm_replay_delete
<1>4. t.man = man
  BY <1>2, <1>3 DEF Conflict
<1>5. promised' = promised \cup {DeleteReply(t)}
  BY <1>3, <1>4 DEF DeleteReply
<1>6. Sound(Images, Image, promised', rsm, vol)
  BY <1>1, <1>2, <1>5, AnsweredAgain DEF Unmounted
<1> QED
  BY <1>2, <1>6, SameMap

(* A new deletion: its tombstone has its own operation, recording and      *)
(* revision, and there is room for it.                                     *)
LEMMA DeleteStep ==
  ASSUME DeleteInv, NEW op \in Ops, NEW man \in Manifests, rsm_delete(op, man),
         vol = "SYNCING", UNCHANGED vol
  PROVE  DeleteInv'
<1>1. Sound(Images, Image, promised, rsm, vol) /\ WellKept(Image) /\ Shape(rsm)
  BY DEF DeleteInv, Sound
<1> DEFINE n == Cardinality(rsm.deleted)
           p == n \div TombsPerPage
           rev == NextRevision(man)
           t == [op |-> op, man |-> man, rev |-> rev]
           page == [Image[Tombs(p)] EXCEPT !.list = Append(@, t)]
           reply == {[kind |-> "delete", op |-> op, man |-> man, rev |-> rev]}
           pages == <<[sector |-> Tombs(p), page |-> page]>>
<1>2. /\ rsm.mounted /\ rsm.todo = << >> /\ UNCHANGED <<versions, promised>>
      /\ \A u \in Tombstones(Image) : u.op # op /\ u.man # man
      /\ man.id \notin rsm.deleted /\ n < TombPages * TombsPerPage
      /\ rsm' = [rsm EXCEPT !.todo = pages, !.reply = reply]
  BY DEF rsm_delete, Idle, Publishing
<1>3. p \in TombPage
  <2>1. n \in Nat
    BY <1>1, FS_CardinalityType DEF Shape
  <2> HIDE DEF n
  <2>2. \A a, b, c \in Nat : c > 0 /\ a < b * c => a \div c \in Nat /\ a \div c < b
    <3> SUFFICES ASSUME NEW a \in Nat, NEW b \in Nat, NEW c \in Nat, c > 0, a < b * c
                 PROVE  a \div c \in Nat /\ a \div c < b
      OBVIOUS
    <3> DEFINE d == a \div c
    <3>1. d \in Nat /\ d * c <= a
      OBVIOUS
    <3> HIDE DEF d
    <3>2. d >= b => d * c >= b * c
      BY <3>1
    <3>3. d * c \in Nat /\ b * c \in Nat
      BY <3>1
    <3> QED
      BY <3>1, <3>2, <3>3 DEF d
  <2>3. TombPages \in Nat /\ TombsPerPage \in Nat /\ TombsPerPage > 0
    BY LayoutAssumption DEF LayoutAssumption
  <2>4. p \in Nat /\ p < TombPages
    BY <1>2, <2>1, <2>2, <2>3
  <2> HIDE DEF p
  <2> QED
    BY <2>3, <2>4 DEF TombPage
<1> HIDE DEF p, n
<1>4. rev \in Nat /\ rev > rsm.revision
  <2>1. rsm.revision \in Nat /\ man.segments \in Nat /\ man.state \in Nat
    BY <1>1, LayoutAssumption DEF Shape, Manifests, LayoutAssumption
  <2> QED
    BY <2>1 DEF NextRevision, Revision
<1> HIDE DEF rev
<1>5. t \in TombTypes /\ t.op = op /\ t.man = man /\ t.rev = rev
  BY <1>4 DEF TombTypes
<1>6. reply = {DeleteReply(t)}
  BY <1>5 DEF DeleteReply
<1> HIDE DEF reply, t
<1>7. ~Deleting(rsm)
  BY <1>1, <1>2 DEF Deleting, Shape
<1>8. /\ \A q \in TombPage : Image[Tombs(q)] # Missing
      /\ Deleted(Image) \subseteq rsm.deleted /\ UpTo(Tombstones(Image), rsm.revision)
  BY <1>1, <1>2, <1>7 DEF Sound, Cached
<1>9. NewTomb(t, Tombstones(Image))
  <2> SUFFICES ASSUME NEW u \in Tombstones(Image)
               PROVE  u.op # t.op /\ u.man.id # t.man.id /\ u.rev < t.rev
    BY DEF NewTomb
  <2>1. u.op # op
    BY <1>2
  <2>2. u.man.id \in rsm.deleted
    BY <1>8 DEF Deleted
  <2>3. u.rev \in Nat /\ rsm.revision \in Nat /\ u.rev <= rsm.revision
    BY <1>1, <1>8, TombsTyped DEF TombTypes, UpTo, Shape
  <2> QED
    BY <1>2, <1>4, <1>5, <2>1, <2>2, <2>3
<1>10. page = Extended(Image, p, t)
  <2>1. Image[Tombs(p)] = [kind |-> "tombs", list |-> Image[Tombs(p)].list]
    BY <1>1, <1>3, <1>8 DEF WellKept, TombPageOK
  <2>2. TombList(Image, p) = Image[Tombs(p)].list
    BY <1>3, <1>8 DEF TombList
  <2> QED
    BY <2>1, <2>2 DEF Extended, ListPage
<1> HIDE DEF page
<1>11. /\ rsm'.mounted = rsm.mounted /\ rsm'.todo = pages /\ rsm'.reply = reply
       /\ rsm'.wrote = rsm.wrote
  BY <1>1, <1>2 DEF Shape
<1>12. TombPending(Image, rsm', t)
  BY <1>3, <1>9, <1>10, <1>11 DEF TombPending
<1>13. ~rsm'.wrote
  BY <1>1, <1>2, <1>11 DEF Shape
<1>14. DeletePending(Image, rsm')
  BY <1>2, <1>5, <1>6, <1>11, <1>12, <1>13 DEF DeletePending
<1>15. pages \in Seq({pages[1]}) /\ pages # << >>
  OBVIOUS
<1> HIDE DEF pages
<1>16. Sound(Images, Image, promised, rsm', vol)
  BY <1>1, <1>2, <1>14, <1>15, Queued DEF Unmounted
<1> QED
  BY <1>2, <1>16, SameMap

(* A page is written, or synced.                                           *)
LEMMA PublishStep ==
  ASSUME DeleteInv, Publish
  PROVE  DeleteInv'
<1>1. Chain(versions) /\ Sound(Images, Image, promised, rsm, vol)
  BY DEF DeleteInv
<1>2. vol' = vol
  BY DEF Publish
<1>3. CASE WritePage
  <2> DEFINE m2 == Written(Image, rsm.todo[1].sector, rsm.todo[1].page)
  <2>1. /\ rsm.todo # << >> /\ ~rsm.wrote /\ versions' = Append(versions, m2)
        /\ rsm' = [rsm EXCEPT !.wrote = TRUE] /\ promised' = promised
    BY <1>3 DEF WritePage, Idle, rns_write, Written
  <2> HIDE DEF m2
  <2>2. /\ Chain(versions') /\ Range(versions') = Range(versions) \cup {m2}
        /\ versions'[Len(versions')] = m2
    BY <1>1, <2>1, Appended
  <2>3. Images' = Images \cup {m2} /\ Image' = m2
    BY <2>2 DEF Images, Image
  <2>4. Sound(Images', Image', promised, rsm', vol)
    BY <1>1, <2>1, <2>3, PageWritten DEF m2
  <2> QED
    BY <1>2, <2>1, <2>2, <2>4 DEF DeleteInv
<1>4. CASE SyncPage
  <2>1. rsm.wrote /\ versions' = <<Image>>
    BY <1>4 DEF SyncPage, rns_sync
  <2>2. Chain(versions') /\ Images' = {Image} /\ Image' = Image
    BY <2>1, Synced DEF Images, Image
  <2>3. CASE Len(rsm.todo) > 1
    <3>1. rsm' = [rsm EXCEPT !.todo = Tail(@), !.wrote = FALSE] /\ promised' = promised
      BY <1>4, <2>3 DEF SyncPage
    <3>2. Sound({Image}, Image, promised, rsm', vol)
      BY <1>1, <2>1, <2>3, <3>1, PageSynced
    <3> QED
      BY <1>2, <2>2, <3>1, <3>2 DEF DeleteInv
  <2>4. CASE ~(Len(rsm.todo) > 1)
    <3>1. rsm' = Replied(rsm.reply) /\ promised' = promised \cup rsm.reply
      BY <1>4, <2>4 DEF SyncPage
    <3>2. Sound({Image}, Image, promised', rsm', vol)
      BY <1>1, <2>1, <2>4, <3>1, LastPageSynced DEF Replied
    <3> QED
      BY <1>2, <2>2, <3>2 DEF DeleteInv
  <2> QED
    BY <2>3, <2>4
<1> QED
  BY <1>3, <1>4 DEF Publish

(* The steps that leave the metadata alone.                                *)
LEMMA OtherStep ==
  ASSUME DeleteInv,
         \/ PrepareFull \/ PrepareKeyReset \/ rv_provision_full \/ rv_erase_key_reset
         \/ EraseRoot \/ Complete \/ Activate
         \/ Recording \/ EndRecording \/ rcat_open \/ EndSync
         \/ \E s \in {"RECORDING", "SYNCING"} : Reopen(s)
         \/ \E item \in cat.items, q \in SlotNo : ReadManifest(item, q) \/ ReadSegment(item, q)
  PROVE  DeleteInv'
<1>0. AtRest(promised, rsm, vol)
  BY DEF DeleteInv, Sound
<1>1. CASE PrepareFull \/ PrepareKeyReset
  <2>1. Elsewhere /\ NoNewDelete /\ UNCHANGED rsm /\ vol # "FENCED" /\ vol' = "RETIRED"
    BY <1>1 DEF PrepareFull, PrepareKeyReset, Elsewhere, NoNewDelete
  <2>2. AtRest(promised', rsm, vol')
    BY <2>1 DEF AtRest, Unmounted
  <2> QED
    BY <2>1, <2>2, QuietStep
<1>2. CASE rv_provision_full \/ rv_erase_key_reset
  <2>1. /\ Elsewhere /\ NoNewDelete /\ UNCHANGED rsm /\ vol = "PREPARED"
        /\ vol' \in {"FORMATTING", "ERASING"} /\ promised' = {}
    BY <1>2 DEF rv_provision_full, rv_erase_key_reset, Elsewhere, NoNewDelete
  <2>2. AtRest(promised', rsm, vol')
    BY <1>0, <2>1 DEF AtRest, Unmounted
  <2> QED
    BY <2>1, <2>2, QuietStep
<1>3. CASE EraseRoot
  <2>1. /\ Elsewhere /\ NoNewDelete /\ UNCHANGED <<rsm, vol, promised>> /\ vol # "FENCED"
    BY <1>3 DEF EraseRoot, Elsewhere, NoNewDelete
  <2>2. AtRest(promised', rsm, vol')
    BY <1>0, <2>1
  <2> QED
    BY <2>1, <2>2, QuietStep
<1>4. CASE \/ Complete \/ EndRecording \/ rcat_open \/ EndSync
           \/ \E s \in {"RECORDING", "SYNCING"} : Reopen(s)
  <2>1. /\ Elsewhere /\ NoNewDelete /\ UNCHANGED rsm /\ vol # "FENCED" /\ vol' \notin Unmounted
    BY <1>4 DEF Complete, EndRecording, rcat_open, EndSync, Reopen, rv_suspend, Elsewhere,
       NoNewDelete, Unmounted
  <2>2. AtRest(promised', rsm, vol')
    BY <2>1 DEF AtRest, Unmounted
  <2> QED
    BY <2>1, <2>2, QuietStep
<1>5. CASE Activate
  <2>1. /\ Elsewhere /\ NoNewDelete /\ UNCHANGED rsm /\ vol # "FENCED" /\ vol' \notin Unmounted
    BY <1>5 DEF Activate, Creating, rv_suspend, Elsewhere, NoNewDelete, Unmounted
  <2>2. AtRest(promised', rsm, vol')
    BY <2>1 DEF AtRest, Unmounted
  <2> QED
    BY <2>1, <2>2, QuietStep
<1>6. CASE Recording
  <2>1. /\ Elsewhere /\ NoNewDelete /\ UNCHANGED rsm /\ vol # "FENCED" /\ vol' \notin Unmounted
    BY <1>6, StoreQuiet DEF Recording, Unmounted
  <2>2. AtRest(promised', rsm, vol')
    BY <2>1 DEF AtRest, Unmounted
  <2> QED
    BY <2>1, <2>2, QuietStep
<1>7. CASE \E item \in cat.items, q \in SlotNo : ReadManifest(item, q) \/ ReadSegment(item, q)
  <2>1. /\ Elsewhere /\ NoNewDelete /\ UNCHANGED rsm /\ vol # "FENCED" /\ vol' \notin Unmounted
    BY <1>7 DEF ReadManifest, ReadSegment, Serving, Elsewhere, NoNewDelete, Unmounted
  <2>2. AtRest(promised', rsm, vol')
    BY <2>1 DEF AtRest, Unmounted
  <2> QED
    BY <2>1, <2>2, QuietStep
<1> QED
  BY <1>1, <1>2, <1>3, <1>4, <1>5, <1>6, <1>7

-----------------------------------------------------------------------------
(* A delete is answered once.                                              *)

(* The strengthened invariant of the tombstones.                           *)
THEOREM DeleteInvariant == Spec => []DeleteInv
<1>1. Init => DeleteInv
  <2> SUFFICES ASSUME Init PROVE DeleteInv
    OBVIOUS
  <2>1. versions = <<Formatted>> /\ promised = {} /\ rsm = NoMetadata /\ vol = "LEGACY"
    BY DEF Init, Configured, Legacy, FullStorage
  <2>2. Chain(versions) /\ Images = {Formatted} /\ Image = Formatted
    BY <2>1, Synced DEF Images, Image
  <2> DEFINE none == NoMetadata
  <2>3. Shape(none) /\ none.todo = << >> /\ ~none.mounted
    <3>1. << >> \in Seq(Range(<< >>)) /\ IsFiniteSet({})
      BY FS_EmptySet
    <3> QED
      BY <3>1 DEF Shape, NoMetadata
  <2> HIDE DEF none
  <2>4. Cached(Formatted, none) /\ Pending({Formatted}, Formatted, none)
    BY <2>3 DEF Cached, Pending
  <2>5. AtRest({}, none, "LEGACY")
    BY DEF AtRest, none
  <2>6. Sound({Formatted}, Formatted, {}, none, "LEGACY")
    BY <2>3, <2>4, <2>5, FormattedTombs DEF Sound, Answered, Same
  <2> QED
    BY <2>1, <2>2, <2>6 DEF DeleteInv, none
<1>2. DeleteInv /\ [Next]_vars => DeleteInv'
  <2> SUFFICES ASSUME DeleteInv, [Next]_vars PROVE DeleteInv'
    OBVIOUS
  <2>1. CASE UNCHANGED vars
    BY <2>1 DEF vars, DeleteInv, Images, Image
  <2>2. CASE Provisioning
    BY <2>2, OtherStep, FormatStep, OpenStep, CreateStep DEF Provisioning
  <2>3. CASE Session
    BY <2>3, OtherStep, OpenStep DEF Session
  <2>4. CASE Recording \/ EndRecording
    BY <2>4, OtherStep
  <2>5. CASE Publish
    BY <2>5, PublishStep
  <2>6. CASE Fence \/ Reset
    BY <2>6, ForgetStep
  <2>7. CASE Syncing
    <3>1. CASE rcat_open \/ EndSync
      BY <3>1, OtherStep
    <3>2. CASE \E item \in cat.items, q \in SlotNo : ReadManifest(item, q) \/ ReadSegment(item, q)
      BY <3>2, OtherStep
    <3>3. CASE \E item \in cat.items, a, b \in SlotNo : Receive(item, a, b)
      BY <3>3, ReceiveStep DEF Receive, Serving
    <3>4. CASE \E op \in Ops, man \in Manifests : Replay(op, man) \/ Delete(op, man)
      BY <3>4, ReplayStep, DeleteStep DEF Replay, Delete, Serving
    <3> QED
      BY <2>7, <3>1, <3>2, <3>3, <3>4 DEF Syncing
  <2> QED
    BY <2>1, <2>2, <2>3, <2>4, <2>5, <2>6, <2>7 DEF Next
<1> QED
  BY <1>1, <1>2, PTL DEF Spec

(* A delete is answered the same way for good: one revision for an         *)
(* operation, one operation for a recording, and its tombstone on every    *)
(* image a cut may leave (rsmx_delete, rsmx_replay).                       *)
THEOREM DeleteOnceHolds == Spec => []DeleteOnce
<1>1. DeleteInv => DeleteOnce
  <2> SUFFICES ASSUME DeleteInv PROVE DeleteOnce
    OBVIOUS
  <2> DEFINE deletes == {p \in promised : p.kind = "delete"}
  <2>1. \A q \in deletes : q = DeleteReply(TombOf(q)) /\ \A m \in Images : TombOf(q) \in Tombstones(m)
    BY DEF DeleteInv, Sound, Answered, IsDelete
  <2>2. Image \in Images /\ NoneTwice(Tombstones(Image))
    BY DEF DeleteInv, Sound, WellKept
  <2>3. \A p, q \in deletes : p.op = q.op \/ p.man.id = q.man.id \/ p.rev = q.rev => p = q
    <3> SUFFICES ASSUME NEW p \in deletes, NEW q \in deletes,
                        p.op = q.op \/ p.man.id = q.man.id \/ p.rev = q.rev
                 PROVE  p = q
      OBVIOUS
    <3>1. TombOf(p) \in Tombstones(Image) /\ TombOf(q) \in Tombstones(Image)
      BY <2>1, <2>2
    <3>2. TombOf(p) = TombOf(q)
      <4>1. /\ TombOf(p).op = p.op /\ TombOf(p).man = p.man /\ TombOf(p).rev = p.rev
            /\ TombOf(q).op = q.op /\ TombOf(q).man = q.man /\ TombOf(q).rev = q.rev
        BY DEF TombOf
      <4> HIDE DEF deletes
      <4> QED
        BY <2>2, <3>1, <4>1 DEF NoneTwice
    <3> QED
      BY <2>1, <3>2
  <2>4. \A p \in deletes, m \in Images :
          [op |-> p.op, man |-> p.man, rev |-> p.rev] \in Tombstones(m)
    BY <2>1 DEF TombOf
  <2> QED
    BY <2>3, <2>4 DEF DeleteOnce
<1> QED
  BY <1>1, DeleteInvariant, PTL
-----------------------------------------------------------------------------
(* What the volume promised, and the RAM of its store.  The parts are      *)
(* predicates of the same arguments and of the store o and the catalog c.  *)

KeptBy(n, pr) ==
  \A q \in pr : ~IsDelete(q) => /\ q.kind \in {"segment", "final", "receipt"}
                                /\ q.id \in Deleted(n) \/ Kept(n, q)
HoldsCommit(n, s, r) ==
  n[Slot(s)].kind = "COMMIT" /\ n[Slot(s)].id = r.id /\ n[Slot(s)].seq = r.seq
HonestMap(n) ==
  \A s \in SlotNo : LET r == ReceiptAt(n, s)
                    IN r # NoReceipt /\ r.id \notin Deleted(n) => HoldsCommit(n, s, r)
ReceiptPageOK(page) ==
  page # Missing => /\ page = [kind |-> "receipts", entries |-> page.entries]
                    /\ page.entries = [s \in SlotNo |-> page.entries[s]]
SlotPageOK(page) == page = Missing \/ page.kind \in {"INTENT", "COMMIT"}
PagesOK(n) == /\ \A p \in ReceiptPage : ReceiptPageOK(n[Receipts(p)])
              /\ \A s \in SlotNo : SlotPageOK(n[Slot(s)])
Durable(I, pr) == \A n \in I : KeptBy(n, pr) /\ HonestMap(n) /\ PagesOK(n)

(* What RAM says is deleted has its tombstone; a cut has a choice only in  *)
(* a recording, or while a page of the metadata is not yet synced.         *)
Backed(I, x, o) == \A n \in I : x.deleted \cup o.retired \subseteq Deleted(n)
Single(I, m, x, v) == v \notin {"RECORDING", "FENCED"} /\ ~x.wrote => I = {m}

(* The store's RAM has its shape.                                          *)
RecordOK(r) ==
  /\ r.present \in BOOLEAN
  /\ r.present => /\ r = [present |-> TRUE, id |-> r.id, segments |-> r.segments,
                          finalized |-> r.finalized, interrupted |-> r.interrupted,
                          blocked |-> r.blocked, completion |-> r.completion]
                  /\ r.segments \in Nat
StoreShape(o) ==
  /\ o = [mounted |-> o.mounted, job |-> o.job, stage |-> o.stage, ready |-> o.ready,
          index |-> o.index, active |-> o.active, root |-> o.root, slot |-> o.slot,
          seg |-> o.seg, pending |-> o.pending, retired |-> o.retired,
          records |-> o.records, used |-> o.used]
  /\ o.mounted \in BOOLEAN /\ o.ready \in BOOLEAN /\ o.index \in Nat
  /\ o.job \in {"NONE", "RESERVE", "SEGMENT", "FINALIZE", "LOAD"}
  /\ o.active \in RootNo \cup {NoRoot}
  /\ o.records = [r \in RootNo |-> o.records[r]] /\ \A r \in RootNo : RecordOK(o.records[r])
  /\ o.used \in [SlotNo -> {"FREE", "INTENT", "COMMIT"}]
  /\ ~o.mounted => o = NoStore

(* A slot or a root the store counts as free holds nothing, or what was    *)
(* deleted, unless the store has just written to it; a slot it counts as   *)
(* committed is.                                                           *)
FreePage(page, retired) == page = Missing \/ page.id \in retired
Intending(o, s) == o.job = "SEGMENT" /\ ~o.ready /\ o.slot = s /\ o.stage \in {1, 2}
Reserving(o, r) == o.job = "RESERVE" /\ ~o.ready /\ o.root = r /\ o.stage \in {1, 2}
Finalizing(o) == o.job = "FINALIZE" /\ ~o.ready /\ o.stage \in {1, 2}
Slotted(m, o) ==
  \A s \in SlotNo :
    /\ o.used[s] = "FREE" /\ ~Intending(o, s) => FreePage(m[Slot(s)], o.retired)
    /\ o.used[s] = "COMMIT" => m[Slot(s)].kind = "COMMIT"
Rooted(m, o) ==
  /\ \A r \in RootNo :
       ~o.records[r].present /\ ~Reserving(o, r) => FreePage(m[Root(r)], o.retired)
  /\ o.active # NoRoot =>
       /\ o.active \in RootNo /\ o.records[o.active].present
       /\ ~Finalizing(o) => m[Root(o.active)].kind = "ACTIVE"

(* How far the segment and the root of a job are on the map.               *)
PayloadTo(m, o, n) == \A i \in 1..n : m[Data(o.slot, i)] = DataPage(o.seg, i)
SegmentJob(I, m, o) ==
  o.job = "SEGMENT" =>
    /\ o.slot \in SlotNo /\ o.active \in RootNo /\ o.stage \in {0, 1, 2, 3, 5, 6, 7, 8, 9}
    /\ o.seg = [id |-> o.seg.id, root |-> o.seg.root, seq |-> o.seg.seq]
    /\ o.ready \/ o.stage \in {5, 7, 8} =>
         m[Slot(o.slot)] = SlotPage("COMMIT", o.seg) /\ PayloadTo(m, o, DataPages)
    /\ o.ready \/ o.stage \in {5, 8} => I = {m}
    /\ ~o.ready =>
         /\ o.used[o.slot] = IF o.stage \in {0, 1, 2, 9} THEN "FREE" ELSE "INTENT"
         /\ o.stage \in {1, 2, 3, 6} => m[Slot(o.slot)] = SlotPage("INTENT", o.seg)
         /\ o.stage = 3 => o.index <= DataPages /\ PayloadTo(m, o, o.index)
         /\ o.stage = 6 => PayloadTo(m, o, DataPages)
RootPageOf(o) == RootPage(IF o.job = "FINALIZE" THEN "FINAL" ELSE "ACTIVE", o.pending)
RootJob(I, m, o) ==
  o.job \in {"RESERVE", "FINALIZE"} =>
    /\ o.root \in RootNo /\ o.pending.present /\ RecordOK(o.pending) /\ o.stage \in {0, 1, 2}
    /\ ~o.ready => IF o.job = "RESERVE" THEN ~o.records[o.root].present /\ o.active = NoRoot
                   ELSE o.root = o.active
    /\ o.ready \/ o.stage = 2 => I = {m}
    /\ o.ready => m[Root(o.root)] = RootPageOf(o)
StoreSound(I, m, o) ==
  /\ StoreShape(o)
  /\ o.mounted => Slotted(m, o) /\ Rooted(m, o) /\ SegmentJob(I, m, o) /\ RootJob(I, m, o)

(* The catalog names segments that are committed in some slot.             *)
HeldIn(m, o, id, q) ==
  \E s \in SlotNo : o.used[s] = "COMMIT" /\ m[Slot(s)].id = id /\ m[Slot(s)].seq = q
Catalog(m, o, c) ==
  \A item \in c.items :
    item.segments \in Nat /\ \A q \in Nat : q < item.segments => HeldIn(m, o, item.id, q)

(* A page of receipts on its way: an entry is the one on the map, or takes *)
(* the place of one that counts no more, beside the segment it is for.     *)
MayReplace(m, x, s) == ReceiptAt(m, s) = NoReceipt \/ ReceiptAt(m, s).id \in x.deleted
Update(m, x, p, page) ==
  /\ page # Missing /\ ReceiptPageOK(page)
  /\ \A s \in SlotNo : s \div SlotsPerPage = p =>
       \/ page.entries[s] = ReceiptAt(m, s)
       \/ MayReplace(m, x, s) /\ HoldsCommit(m, s, page.entries[s])
Vouched(m, x, q) ==
  \E s \in SlotNo :
    \/ ReceiptAt(m, s) = [id |-> q.id, seq |-> q.seq]
    \/ \E y \in Range(x.todo) : /\ y.sector = Receipts(s \div SlotsPerPage)
                                /\ y.page.entries[s] = [id |-> q.id, seq |-> q.seq]
ReceiptsOnTheirWay(m, x) ==
  /\ \A y \in Range(x.todo) :
       \E p \in ReceiptPage : y.sector = Receipts(p) /\ Update(m, x, p, y.page)
  /\ \A y, z \in Range(x.todo) : y.sector = z.sector => y.page = z.page
  /\ x.wrote => m[x.todo[1].sector] = x.todo[1].page
  /\ \A q \in x.reply : /\ q = [kind |-> "receipt", id |-> q.id, seq |-> q.seq]
                        /\ q.id \notin x.deleted /\ Vouched(m, x, q)
NoReceipts(n) == \A s \in SlotNo : ReceiptAt(n, s) = NoReceipt
Receiving(I, m, x) ==
  /\ x.mounted => \A p \in ReceiptPage : m[Receipts(p)] # Missing
  /\ x.todo # << >> /\ ReceiptsPending(x) => ReceiptsOnTheirWay(m, x)
  /\ x.todo # << >> /\ ~x.mounted => \A n \in I : NoReceipts(n)

(* Which of them may be at work in which state of the volume.              *)
Modes(x, o, v, c) ==
  /\ v \in Unmounted => o = NoStore
  /\ v # "RECORDING" => o.job \in {"NONE", "LOAD"}
  /\ v # "SYNCING" => c.items = {}
  /\ v \in {"RECORDING", "SUSPENDED"} => x.todo = << >>
  /\ v \in {"RECORDING", "SYNCING", "SUSPENDED"} => x.mounted /\ o.mounted
  /\ v \in {"PROVISIONING", "RESETTING"} /\ x.mounted => x.todo = << >>

Keeps(I, m, pr, x, o, v, c) ==
  /\ Durable(I, pr) /\ Backed(I, x, o) /\ Single(I, m, x, v) /\ StoreSound(I, m, o)
  /\ Catalog(m, o, c) /\ Receiving(I, m, x) /\ Modes(x, o, v, c)
VolumeInv == DeleteInv /\ Keeps(Images, Image, promised, rsm, ros, vol, cat)

-----------------------------------------------------------------------------
(* Sectors, and what a write leaves alone.                                 *)

(* Each kind of sector has its own name.                                   *)
LEMMA Names ==
  /\ Len(MetaRoot) = 1
  /\ \A r : Len(Root(r)) = 2 /\ Root(r)[1] = "root" /\ Root(r)[2] = r
  /\ \A s : Len(Slot(s)) = 2 /\ Slot(s)[1] = "slot" /\ Slot(s)[2] = s
  /\ \A p : Len(Receipts(p)) = 2 /\ Receipts(p)[1] = "receipts" /\ Receipts(p)[2] = p
  /\ \A p : Len(Tombs(p)) = 2 /\ Tombs(p)[1] = "tombs" /\ Tombs(p)[2] = p
  /\ \A s, i : Len(Data(s, i)) = 3 /\ Data(s, i)[2] = s /\ Data(s, i)[3] = i
BY DEF MetaRoot, Root, Slot, Receipts, Tombs, Data

(* Sectors of different names or numbers are different.                    *)
LEMMA Apart ==
  /\ \A a, b : (Root(a) = Root(b) => a = b) /\ (Slot(a) = Slot(b) => a = b)
               /\ (Receipts(a) = Receipts(b) => a = b) /\ (Tombs(a) = Tombs(b) => a = b)
  /\ \A s, i, t, j : Data(s, i) = Data(t, j) => s = t /\ i = j
  /\ \A a, b : /\ Root(a) # Slot(b) /\ Root(a) # Receipts(b) /\ Root(a) # Tombs(b)
               /\ Slot(a) # Receipts(b) /\ Slot(a) # Tombs(b) /\ Receipts(a) # Tombs(b)
  /\ \A a, s, i : /\ Data(s, i) # Root(a) /\ Data(s, i) # Slot(a)
                  /\ Data(s, i) # Receipts(a) /\ Data(s, i) # Tombs(a)
  /\ \A a : MetaRoot # Root(a) /\ MetaRoot # Slot(a) /\ MetaRoot # Receipts(a)
            /\ MetaRoot # Tombs(a)
  /\ \A s, i : MetaRoot # Data(s, i)
<1>1. "root" # "slot" /\ "root" # "receipts" /\ "root" # "tombs" /\ "slot" # "receipts"
      /\ "slot" # "tombs" /\ "receipts" # "tombs"
  OBVIOUS
<1>2. \A a, b : (Root(a) = Root(b) => a = b) /\ (Slot(a) = Slot(b) => a = b)
               /\ (Receipts(a) = Receipts(b) => a = b) /\ (Tombs(a) = Tombs(b) => a = b)
  BY Names
<1>3. \A s, i, t, j : Data(s, i) = Data(t, j) => s = t /\ i = j
  BY Names
<1>4. \A a, b : /\ Root(a) # Slot(b) /\ Root(a) # Receipts(b) /\ Root(a) # Tombs(b)
               /\ Slot(a) # Receipts(b) /\ Slot(a) # Tombs(b) /\ Receipts(a) # Tombs(b)
  BY <1>1, Names
<1>5. \A a, s, i : /\ Data(s, i) # Root(a) /\ Data(s, i) # Slot(a)
                  /\ Data(s, i) # Receipts(a) /\ Data(s, i) # Tombs(a)
  BY Names
<1>6. \A a : MetaRoot # Root(a) /\ MetaRoot # Slot(a) /\ MetaRoot # Receipts(a)
            /\ MetaRoot # Tombs(a)
  BY Names
<1>7. \A s, i : MetaRoot # Data(s, i)
  BY Names
<1> QED
  BY <1>2, <1>3, <1>4, <1>5, <1>6, <1>7

(* The map has all of them.                                                *)
LEMMA InSector ==
  /\ MetaRoot \in Sector /\ \A r \in RootNo : Root(r) \in Sector
  /\ \A s \in SlotNo : Slot(s) \in Sector /\ \A i \in 1..DataPages : Data(s, i) \in Sector
  /\ \A p \in ReceiptPage : Receipts(p) \in Sector
  /\ \A p \in TombPage : Tombs(p) \in Sector
BY DEF Sector

(* A slot has its receipt on a page there is.                              *)
LEMMA PageOfSlot ==
  ASSUME NEW s \in SlotNo
  PROVE  s \div SlotsPerPage \in ReceiptPage
<1>1. /\ Slots \in Nat /\ SlotsPerPage \in Nat /\ SlotsPerPage > 0
      /\ s \in Nat /\ s <= Slots - 1 /\ Slots - 1 \in Nat
  BY LayoutAssumption DEF LayoutAssumption, SlotNo
<1>2. \A a, b, c \in Nat : c > 0 /\ a <= b =>
        a \div c \in Nat /\ b \div c \in Nat /\ a \div c <= b \div c
  <2> SUFFICES ASSUME NEW a \in Nat, NEW b \in Nat, NEW c \in Nat, c > 0, a <= b
               PROVE  a \div c \in Nat /\ b \div c \in Nat /\ a \div c <= b \div c
    OBVIOUS
  <2> DEFINE d == a \div c
             e == b \div c
  <2>1. d \in Nat /\ e \in Nat /\ d * c <= a /\ b < (e + 1) * c
    OBVIOUS
  <2> HIDE DEF d, e
  <2>2. d >= e + 1 => d * c >= (e + 1) * c
    BY <2>1
  <2>3. d * c \in Nat /\ (e + 1) * c \in Nat
    BY <2>1
  <2>4. ~(d >= e + 1)
    BY <2>1, <2>2, <2>3
  <2> QED
    BY <2>1, <2>4 DEF d, e
<1>3. /\ s \div SlotsPerPage \in Nat /\ (Slots - 1) \div SlotsPerPage \in Nat
      /\ s \div SlotsPerPage <= (Slots - 1) \div SlotsPerPage
  BY <1>1, <1>2
<1> QED
  BY <1>3 DEF ReceiptPage

(* What is read after a write.                                             *)
LEMMA ReadAfterWrite ==
  ASSUME NEW m, IsMap(m), NEW z \in Sector, NEW page, NEW m2, m2 = Written(m, z, page)
  PROVE  \A y \in Sector : m2[y] = IF y = z THEN page ELSE m[y]
BY DEF IsMap, Written

(* What of a map the promises of a write-once store are about.             *)
SameSlot(n, n2, s) ==
  n2[Slot(s)] = n[Slot(s)] /\ \A i \in 1..DataPages : n2[Data(s, i)] = n[Data(s, i)]
Vacant(n, s) == n[Slot(s)].kind # "COMMIT" \/ n[Slot(s)].id \in Deleted(n)
VacantRoot(n, r) == n[Root(r)].kind # "FINAL" \/ n[Root(r)].id \in Deleted(n)
Renewed(n, n2, s) ==
  /\ ReceiptAt(n, s) = NoReceipt \/ ReceiptAt(n, s).id \in Deleted(n)
  /\ HoldsCommit(n2, s, ReceiptAt(n2, s))

(* A map that gives up only what nobody was promised.                      *)
LEMMA Carried ==
  ASSUME NEW n, NEW n2, NEW pr, KeptBy(n, pr), HonestMap(n),
         Deleted(n) \subseteq Deleted(n2),
         \A s \in SlotNo : SameSlot(n, n2, s) \/ Vacant(n, s),
         \A r \in RootNo : n2[Root(r)] = n[Root(r)] \/ VacantRoot(n, r),
         \A s \in SlotNo : ReceiptAt(n2, s) = ReceiptAt(n, s) \/ Renewed(n, n2, s)
  PROVE  KeptBy(n2, pr) /\ HonestMap(n2)
<1>1. ASSUME NEW q \in pr, ~IsDelete(q), q.id \notin Deleted(n2) PROVE Kept(n2, q)
  <2>0. q.id \notin Deleted(n)
    BY <1>1
  <2>1. Kept(n, q) /\ q.id \notin Deleted(n) /\ q.kind \in {"segment", "final", "receipt"}
    BY <1>1, <2>0 DEF KeptBy
  <2>2. CASE q.kind = "segment"
    <3>1. Committed(n, q.id, q.seq)
      BY <2>1, <2>2 DEF Kept
    <3>2. PICK s \in SlotNo :
            /\ n[Slot(s)].kind = "COMMIT" /\ n[Slot(s)].id = q.id /\ n[Slot(s)].seq = q.seq
            /\ \A i \in 1..DataPages : n[Data(s, i)] = DataPage(n[Slot(s)], i)
      BY <3>1 DEF Committed
    <3>3. SameSlot(n, n2, s)
      BY <2>1, <3>2 DEF Vacant
    <3>4. Committed(n2, q.id, q.seq)
      BY <3>2, <3>3 DEF SameSlot, Committed
    <3> QED
      BY <2>2, <3>4 DEF Kept
  <2>3. CASE q.kind = "final"
    <3>1. PICK r \in RootNo : n[Root(r)] = [kind |-> "FINAL", id |-> q.id, segments |-> q.segments]
      BY <2>1, <2>3 DEF Kept
    <3>2. n[Root(r)].kind = "FINAL" /\ n[Root(r)].id = q.id
      BY <3>1
    <3>3. n2[Root(r)] = n[Root(r)]
      BY <2>1, <3>2 DEF VacantRoot
    <3> QED
      BY <2>3, <3>1, <3>3 DEF Kept
  <2>4. CASE q.kind = "receipt"
    <3>1. PICK s \in SlotNo : ReceiptAt(n, s) = [id |-> q.id, seq |-> q.seq]
      BY <2>1, <2>4 DEF Kept
    <3>2. ReceiptAt(n, s).id = q.id /\ ReceiptAt(n, s) # NoReceipt
      BY <3>1 DEF NoReceipt
    <3>3. ReceiptAt(n2, s) = ReceiptAt(n, s)
      BY <2>1, <3>2 DEF Renewed
    <3> QED
      BY <2>4, <3>1, <3>3 DEF Kept
  <2> QED
    BY <2>1, <2>2, <2>3, <2>4
<1>2. KeptBy(n2, pr)
  <2>1. \A q \in pr : ~IsDelete(q) => q.kind \in {"segment", "final", "receipt"}
    BY DEF KeptBy
  <2> QED
    BY <1>1, <2>1 DEF KeptBy
<1>3. ASSUME NEW s \in SlotNo, NEW r, r = ReceiptAt(n2, s), r # NoReceipt, r.id \notin Deleted(n2)
      PROVE  HoldsCommit(n2, s, r)
  <2>1. CASE ReceiptAt(n2, s) = ReceiptAt(n, s)
    <3>1. HoldsCommit(n, s, r)
      BY <1>3, <2>1 DEF HonestMap
    <3>2. SameSlot(n, n2, s)
      BY <1>3, <3>1 DEF Vacant, HoldsCommit
    <3> QED
      BY <3>1, <3>2 DEF HoldsCommit, SameSlot
  <2>2. CASE Renewed(n, n2, s)
    BY <1>3, <2>2 DEF Renewed
  <2> QED
    BY <2>1, <2>2
<1>4. HonestMap(n2)
  BY <1>3 DEF HonestMap
<1> QED
  BY <1>2, <1>4
-----------------------------------------------------------------------------
(* What a recovery finds.                                                  *)

RecordsOK(rs) == rs = [r \in RootNo |-> rs[r]] /\ \A r \in RootNo : RecordOK(rs[r])

(* A record that is changed and stays one.                                 *)
LEMMA RecordChanged ==
  ASSUME NEW rs, RecordsOK(rs), NEW k, NEW e, k \in RootNo => RecordOK(e),
         NEW rs2, rs2 = [r \in RootNo |-> rs2[r]],
         \A r \in RootNo : rs2[r] = IF r = k THEN e ELSE rs[r]
  PROVE  RecordsOK(rs2)
BY DEF RecordsOK

(* No recordings at all.                                                   *)
LEMMA NoRecords ==
  /\ RecordsOK(NoStore.records) /\ \A r \in RootNo : ~NoStore.records[r].present
  /\ NoStore.used = [s \in SlotNo |-> "FREE"]
BY DEF NoStore, NoRecord, RecordsOK, RecordOK

(* The shape of a record of a recording.                                   *)
LEMMA RecordShape ==
  ASSUME NEW id, NEW fin, NEW int, NEW n, NEW r,
         r = [Record(id) EXCEPT !.finalized = fin, !.interrupted = int, !.completion = n]
  PROVE  RecordOK(r) /\ r.present
BY DEF Record, RecordOK

(* parse_root.                                                             *)
RootStep(m, retired, v, n) ==
  LET r == n - 1
      page == m[Root(r)]
  IN IF page = Missing THEN v
     ELSE IF \E i \in 0..r-1 : v.records[i].present /\ v.records[i].id = page.id
     THEN [v EXCEPT !.ok = FALSE]
     ELSE IF page.id \in retired THEN v
     ELSE [v EXCEPT !.records[r] = [Record(page.id) EXCEPT
                                      !.finalized = page.kind = "FINAL",
                                      !.interrupted = page.kind = "ACTIVE",
                                      !.completion = page.segments]]
RootsTo(m, retired, v, n) ==
  /\ v = [ok |-> v.ok, records |-> v.records] /\ RecordsOK(v.records)
  /\ v.ok => \A r \in RootNo : r < n /\ ~v.records[r].present => FreePage(m[Root(r)], retired)

(* One root more.                                                          *)
LEMMA OneRoot ==
  ASSUME NEW m, NEW retired, NEW n \in 1..Roots, NEW v, RootsTo(m, retired, v, n - 1)
  PROVE  RootsTo(m, retired, RootStep(m, retired, v, n), n)
<1> DEFINE r == n - 1
           page == m[Root(r)]
           e == [Record(page.id) EXCEPT !.finalized = page.kind = "FINAL",
                                        !.interrupted = page.kind = "ACTIVE",
                                        !.completion = page.segments]
<1>1. r \in RootNo /\ Roots \in Nat /\ \A i \in RootNo : i < n <=> i < r \/ i = r
  BY LayoutAssumption DEF LayoutAssumption, RootNo
<1>2. /\ v = [ok |-> v.ok, records |-> v.records] /\ RecordsOK(v.records)
      /\ v.ok => \A i \in RootNo : i < r /\ ~v.records[i].present => FreePage(m[Root(i)], retired)
  BY DEF RootsTo
<1>3. CASE page = Missing
  <2>1. RootStep(m, retired, v, n) = v
    BY <1>3 DEF RootStep
  <2>2. FreePage(m[Root(r)], retired)
    BY <1>3 DEF FreePage
  <2> QED
    BY <1>1, <1>2, <2>1, <2>2 DEF RootsTo
<1>4. CASE page # Missing /\ \E i \in 0..r-1 : v.records[i].present /\ v.records[i].id = page.id
  <2>1. RootStep(m, retired, v, n) = [v EXCEPT !.ok = FALSE]
    BY <1>4 DEF RootStep
  <2> DEFINE w == [v EXCEPT !.ok = FALSE]
  <2>2. w = [ok |-> w.ok, records |-> w.records] /\ w.records = v.records /\ w.ok = FALSE
    <3>1. \A a, b, c : [[ok |-> a, records |-> b] EXCEPT !.ok = c] = [ok |-> c, records |-> b]
      OBVIOUS
    <3> DEFINE no == FALSE
    <3>2. w = [v EXCEPT !.ok = no]
      OBVIOUS
    <3> HIDE DEF w, no
    <3>3. w = [ok |-> no, records |-> v.records]
      BY <1>2, <3>1, <3>2
    <3>4. w = [ok |-> w.ok, records |-> w.records] /\ w.records = v.records /\ w.ok = no
      BY <3>3
    <3> QED
      BY <3>4 DEF no
  <2> HIDE DEF w
  <2>3. RootsTo(m, retired, w, n)
    BY <1>2, <2>2 DEF RootsTo
  <2> QED
    BY <2>1, <2>3 DEF w
<1>5. CASE /\ page # Missing /\ page.id \in retired
           /\ ~ \E i \in 0..r-1 : v.records[i].present /\ v.records[i].id = page.id
  <2>1. RootStep(m, retired, v, n) = v
    BY <1>5 DEF RootStep
  <2>2. FreePage(m[Root(r)], retired)
    BY <1>5 DEF FreePage
  <2> QED
    BY <1>1, <1>2, <2>1, <2>2 DEF RootsTo
<1>6. CASE /\ page # Missing /\ page.id \notin retired
           /\ ~ \E i \in 0..r-1 : v.records[i].present /\ v.records[i].id = page.id
  <2>1. RootStep(m, retired, v, n) = [v EXCEPT !.records[r] = e]
    BY <1>6 DEF RootStep
  <2>2. RecordOK(e) /\ e.present
    BY RecordShape
  <2> HIDE DEF e
  <2> DEFINE w == [v EXCEPT !.records[r] = e]
             rs == [v.records EXCEPT ![r] = e]
  <2>3. w = [ok |-> w.ok, records |-> w.records] /\ w.records = rs /\ w.ok = v.ok
    BY <1>2
  <2>4. RecordsOK(rs) /\ \A i \in RootNo : rs[i] = IF i = r THEN e ELSE v.records[i]
    <3> HIDE DEF r, page
    <3>1. RecordsOK(v.records) /\ v.records = [i \in RootNo |-> v.records[i]]
      BY <1>2 DEF RecordsOK
    <3>2. rs = [i \in RootNo |-> IF i = r THEN e ELSE v.records[i]]
      BY <3>1
    <3> HIDE DEF rs
    <3>3. \A i \in RootNo : rs[i] = IF i = r THEN e ELSE v.records[i]
      BY <3>2
    <3>4. rs = [i \in RootNo |-> rs[i]]
      BY <3>2, <3>3
    <3>5. RecordsOK(rs)
      BY <2>2, <3>1, <3>3, <3>4, RecordChanged
    <3> QED
      BY <3>3, <3>5
  <2> HIDE DEF w, rs
  <2>5. \A i \in RootNo : i < n /\ ~rs[i].present => i < r /\ ~v.records[i].present
    BY <1>1, <2>2, <2>4
  <2>6. RootsTo(m, retired, w, n)
    BY <1>2, <2>3, <2>4, <2>5 DEF RootsTo
  <2> QED
    BY <2>1, <2>6 DEF w
<1> QED
  BY <1>3, <1>4, <1>5, <1>6

(* The roots a recovery finds.                                             *)
LEMMA RootsScanned ==
  ASSUME NEW m, NEW retired
  PROVE  RootsTo(m, retired, ScanRoots(m, retired), Roots)
<1> DEFINE base == [ok |-> TRUE, records |-> NoStore.records]
           Step(v, n) == RootStep(m, retired, v, n)
           Body(f, n) == IF n = 0 THEN base ELSE Step(f[n - 1], n)
           Solves(f) == f = [n \in 0..Roots |-> Body(f, n)]
           scan == CHOOSE f : Solves(f)
<1>1. Roots \in Nat
  BY LayoutAssumption DEF LayoutAssumption
<1>2. \E f : Solves(f)
  <2> HIDE DEF base, Step
  <2> DEFINE Upto(f, j) == \A n \in 0..j : f[n] = Body(f, n)
             From == {j \in 0..Roots : \E f : f = [n \in 0..Roots |-> f[n]] /\ Upto(f, j)}
  <2>1. 0 \in From
    <3> DEFINE f == [n \in 0..Roots |-> base]
    <3>1. f = [n \in 0..Roots |-> f[n]] /\ Upto(f, 0)
      BY <1>1
    <3> HIDE DEF f, Upto
    <3> QED
      BY <1>1, <3>1
  <2>2. PICK j \in From : \A i \in From : j >= i
    <3>1. From \subseteq Nat /\ \A i \in From : i <= Roots
      BY <1>1
    <3> HIDE DEF From
    <3> QED
      BY <1>1, <2>1, <3>1, Greatest
  <2>3. j \in 0..Roots /\ \E f : f = [n \in 0..Roots |-> f[n]] /\ Upto(f, j)
    BY <2>2
  <2>4. PICK f : f = [n \in 0..Roots |-> f[n]] /\ Upto(f, j)
    BY <2>3
  <2>5. j = Roots
    <3> SUFFICES ASSUME j # Roots PROVE FALSE
      OBVIOUS
    <3> DEFINE e == Step(f[j], j + 1)
               f2 == [n \in 0..Roots |-> IF n = j + 1 THEN e ELSE f[n]]
    <3>1. j + 1 \in 0..Roots /\ (j + 1) - 1 = j /\ j + 1 # 0 /\ ~(j >= j + 1)
      BY <1>1, <2>3
    <3> HIDE DEF e
    <3>2. \A n \in 0..Roots : f2[n] = IF n = j + 1 THEN e ELSE f[n]
      OBVIOUS
    <3>3. f2 = [n \in 0..Roots |-> f2[n]]
      OBVIOUS
    <3> HIDE DEF f2
    <3>4. ASSUME NEW n \in 0..j+1 PROVE f2[n] = Body(f2, n)
      <4>1. CASE n = j + 1
        <5>1. f2[j] = f[j] /\ f2[n] = e
          BY <4>1, <1>1, <2>3, <3>1, <3>2
        <5> QED
          BY <4>1, <5>1, <3>1 DEF e
      <4>2. CASE n # j + 1
        <5>1. n \in 0..j /\ n \in 0..Roots /\ (n # 0 => n - 1 \in 0..Roots /\ n - 1 # j + 1)
          BY <4>2, <1>1, <2>3, <3>1
        <5>2. f[n] = Body(f, n)
          BY <5>1, <2>4
        <5>3. f2[n] = f[n] /\ (n # 0 => f2[n - 1] = f[n - 1])
          BY <4>2, <5>1, <3>2
        <5> QED
          BY <5>2, <5>3
      <4> QED
        BY <4>1, <4>2
    <3>5. Upto(f2, j + 1)
      BY <3>4
    <3>6. j + 1 \in From
      <4> HIDE DEF Upto
      <4> QED
        BY <3>1, <3>3, <3>5
    <3> HIDE DEF From
    <3> QED
      BY <2>2, <3>1, <3>6
  <2>6. \A n \in 0..Roots : f[n] = Body(f, n)
    BY <2>4, <2>5
  <2> HIDE DEF Body
  <2>7. f = [n \in 0..Roots |-> Body(f, n)]
    BY <2>4, <2>6
  <2> QED
    BY <2>7
<1>3. Solves(scan)
  <2> HIDE DEF Solves
  <2> QED
    BY <1>2
<1>4. scan[0] = base /\ \A n \in 1..Roots : scan[n] = Step(scan[n - 1], n)
  <2> HIDE DEF scan, base, Step
  <2>1. \A n \in 0..Roots : scan[n] = Body(scan, n)
    <3> HIDE DEF Body
    <3> QED
      BY <1>3
  <2>2. \A n \in 1..Roots : n \in 0..Roots /\ n # 0
    BY <1>1
  <2> QED
    BY <1>1, <2>1, <2>2
<1> DEFINE Good(n) == RootsTo(m, retired, scan[n], n)
<1>5. Good(0)
  <2>1. base.ok = TRUE /\ base.records = NoStore.records /\ \A r \in RootNo : ~(r < 0)
    BY <1>1 DEF RootNo
  <2>2. base = [ok |-> base.ok, records |-> base.records]
    OBVIOUS
  <2> HIDE DEF base, scan
  <2> QED
    BY <1>4, <2>1, <2>2, NoRecords DEF RootsTo
<1>6. ASSUME NEW n \in 1..Roots, Good(n - 1) PROVE Good(n)
  <2> HIDE DEF scan
  <2> QED
    BY <1>4, <1>6, OneRoot
<1>7. \A n \in 0..Roots : Good(n)
  <2> HIDE DEF Good
  <2> DEFINE Bad == {n \in 0..Roots : ~Good(n)}
  <2>1. SUFFICES ASSUME Bad # {} PROVE FALSE
    OBVIOUS
  <2>2. PICK n \in Bad : \A i \in Bad : n <= i
    <3>1. Bad \subseteq Nat
      BY <1>1
    <3> HIDE DEF Bad
    <3> QED
      BY <2>1, <3>1, LeastNumber
  <2>3. n \in 1..Roots /\ n - 1 \in 0..Roots /\ ~(n <= n - 1)
    BY <1>1, <1>5, <2>2
  <2>4. Good(n - 1)
    BY <2>2, <2>3
  <2> QED
    BY <1>6, <2>2, <2>3, <2>4
<1>8. Good(Roots)
  <2> HIDE DEF Good
  <2> QED
    BY <1>1, <1>7
<1>9. ScanRoots(m, retired) = scan[Roots]
  BY DEF ScanRoots, RootStep
<1> QED
  BY <1>8, <1>9

(* A record whose flags or count change.                                   *)
LEMMA RecordKept ==
  ASSUME NEW r, RecordOK(r), r.present, NEW b
  PROVE  /\ RecordOK([r EXCEPT !.blocked = b, !.interrupted = b])
         /\ [r EXCEPT !.blocked = b, !.interrupted = b].present
         /\ RecordOK([r EXCEPT !.segments = r.segments + 1])
         /\ [r EXCEPT !.segments = r.segments + 1].present
<1>1. r = [present |-> TRUE, id |-> r.id, segments |-> r.segments,
           finalized |-> r.finalized, interrupted |-> r.interrupted,
           blocked |-> r.blocked, completion |-> r.completion] /\ r.segments \in Nat
  BY DEF RecordOK
<1> DEFINE e == [r EXCEPT !.blocked = b, !.interrupted = b]
           f == [r EXCEPT !.segments = r.segments + 1]
           yes == TRUE
<1>9. e = [r EXCEPT !.blocked = b, !.interrupted = b]
  OBVIOUS
<1> HIDE DEF yes
<1>0. r = [present |-> yes, id |-> r.id, segments |-> r.segments,
           finalized |-> r.finalized, interrupted |-> r.interrupted,
           blocked |-> r.blocked, completion |-> r.completion]
  BY <1>1 DEF yes
<1>2. /\ e = [present |-> e.present, id |-> e.id, segments |-> e.segments,
              finalized |-> e.finalized, interrupted |-> e.interrupted,
              blocked |-> e.blocked, completion |-> e.completion]
      /\ e.present = yes /\ e.segments = r.segments
  <2> HIDE DEF e
  <2>1. r = [present |-> r.present, id |-> r.id, segments |-> r.segments,
             finalized |-> r.finalized, interrupted |-> r.interrupted,
             blocked |-> r.blocked, completion |-> r.completion] /\ r.present = yes
    BY ONLY <1>0
  <2>2. e = [present |-> r.present, id |-> r.id, segments |-> r.segments,
             finalized |-> r.finalized, interrupted |-> b,
             blocked |-> b, completion |-> r.completion]
    BY ONLY <2>1, <1>9
  <2> QED
    BY <2>1, <2>2
<1>3. f = [present |-> yes, id |-> r.id, segments |-> r.segments + 1,
           finalized |-> r.finalized, interrupted |-> r.interrupted,
           blocked |-> r.blocked, completion |-> r.completion]
  BY <1>0
<1> HIDE DEF e, f
<1>4. RecordOK(e) /\ e.present
  BY <1>1, <1>2 DEF RecordOK, yes
<1>5. RecordOK(f) /\ f.present
  BY <1>1, <1>3 DEF RecordOK, yes
<1> QED
  BY <1>4, <1>5 DEF e, f

(* parse_segment.                                                          *)
SlotStep(m, retired, v, n) ==
  LET s == n - 1
      page == m[Slot(s)]
      r == v.records[page.root]
  IN IF page = Missing \/ page.id \in retired THEN v
     ELSE IF ~SegmentValid(page, v.records) THEN [v EXCEPT !.ok = FALSE]
     ELSE [v EXCEPT !.used[s] = page.kind,
                    !.records[page.root] =
                      IF page.kind = "INTENT" THEN [r EXCEPT !.blocked = TRUE, !.interrupted = TRUE]
                      ELSE [r EXCEPT !.segments = r.segments + 1]]
SlotsTo(m, retired, found, v, n) ==
  /\ v = [ok |-> v.ok, records |-> v.records, used |-> v.used] /\ RecordsOK(v.records)
  /\ v.used \in [SlotNo -> {"FREE", "INTENT", "COMMIT"}]
  /\ \A r \in RootNo : v.records[r].present <=> found.records[r].present
  /\ \A s \in SlotNo : v.used[s] = "COMMIT" => m[Slot(s)].kind = "COMMIT"
  /\ v.ok => /\ found.ok
             /\ \A s \in SlotNo : s < n /\ v.used[s] = "FREE" => FreePage(m[Slot(s)], retired)

(* One slot more.                                                          *)
LEMMA OneSlot ==
  ASSUME NEW m, NEW retired, NEW found, \A s \in SlotNo : SlotPageOK(m[Slot(s)]),
         NEW n \in 1..Slots, NEW v, SlotsTo(m, retired, found, v, n - 1)
  PROVE  SlotsTo(m, retired, found, SlotStep(m, retired, v, n), n)
<1> DEFINE s == n - 1
           page == m[Slot(s)]
<1>1. s \in SlotNo /\ \A i \in SlotNo : i < n <=> i < s \/ i = s
  BY LayoutAssumption DEF LayoutAssumption, SlotNo
<1>2. /\ v = [ok |-> v.ok, records |-> v.records, used |-> v.used] /\ RecordsOK(v.records)
      /\ v.used \in [SlotNo -> {"FREE", "INTENT", "COMMIT"}]
      /\ \A r \in RootNo : v.records[r].present <=> found.records[r].present
      /\ \A i \in SlotNo : v.used[i] = "COMMIT" => m[Slot(i)].kind = "COMMIT"
      /\ v.ok => /\ found.ok
                 /\ \A i \in SlotNo : i < s /\ v.used[i] = "FREE" => FreePage(m[Slot(i)], retired)
  BY DEF SlotsTo
<1>3. CASE page = Missing \/ page.id \in retired
  <2>1. SlotStep(m, retired, v, n) = v
    BY <1>3 DEF SlotStep
  <2>2. FreePage(m[Slot(s)], retired)
    BY <1>3 DEF FreePage
  <2> HIDE DEF s
  <2> QED
    BY <1>1, <1>2, <2>1, <2>2 DEF SlotsTo
<1>4. CASE ~(page = Missing \/ page.id \in retired) /\ ~SegmentValid(page, v.records)
  <2>1. SlotStep(m, retired, v, n) = [v EXCEPT !.ok = FALSE]
    BY <1>4 DEF SlotStep
  <2> DEFINE w == [v EXCEPT !.ok = FALSE]
  <2>2. /\ w = [ok |-> w.ok, records |-> w.records, used |-> w.used]
        /\ w.records = v.records /\ w.used = v.used /\ w.ok = FALSE
    <3>1. \A a, b, c, d : [[ok |-> a, records |-> b, used |-> d] EXCEPT !.ok = c]
                          = [ok |-> c, records |-> b, used |-> d]
      OBVIOUS
    <3> DEFINE no == FALSE
    <3>2. w = [v EXCEPT !.ok = no]
      OBVIOUS
    <3> HIDE DEF w, no
    <3>3. w = [ok |-> no, records |-> v.records, used |-> v.used]
      BY <1>2, <3>1, <3>2
    <3>4. /\ w = [ok |-> w.ok, records |-> w.records, used |-> w.used]
          /\ w.records = v.records /\ w.used = v.used /\ w.ok = no
      BY <3>3
    <3> QED
      BY <3>4 DEF no
  <2> HIDE DEF w, s
  <2>3. SlotsTo(m, retired, found, w, n)
    BY <1>2, <2>2 DEF SlotsTo
  <2> QED
    BY <2>1, <2>3 DEF w
<1>5. CASE ~(page = Missing \/ page.id \in retired) /\ SegmentValid(page, v.records)
  <2> DEFINE k == page.root
             e == IF page.kind = "INTENT"
                  THEN [v.records[k] EXCEPT !.blocked = TRUE, !.interrupted = TRUE]
                  ELSE [v.records[k] EXCEPT !.segments = v.records[k].segments + 1]
             w == [v EXCEPT !.used[s] = page.kind, !.records[k] = e]
             rs == [v.records EXCEPT ![k] = e]
             us == [v.used EXCEPT ![s] = page.kind]
  <2>2. SlotStep(m, retired, v, n) = w
    BY <1>5 DEF SlotStep
  <2>3. page.kind \in {"INTENT", "COMMIT"} /\ v.records[k].present
    BY <1>1, <1>5 DEF SlotPageOK, SegmentValid
  <2>4. k \in RootNo => RecordOK(e) /\ e.present
    <3> SUFFICES ASSUME k \in RootNo PROVE RecordOK(e) /\ e.present
      OBVIOUS
    <3>1. RecordOK(v.records[k])
      BY <1>2 DEF RecordsOK
    <3> HIDE DEF k
    <3>2. CASE page.kind = "INTENT"
      <4> DEFINE yes == TRUE
      <4>1. e = [v.records[k] EXCEPT !.blocked = yes, !.interrupted = yes]
        BY <3>2
      <4> HIDE DEF yes, e
      <4> QED
        BY <2>3, <3>1, <4>1, RecordKept
    <3>3. CASE page.kind # "INTENT"
      <4>1. e = [v.records[k] EXCEPT !.segments = v.records[k].segments + 1]
        BY <3>3
      <4> HIDE DEF e
      <4> QED
        BY <2>3, <3>1, <4>1, RecordKept
    <3> QED
      BY <3>2, <3>3
  <2> HIDE DEF e, k, s
  <2>5. /\ w = [ok |-> w.ok, records |-> w.records, used |-> w.used]
        /\ w.records = rs /\ w.used = us /\ w.ok = v.ok
    <3> DEFINE kind == page.kind
    <3>1. w = [v EXCEPT !.used[s] = kind, !.records[k] = e]
      OBVIOUS
    <3>2. us = [v.used EXCEPT ![s] = kind]
      OBVIOUS
    <3> HIDE DEF w, us, kind
    <3> QED
      BY <1>2, <3>1, <3>2
  <2> HIDE DEF w
  <2>6. RecordsOK(rs) /\ \A i \in RootNo : rs[i] = IF i = k THEN e ELSE v.records[i]
    <3>1. RecordsOK(v.records) /\ v.records = [i \in RootNo |-> v.records[i]]
      BY <1>2 DEF RecordsOK
    <3>2. rs = [i \in RootNo |-> IF i = k THEN e ELSE v.records[i]]
      BY <3>1
    <3> HIDE DEF rs
    <3>3. \A i \in RootNo : rs[i] = IF i = k THEN e ELSE v.records[i]
      BY <3>2
    <3>4. rs = [i \in RootNo |-> rs[i]]
      BY <3>2, <3>3
    <3>5. RecordsOK(rs)
      BY <2>4, <3>1, <3>3, <3>4, RecordChanged
    <3> QED
      BY <3>3, <3>5
  <2>7. /\ us \in [SlotNo -> {"FREE", "INTENT", "COMMIT"}]
        /\ \A i \in SlotNo : us[i] = IF i = s THEN page.kind ELSE v.used[i]
    <3> DEFINE kind == page.kind
    <3>1. us = [v.used EXCEPT ![s] = kind] /\ kind \in {"FREE", "INTENT", "COMMIT"}
      BY <2>3
    <3> HIDE DEF kind, us
    <3>2. /\ us \in [SlotNo -> {"FREE", "INTENT", "COMMIT"}]
          /\ \A i \in SlotNo : us[i] = IF i = s THEN kind ELSE v.used[i]
      BY <1>2, <3>1
    <3> QED
      BY <3>2 DEF kind
  <2> HIDE DEF rs, us
  <2>8. \A r \in RootNo : rs[r].present <=> found.records[r].present
    BY <1>2, <2>3, <2>4, <2>6
  <2>9. \A i \in SlotNo : us[i] = "COMMIT" => m[Slot(i)].kind = "COMMIT"
    BY <1>2, <2>7
  <2>10. \A i \in SlotNo : i < n /\ us[i] = "FREE" => i < s /\ v.used[i] = "FREE"
    BY <1>1, <2>3, <2>7
  <2>11. SlotsTo(m, retired, found, w, n)
    BY <1>2, <2>5, <2>6, <2>7, <2>8, <2>9, <2>10 DEF SlotsTo
  <2> QED
    BY <2>2, <2>11
<1> QED
  BY <1>3, <1>4, <1>5

(* The slots a recovery finds.                                             *)
LEMMA SlotsScanned ==
  ASSUME NEW m, NEW retired, NEW found, RecordsOK(found.records),
         \A s \in SlotNo : SlotPageOK(m[Slot(s)])
  PROVE  SlotsTo(m, retired, found, ScanSlots(m, retired, found), Slots)
<1> DEFINE base == [ok |-> found.ok, records |-> found.records, used |-> NoStore.used]
           Step(v, n) == SlotStep(m, retired, v, n)
           Body(f, n) == IF n = 0 THEN base ELSE Step(f[n - 1], n)
           Solves(f) == f = [n \in 0..Slots |-> Body(f, n)]
           scan == CHOOSE f : Solves(f)
<1>1. Slots \in Nat
  BY LayoutAssumption DEF LayoutAssumption
<1>2. \E f : Solves(f)
  <2> HIDE DEF base, Step
  <2> DEFINE Upto(f, j) == \A n \in 0..j : f[n] = Body(f, n)
             From == {j \in 0..Slots : \E f : f = [n \in 0..Slots |-> f[n]] /\ Upto(f, j)}
  <2>1. 0 \in From
    <3> DEFINE f == [n \in 0..Slots |-> base]
    <3>1. f = [n \in 0..Slots |-> f[n]] /\ Upto(f, 0)
      BY <1>1
    <3> HIDE DEF f, Upto
    <3> QED
      BY <1>1, <3>1
  <2>2. PICK j \in From : \A i \in From : j >= i
    <3>1. From \subseteq Nat /\ \A i \in From : i <= Slots
      BY <1>1
    <3> HIDE DEF From
    <3> QED
      BY <1>1, <2>1, <3>1, Greatest
  <2>3. j \in 0..Slots /\ \E f : f = [n \in 0..Slots |-> f[n]] /\ Upto(f, j)
    BY <2>2
  <2>4. PICK f : f = [n \in 0..Slots |-> f[n]] /\ Upto(f, j)
    BY <2>3
  <2>5. j = Slots
    <3> SUFFICES ASSUME j # Slots PROVE FALSE
      OBVIOUS
    <3> DEFINE e == Step(f[j], j + 1)
               f2 == [n \in 0..Slots |-> IF n = j + 1 THEN e ELSE f[n]]
    <3>1. j + 1 \in 0..Slots /\ (j + 1) - 1 = j /\ j + 1 # 0 /\ ~(j >= j + 1)
      BY <1>1, <2>3
    <3> HIDE DEF e
    <3>2. \A n \in 0..Slots : f2[n] = IF n = j + 1 THEN e ELSE f[n]
      OBVIOUS
    <3>3. f2 = [n \in 0..Slots |-> f2[n]]
      OBVIOUS
    <3> HIDE DEF f2
    <3>4. ASSUME NEW n \in 0..j+1 PROVE f2[n] = Body(f2, n)
      <4>1. CASE n = j + 1
        <5>1. f2[j] = f[j] /\ f2[n] = e
          BY <4>1, <1>1, <2>3, <3>1, <3>2
        <5> QED
          BY <4>1, <5>1, <3>1 DEF e
      <4>2. CASE n # j + 1
        <5>1. n \in 0..j /\ n \in 0..Slots /\ (n # 0 => n - 1 \in 0..Slots /\ n - 1 # j + 1)
          BY <4>2, <1>1, <2>3, <3>1
        <5>2. f[n] = Body(f, n)
          BY <5>1, <2>4
        <5>3. f2[n] = f[n] /\ (n # 0 => f2[n - 1] = f[n - 1])
          BY <4>2, <5>1, <3>2
        <5> QED
          BY <5>2, <5>3
      <4> QED
        BY <4>1, <4>2
    <3>5. Upto(f2, j + 1)
      BY <3>4
    <3>6. j + 1 \in From
      <4> HIDE DEF Upto
      <4> QED
        BY <3>1, <3>3, <3>5
    <3> HIDE DEF From
    <3> QED
      BY <2>2, <3>1, <3>6
  <2>6. \A n \in 0..Slots : f[n] = Body(f, n)
    BY <2>4, <2>5
  <2> HIDE DEF Body
  <2>7. f = [n \in 0..Slots |-> Body(f, n)]
    BY <2>4, <2>6
  <2> QED
    BY <2>7
<1>3. Solves(scan)
  <2> HIDE DEF Solves
  <2> QED
    BY <1>2
<1>4. scan[0] = base /\ \A n \in 1..Slots : scan[n] = Step(scan[n - 1], n)
  <2> HIDE DEF scan, base, Step
  <2>1. \A n \in 0..Slots : scan[n] = Body(scan, n)
    <3> HIDE DEF Body
    <3> QED
      BY <1>3
  <2>2. \A n \in 1..Slots : n \in 0..Slots /\ n # 0
    BY <1>1
  <2> QED
    BY <1>1, <2>1, <2>2
<1> DEFINE Good(n) == SlotsTo(m, retired, found, scan[n], n)
<1>5. Good(0)
  <2>1. /\ base.ok = found.ok /\ base.records = found.records /\ base.used = NoStore.used
        /\ \A s \in SlotNo : ~(s < 0)
    BY <1>1 DEF SlotNo
  <2>2. base = [ok |-> base.ok, records |-> base.records, used |-> base.used]
    OBVIOUS
  <2>3. base.used = [s \in SlotNo |-> "FREE"]
    BY <2>1, NoRecords
  <2> HIDE DEF base, scan
  <2>4. base.used \in [SlotNo -> {"FREE", "INTENT", "COMMIT"}] /\ \A s \in SlotNo : base.used[s] = "FREE"
    BY <2>3
  <2> QED
    BY <1>4, <2>1, <2>2, <2>4 DEF SlotsTo
<1>6. ASSUME NEW n \in 1..Slots, Good(n - 1) PROVE Good(n)
  <2> HIDE DEF scan
  <2> QED
    BY <1>4, <1>6, OneSlot
<1>7. \A n \in 0..Slots : Good(n)
  <2> HIDE DEF Good
  <2> DEFINE Bad == {n \in 0..Slots : ~Good(n)}
  <2>1. SUFFICES ASSUME Bad # {} PROVE FALSE
    OBVIOUS
  <2>2. PICK n \in Bad : \A i \in Bad : n <= i
    <3>1. Bad \subseteq Nat
      BY <1>1
    <3> HIDE DEF Bad
    <3> QED
      BY <2>1, <3>1, LeastNumber
  <2>3. n \in 1..Slots /\ n - 1 \in 0..Slots /\ ~(n <= n - 1)
    BY <1>1, <1>5, <2>2
  <2>4. Good(n - 1)
    BY <2>2, <2>3
  <2> QED
    BY <1>6, <2>2, <2>3, <2>4
<1>8. Good(Slots)
  <2> HIDE DEF Good
  <2> QED
    BY <1>1, <1>7
<1>9. ScanSlots(m, retired, found) = scan[Slots]
  BY DEF ScanSlots, SlotStep
<1> QED
  BY <1>8, <1>9

(* What a recovery makes of the store.                                     *)
Rebuilt(ids, found) ==
  [NoStore EXCEPT !.mounted = TRUE, !.retired = ids,
                  !.records = found.records, !.used = found.used]

(* A recovered store knows what is free and what is committed.             *)
LEMMA Recovered ==
  ASSUME NEW m, NEW ids, \A s \in SlotNo : SlotPageOK(m[Slot(s)]),
         NEW found, found = Recovery(m, ids), found.ok,
         NEW o, o = Rebuilt(ids, found), NEW I
  PROVE  StoreSound(I, m, o) /\ o.mounted /\ o.retired = ids /\ o.job = "NONE"
<1> DEFINE roots == ScanRoots(m, ids)
           all == ScanSlots(m, ids, roots)
           fine == all.ok /\ CompletionsHold(all.records)
<1>1. RootsTo(m, ids, roots, Roots)
  BY RootsScanned
<1>2. RecordsOK(roots.records)
  BY <1>1 DEF RootsTo
<1> HIDE DEF roots
<1>3. SlotsTo(m, ids, roots, all, Slots)
  BY <1>2, SlotsScanned
<1>4. found = [all EXCEPT !.ok = fine]
  BY DEF Recovery, roots
<1> HIDE DEF all, fine
<1>5. all = [ok |-> all.ok, records |-> all.records, used |-> all.used]
  BY <1>3 DEF SlotsTo
<1>6. found.records = all.records /\ found.used = all.used /\ found.ok = fine
  BY ONLY <1>4, <1>5
<1>7. all.ok /\ roots.ok
  BY <1>3, <1>6 DEF fine, SlotsTo
<1> DEFINE rs == found.records
           us == found.used
<1>8. /\ RecordsOK(rs) /\ us \in [SlotNo -> {"FREE", "INTENT", "COMMIT"}]
      /\ \A s \in SlotNo : us[s] = "COMMIT" => m[Slot(s)].kind = "COMMIT"
      /\ \A s \in SlotNo : us[s] = "FREE" => FreePage(m[Slot(s)], ids)
  <2>1. \A s \in SlotNo : s < Slots
    BY LayoutAssumption DEF LayoutAssumption, SlotNo
  <2> QED
    BY <1>3, <1>6, <1>7, <2>1 DEF SlotsTo
<1>9. \A r \in RootNo : ~rs[r].present => FreePage(m[Root(r)], ids)
  <2>1. \A r \in RootNo : r < Roots
    BY LayoutAssumption DEF LayoutAssumption, RootNo
  <2> QED
    BY <1>1, <1>3, <1>6, <1>7, <2>1 DEF SlotsTo, RootsTo
<1> DEFINE yes == TRUE
           none == FALSE
<1>10. o = [mounted |-> yes, job |-> "NONE", stage |-> 0, ready |-> none, index |-> 0,
            active |-> NoRoot, root |-> NoRoot, slot |-> 0, seg |-> NoSeg,
            pending |-> NoRecord, retired |-> ids, records |-> rs, used |-> us]
  BY DEF NoStore, Rebuilt
<1> HIDE DEF yes, none, rs, us
<1>11. /\ o.mounted = yes /\ o.job = "NONE" /\ o.stage = 0 /\ o.ready = none /\ o.index = 0
       /\ o.active = NoRoot /\ o.root = NoRoot /\ o.slot = 0 /\ o.seg = NoSeg
       /\ o.pending = NoRecord /\ o.retired = ids /\ o.records = rs /\ o.used = us
       /\ o = [mounted |-> o.mounted, job |-> o.job, stage |-> o.stage, ready |-> o.ready,
               index |-> o.index, active |-> o.active, root |-> o.root, slot |-> o.slot,
               seg |-> o.seg, pending |-> o.pending, retired |-> o.retired,
               records |-> o.records, used |-> o.used]
  BY ONLY <1>10
<1>12. o.mounted \in BOOLEAN /\ o.mounted /\ o.ready \in BOOLEAN /\ ~o.ready
  BY <1>11 DEF yes, none
<1>13. StoreShape(o)
  BY <1>8, <1>11, <1>12 DEF StoreShape, RecordsOK
<1>14. Slotted(m, o)
  BY <1>8, <1>11 DEF Slotted
<1>15. Rooted(m, o)
  BY <1>9, <1>11 DEF Rooted
<1>16. SegmentJob(I, m, o) /\ RootJob(I, m, o)
  BY <1>11 DEF SegmentJob, RootJob
<1> QED
  BY <1>11, <1>12, <1>13, <1>14, <1>15, <1>16 DEF StoreSound

(* A context that was never mounted.                                       *)
LEMMA UnmountedStore ==
  /\ StoreShape(NoStore) /\ NoStore.mounted = FALSE /\ NoStore.job = "NONE"
  /\ NoStore.retired = {} /\ NoStore.active = NoRoot /\ ~NoStore.ready
<1> DEFINE no == FALSE
<1>1. NoStore = [mounted |-> no, job |-> "NONE", stage |-> 0, ready |-> no, index |-> 0,
            active |-> NoRoot, root |-> NoRoot, slot |-> 0, seg |-> NoSeg,
            pending |-> NoRecord, retired |-> {}, records |-> NoStore.records,
            used |-> NoStore.used]
  BY DEF NoStore
<1> DEFINE o == NoStore
<1> HIDE DEF no, o
<1>2. o = [mounted |-> no, job |-> "NONE", stage |-> 0, ready |-> no, index |-> 0,
            active |-> NoRoot, root |-> NoRoot, slot |-> 0, seg |-> NoSeg,
            pending |-> NoRecord, retired |-> {}, records |-> o.records, used |-> o.used]
  BY <1>1 DEF o
<1>3. /\ o.mounted = no /\ o.job = "NONE" /\ o.stage = 0 /\ o.ready = no /\ o.index = 0
      /\ o.active = NoRoot /\ o.retired = {}
      /\ o = [mounted |-> o.mounted, job |-> o.job, stage |-> o.stage, ready |-> o.ready,
               index |-> o.index, active |-> o.active, root |-> o.root, slot |-> o.slot,
               seg |-> o.seg, pending |-> o.pending, retired |-> o.retired,
               records |-> o.records, used |-> o.used]
  BY ONLY <1>2
<1>4. RecordsOK(o.records) /\ o.used = [s \in SlotNo |-> "FREE"]
  BY NoRecords DEF o
<1>5. o.used \in [SlotNo -> {"FREE", "INTENT", "COMMIT"}]
  BY <1>4
<1>6. o.mounted \in BOOLEAN /\ ~o.mounted /\ o.ready \in BOOLEAN /\ ~o.ready
  BY <1>3 DEF no
<1>7. StoreShape(o)
  BY <1>3, <1>4, <1>5, <1>6 DEF StoreShape, RecordsOK, o
<1> QED
  BY <1>3, <1>6, <1>7 DEF o, no
-----------------------------------------------------------------------------
(* The jobs of the object store.                                           *)

(* The first of some numbers is one of them.                               *)
LEMMA FirstIn ==
  ASSUME NEW S, S \subseteq Nat, S # {}
  PROVE  First(S) \in S
BY LeastNumber DEF First

(* A record that is finalized.                                             *)
LEMMA RecordEnded ==
  ASSUME NEW r, RecordOK(r), r.present, NEW a, NEW b, NEW e,
         e = [r EXCEPT !.finalized = a, !.completion = b]
  PROVE  RecordOK(e) /\ e.present
<1> DEFINE yes == TRUE
<1>1. r = [present |-> yes, id |-> r.id, segments |-> r.segments,
           finalized |-> r.finalized, interrupted |-> r.interrupted,
           blocked |-> r.blocked, completion |-> r.completion] /\ r.segments \in Nat
  BY DEF RecordOK
<1>2. e = [r EXCEPT !.finalized = a, !.completion = b]
  OBVIOUS
<1> HIDE DEF yes
<1>3. r = [present |-> r.present, id |-> r.id, segments |-> r.segments,
           finalized |-> r.finalized, interrupted |-> r.interrupted,
           blocked |-> r.blocked, completion |-> r.completion] /\ r.present = yes
  BY ONLY <1>1
<1>4. e = [present |-> r.present, id |-> r.id, segments |-> r.segments,
           finalized |-> a, interrupted |-> r.interrupted,
           blocked |-> r.blocked, completion |-> b]
  BY ONLY <1>2, <1>3
<1>5. /\ e = [present |-> e.present, id |-> e.id, segments |-> e.segments,
              finalized |-> e.finalized, interrupted |-> e.interrupted,
              blocked |-> e.blocked, completion |-> e.completion]
      /\ e.present = yes /\ e.segments = r.segments
  BY ONLY <1>3, <1>4
<1> QED
  BY <1>1, <1>5 DEF RecordOK, yes

(* What the parts of StoreSound say of a mounted store.                    *)
StoreParts(I, m, o) ==
  StoreShape(o) /\ Slotted(m, o) /\ Rooted(m, o) /\ SegmentJob(I, m, o) /\ RootJob(I, m, o)

(* What ros_reserve makes of the store.                                    *)
Reserved(o, root, pending) ==
  [[o EXCEPT !.job = "RESERVE", !.stage = 0, !.ready = FALSE, !.index = 0]
      EXCEPT !.root = root, !.pending = pending]

(* ros_reserve.                                                            *)
LEMMA ReserveSound ==
  ASSUME NEW I, NEW m, NEW o, StoreParts(I, m, o), o.mounted,
         o.job = "NONE", o.active = NoRoot, NEW root \in RootNo, ~o.records[root].present,
         NEW pending, RecordOK(pending), pending.present,
         NEW o2, o2 = Reserved(o, root, pending)
  PROVE  /\ StoreParts(I, m, o2) /\ o2.mounted /\ o2.retired = o.retired
<1>0. /\ StoreShape(o) /\ Slotted(m, o) /\ Rooted(m, o) /\ SegmentJob(I, m, o) /\ RootJob(I, m, o)
  BY DEF StoreParts
<1>1. /\ o2.mounted = o.mounted /\ o2.job = "RESERVE" /\ o2.stage = 0 /\ o2.ready = FALSE
      /\ o2.index = 0 /\ o2.active = o.active /\ o2.root = root /\ o2.slot = o.slot
      /\ o2.seg = o.seg /\ o2.pending = pending /\ o2.retired = o.retired
      /\ o2.records = o.records /\ o2.used = o.used
      /\ o2 = [mounted |-> o2.mounted, job |-> o2.job, stage |-> o2.stage,
               ready |-> o2.ready, index |-> o2.index, active |-> o2.active,
               root |-> o2.root, slot |-> o2.slot, seg |-> o2.seg,
               pending |-> o2.pending, retired |-> o2.retired,
               records |-> o2.records, used |-> o2.used]
  BY <1>0 DEF StoreShape, Reserved
<1>16. o2.job \in {"NONE", "RESERVE", "SEGMENT", "FINALIZE", "LOAD"} /\ o2.index \in Nat
  BY ONLY <1>1
<1>17. o2.ready \in BOOLEAN
  BY ONLY <1>1
<1>18. o2.mounted /\ o2.mounted \in BOOLEAN
  <2>1. o2.mounted = o.mounted
    BY <1>1
  <2>2. o.mounted \in BOOLEAN /\ o.mounted
    BY <1>0 DEF StoreShape
  <2> QED
    BY ONLY <2>1, <2>2
<1>21. StoreShape(o2)
  <2>1. /\ o2.active \in RootNo \cup {NoRoot} /\ o2.records = [r \in RootNo |-> o2.records[r]]
        /\ \A r \in RootNo : RecordOK(o2.records[r])
        /\ o2.used \in [SlotNo -> {"FREE", "INTENT", "COMMIT"}]
    BY <1>0, <1>1 DEF StoreShape
  <2> QED
    BY <1>1, <1>16, <1>17, <1>18, <2>1 DEF StoreShape
<1>22. Slotted(m, o2)
  BY <1>0, <1>1 DEF Slotted, Intending
<1>23. Rooted(m, o2)
  BY <1>0, <1>1 DEF Rooted, Reserving, Finalizing, RootJob
<1>24. SegmentJob(I, m, o2)
  BY <1>0, <1>1 DEF SegmentJob, PayloadTo
<1>25. RootJob(I, m, o2)
  BY <1>0, <1>1 DEF RootJob, RootPageOf
<1> QED
  BY <1>1, <1>21, <1>22, <1>23, <1>24, <1>25 DEF StoreParts

(* What ros_finalize makes of the store.                                   *)
EndReserved(o, pending) ==
  [[o EXCEPT !.job = "FINALIZE", !.stage = 0, !.ready = FALSE, !.index = 0]
      EXCEPT !.root = o.active, !.pending = pending]

(* ros_finalize.                                                           *)
LEMMA FinalizeSound ==
  ASSUME NEW I, NEW m, NEW o, StoreParts(I, m, o), o.mounted,
         o.job = "NONE", o.active # NoRoot,
         NEW pending, RecordOK(pending), pending.present,
         NEW o2, o2 = EndReserved(o, pending)
  PROVE  /\ StoreParts(I, m, o2) /\ o2.mounted /\ o2.retired = o.retired
<1>0. /\ StoreShape(o) /\ Slotted(m, o) /\ Rooted(m, o) /\ SegmentJob(I, m, o) /\ RootJob(I, m, o)
  BY DEF StoreParts
<1>1. /\ o2.mounted = o.mounted /\ o2.job = "FINALIZE" /\ o2.stage = 0 /\ o2.ready = FALSE
      /\ o2.index = 0 /\ o2.active = o.active /\ o2.root = o.active /\ o2.slot = o.slot
      /\ o2.seg = o.seg /\ o2.pending = pending /\ o2.retired = o.retired
      /\ o2.records = o.records /\ o2.used = o.used
      /\ o2 = [mounted |-> o2.mounted, job |-> o2.job, stage |-> o2.stage,
               ready |-> o2.ready, index |-> o2.index, active |-> o2.active,
               root |-> o2.root, slot |-> o2.slot, seg |-> o2.seg,
               pending |-> o2.pending, retired |-> o2.retired,
               records |-> o2.records, used |-> o2.used]
  BY <1>0 DEF StoreShape, EndReserved
<1>2. o.active \in RootNo
  BY <1>0 DEF Rooted
<1>16. o2.job \in {"NONE", "RESERVE", "SEGMENT", "FINALIZE", "LOAD"} /\ o2.index \in Nat
  BY ONLY <1>1
<1>17. o2.ready \in BOOLEAN
  BY ONLY <1>1
<1>18. o2.mounted /\ o2.mounted \in BOOLEAN
  <2>1. o2.mounted = o.mounted
    BY <1>1
  <2>2. o.mounted \in BOOLEAN /\ o.mounted
    BY <1>0 DEF StoreShape
  <2> QED
    BY ONLY <2>1, <2>2
<1>21. StoreShape(o2)
  <2>1. /\ o2.active \in RootNo \cup {NoRoot} /\ o2.records = [r \in RootNo |-> o2.records[r]]
        /\ \A r \in RootNo : RecordOK(o2.records[r])
        /\ o2.used \in [SlotNo -> {"FREE", "INTENT", "COMMIT"}]
    BY <1>0, <1>1 DEF StoreShape
  <2> QED
    BY <1>1, <1>16, <1>17, <1>18, <2>1 DEF StoreShape
<1>22. Slotted(m, o2)
  BY <1>0, <1>1 DEF Slotted, Intending
<1>23. Rooted(m, o2)
  BY <1>0, <1>1 DEF Rooted, Reserving, Finalizing, RootJob
<1>24. SegmentJob(I, m, o2)
  BY <1>0, <1>1 DEF SegmentJob, PayloadTo
<1>25. RootJob(I, m, o2)
  BY <1>0, <1>1, <1>2 DEF RootJob, RootPageOf
<1> QED
  BY <1>1, <1>21, <1>22, <1>23, <1>24, <1>25 DEF StoreParts

(* SyncRoot, SyncIntent: what was written is all there is.                 *)
LEMMA SyncSound ==
  ASSUME NEW I, NEW m, NEW o, StoreParts(I, m, o), o.mounted,
         o.job \in {"RESERVE", "FINALIZE", "SEGMENT"}, o.stage = 1, ~o.ready,
         NEW o2, o2 = [o EXCEPT !.stage = 2]
  PROVE  /\ StoreParts({m}, m, o2) /\ o2.mounted /\ o2.retired = o.retired
<1>0. /\ StoreShape(o) /\ Slotted(m, o) /\ Rooted(m, o) /\ SegmentJob(I, m, o) /\ RootJob(I, m, o)
  BY DEF StoreParts
<1>1. /\ o2.mounted = o.mounted /\ o2.job = o.job /\ o2.stage = 2 /\ o2.ready = o.ready
      /\ o2.index = o.index /\ o2.active = o.active /\ o2.root = o.root /\ o2.slot = o.slot
      /\ o2.seg = o.seg /\ o2.pending = o.pending /\ o2.retired = o.retired
      /\ o2.records = o.records /\ o2.used = o.used
      /\ o2 = [mounted |-> o2.mounted, job |-> o2.job, stage |-> o2.stage,
               ready |-> o2.ready, index |-> o2.index, active |-> o2.active,
               root |-> o2.root, slot |-> o2.slot, seg |-> o2.seg,
               pending |-> o2.pending, retired |-> o2.retired,
               records |-> o2.records, used |-> o2.used]
  BY <1>0 DEF StoreShape
<1>21. StoreShape(o2)
  BY <1>0, <1>1 DEF StoreShape
<1>22. Slotted(m, o2)
  BY <1>0, <1>1 DEF Slotted, Intending
<1>23. Rooted(m, o2)
  BY <1>0, <1>1 DEF Rooted, Reserving, Finalizing, RootJob
<1>24. SegmentJob({m}, m, o2)
  BY <1>0, <1>1 DEF SegmentJob, PayloadTo
<1>25. RootJob({m}, m, o2)
  BY <1>0, <1>1 DEF RootJob, RootPageOf
<1> QED
  BY <1>1, <1>21, <1>22, <1>23, <1>24, <1>25 DEF StoreParts

(* What VerifyRoot makes of the store.                                     *)
RootVerified(o) ==
  [o EXCEPT !.ready = TRUE, !.records[o.root] = o.pending,
      !.active = IF o.job = "RESERVE" THEN o.root ELSE NoRoot]

(* VerifyRoot.                                                             *)
LEMMA VerifyRootSound ==
  ASSUME NEW I, NEW m, NEW o, StoreParts(I, m, o), o.mounted,
         o.job \in {"RESERVE", "FINALIZE"}, o.stage = 2, ~o.ready,
         m[Root(o.root)] = RootPageOf(o),
         NEW o2, o2 = RootVerified(o)
  PROVE  /\ StoreParts(I, m, o2) /\ o2.mounted /\ o2.retired = o.retired
<1>0. /\ StoreShape(o) /\ Slotted(m, o) /\ Rooted(m, o) /\ SegmentJob(I, m, o) /\ RootJob(I, m, o)
  BY DEF StoreParts
<1>1. /\ o2.mounted = o.mounted /\ o2.job = o.job /\ o2.stage = o.stage /\ o2.ready = TRUE
      /\ o2.index = o.index /\ o2.active = (IF o.job = "RESERVE" THEN o.root ELSE NoRoot)
      /\ o2.root = o.root /\ o2.slot = o.slot /\ o2.seg = o.seg /\ o2.pending = o.pending
      /\ o2.retired = o.retired /\ o2.records = [o.records EXCEPT ![o.root] = o.pending]
      /\ o2.used = o.used
      /\ o2 = [mounted |-> o2.mounted, job |-> o2.job, stage |-> o2.stage,
               ready |-> o2.ready, index |-> o2.index, active |-> o2.active,
               root |-> o2.root, slot |-> o2.slot, seg |-> o2.seg,
               pending |-> o2.pending, retired |-> o2.retired,
               records |-> o2.records, used |-> o2.used]
  BY <1>0 DEF StoreShape, RootVerified
<1>2. o.root \in RootNo /\ o.pending.present /\ RecordOK(o.pending) /\ I = {m}
  BY <1>0 DEF RootJob
<1>3. /\ o2.records = [r \in RootNo |-> o2.records[r]]
      /\ \A r \in RootNo : o2.records[r] = IF r = o.root THEN o.pending ELSE o.records[r]
  BY <1>0, <1>1, <1>2 DEF StoreShape
<1>4. \A r \in RootNo : RecordOK(o2.records[r])
  BY <1>0, <1>2, <1>3 DEF StoreShape
<1>5. o.job = "RESERVE" => m[Root(o.root)].kind = "ACTIVE"
  BY DEF RootPageOf, RootPage
<1>21. StoreShape(o2)
  BY <1>0, <1>1, <1>2, <1>3, <1>4 DEF StoreShape
<1>22. Slotted(m, o2)
  BY <1>0, <1>1 DEF Slotted, Intending
<1>23. Rooted(m, o2)
  BY <1>0, <1>1, <1>2, <1>3, <1>5 DEF Rooted, Reserving, Finalizing, RootJob
<1>24. SegmentJob(I, m, o2)
  BY <1>0, <1>1 DEF SegmentJob, PayloadTo
<1>25. RootJob(I, m, o2)
  BY <1>0, <1>1, <1>2, <1>3 DEF RootJob, RootPageOf
<1> QED
  BY <1>1, <1>21, <1>22, <1>23, <1>24, <1>25 DEF StoreParts

(* What ros_prepare and ros_prepare_deferred makes of the store.           *)
SlotTaken(o, stage, slot, seg) ==
  [[o EXCEPT !.job = "SEGMENT", !.stage = 0, !.ready = FALSE, !.index = 0]
      EXCEPT !.stage = stage, !.slot = slot, !.seg = seg]

(* ros_prepare and ros_prepare_deferred.                                   *)
LEMMA PrepareSound ==
  ASSUME NEW I, NEW m, NEW o, StoreParts(I, m, o), o.mounted,
         o.job = "NONE", o.active # NoRoot, NEW stage \in {0, 9},
         NEW slot \in SlotNo, o.used[slot] = "FREE",
         NEW seg, seg = [id |-> seg.id, root |-> seg.root, seq |-> seg.seq],
         NEW o2, o2 = SlotTaken(o, stage, slot, seg)
  PROVE  /\ StoreParts(I, m, o2) /\ o2.mounted /\ o2.retired = o.retired
<1>0. /\ StoreShape(o) /\ Slotted(m, o) /\ Rooted(m, o) /\ SegmentJob(I, m, o) /\ RootJob(I, m, o)
  BY DEF StoreParts
<1>1. /\ o2.mounted = o.mounted /\ o2.job = "SEGMENT" /\ o2.stage = stage
      /\ o2.ready = FALSE /\ o2.index = 0 /\ o2.active = o.active /\ o2.root = o.root
      /\ o2.slot = slot /\ o2.seg = seg /\ o2.pending = o.pending /\ o2.retired = o.retired
      /\ o2.records = o.records /\ o2.used = o.used
      /\ o2 = [mounted |-> o2.mounted, job |-> o2.job, stage |-> o2.stage,
               ready |-> o2.ready, index |-> o2.index, active |-> o2.active,
               root |-> o2.root, slot |-> o2.slot, seg |-> o2.seg,
               pending |-> o2.pending, retired |-> o2.retired,
               records |-> o2.records, used |-> o2.used]
  BY <1>0 DEF StoreShape, SlotTaken
<1>2. o.active \in RootNo /\ o.used[slot] = "FREE"
  BY <1>0, <1>1 DEF Rooted
<1>16. o2.job \in {"NONE", "RESERVE", "SEGMENT", "FINALIZE", "LOAD"} /\ o2.index \in Nat
  BY ONLY <1>1
<1>17. o2.ready \in BOOLEAN
  BY ONLY <1>1
<1>18. o2.mounted /\ o2.mounted \in BOOLEAN
  <2>1. o2.mounted = o.mounted
    BY <1>1
  <2>2. o.mounted \in BOOLEAN /\ o.mounted
    BY <1>0 DEF StoreShape
  <2> QED
    BY ONLY <2>1, <2>2
<1>21. StoreShape(o2)
  <2>1. /\ o2.active \in RootNo \cup {NoRoot} /\ o2.records = [r \in RootNo |-> o2.records[r]]
        /\ \A r \in RootNo : RecordOK(o2.records[r])
        /\ o2.used \in [SlotNo -> {"FREE", "INTENT", "COMMIT"}]
    BY <1>0, <1>1 DEF StoreShape
  <2> QED
    BY <1>1, <1>16, <1>17, <1>18, <2>1 DEF StoreShape
<1>22. Slotted(m, o2)
  BY <1>0, <1>1 DEF Slotted, Intending
<1>23. Rooted(m, o2)
  BY <1>0, <1>1 DEF Rooted, Reserving, Finalizing, RootJob
<1>24. SegmentJob(I, m, o2)
  BY <1>0, <1>1, <1>2 DEF SegmentJob, PayloadTo
<1>25. RootJob(I, m, o2)
  BY <1>0, <1>1 DEF RootJob, RootPageOf
<1> QED
  BY <1>1, <1>21, <1>22, <1>23, <1>24, <1>25 DEF StoreParts

(* Seal.                                                                   *)
LEMMA SealSound ==
  ASSUME NEW I, NEW m, NEW o, StoreParts(I, m, o), o.mounted,
         o.job = "SEGMENT", o.stage = 9, ~o.ready, NEW o2, o2 = [o EXCEPT !.stage = 0]
  PROVE  /\ StoreParts(I, m, o2) /\ o2.mounted /\ o2.retired = o.retired
<1>0. /\ StoreShape(o) /\ Slotted(m, o) /\ Rooted(m, o) /\ SegmentJob(I, m, o) /\ RootJob(I, m, o)
  BY DEF StoreParts
<1>1. /\ o2.mounted = o.mounted /\ o2.job = o.job /\ o2.stage = 0 /\ o2.ready = o.ready
      /\ o2.index = o.index /\ o2.active = o.active /\ o2.root = o.root /\ o2.slot = o.slot
      /\ o2.seg = o.seg /\ o2.pending = o.pending /\ o2.retired = o.retired
      /\ o2.records = o.records /\ o2.used = o.used
      /\ o2 = [mounted |-> o2.mounted, job |-> o2.job, stage |-> o2.stage,
               ready |-> o2.ready, index |-> o2.index, active |-> o2.active,
               root |-> o2.root, slot |-> o2.slot, seg |-> o2.seg,
               pending |-> o2.pending, retired |-> o2.retired,
               records |-> o2.records, used |-> o2.used]
  BY <1>0 DEF StoreShape
<1>21. StoreShape(o2)
  BY <1>0, <1>1 DEF StoreShape
<1>22. Slotted(m, o2)
  BY <1>0, <1>1 DEF Slotted, Intending
<1>23. Rooted(m, o2)
  BY <1>0, <1>1 DEF Rooted, Reserving, Finalizing, RootJob
<1>24. SegmentJob(I, m, o2)
  BY <1>0, <1>1 DEF SegmentJob, PayloadTo
<1>25. RootJob(I, m, o2)
  BY <1>0, <1>1 DEF RootJob, RootPageOf
<1> QED
  BY <1>1, <1>21, <1>22, <1>23, <1>24, <1>25 DEF StoreParts

(* What VerifyIntent makes of the store.                                   *)
IntentVerified(o) ==
  [[o EXCEPT !.stage = 3] EXCEPT !.used[o.slot] = "INTENT", !.index = 0]

(* VerifyIntent.                                                           *)
LEMMA VerifyIntentSound ==
  ASSUME NEW I, NEW m, NEW o, StoreParts(I, m, o), o.mounted,
         o.job = "SEGMENT", o.stage = 2, ~o.ready,
         NEW o2, o2 = IntentVerified(o)
  PROVE  /\ StoreParts(I, m, o2) /\ o2.mounted /\ o2.retired = o.retired
<1>0. /\ StoreShape(o) /\ Slotted(m, o) /\ Rooted(m, o) /\ SegmentJob(I, m, o) /\ RootJob(I, m, o)
  BY DEF StoreParts
<1>1. /\ o2.mounted = o.mounted /\ o2.job = o.job /\ o2.stage = 3 /\ o2.ready = o.ready
      /\ o2.index = 0 /\ o2.active = o.active /\ o2.root = o.root /\ o2.slot = o.slot
      /\ o2.seg = o.seg /\ o2.pending = o.pending /\ o2.retired = o.retired
      /\ o2.records = o.records /\ o2.used = [o.used EXCEPT ![o.slot] = "INTENT"]
      /\ o2 = [mounted |-> o2.mounted, job |-> o2.job, stage |-> o2.stage,
               ready |-> o2.ready, index |-> o2.index, active |-> o2.active,
               root |-> o2.root, slot |-> o2.slot, seg |-> o2.seg,
               pending |-> o2.pending, retired |-> o2.retired,
               records |-> o2.records, used |-> o2.used]
  BY <1>0 DEF StoreShape, IntentVerified
<1>2. /\ o.slot \in SlotNo /\ o.used[o.slot] = "FREE" /\ m[Slot(o.slot)] = SlotPage("INTENT", o.seg)
  BY <1>0 DEF SegmentJob
<1>3. /\ o2.used \in [SlotNo -> {"FREE", "INTENT", "COMMIT"}]
      /\ \A s \in SlotNo : o2.used[s] = IF s = o.slot THEN "INTENT" ELSE o.used[s]
  BY <1>0, <1>1, <1>2 DEF StoreShape
<1>4. 0 <= DataPages /\ DataPages \in Nat /\ 1..0 = {}
  BY LayoutAssumption DEF LayoutAssumption
<1>21. StoreShape(o2)
  BY <1>0, <1>1, <1>3 DEF StoreShape
<1>22. Slotted(m, o2)
  BY <1>0, <1>1, <1>2, <1>3 DEF Slotted, Intending
<1>23. Rooted(m, o2)
  BY <1>0, <1>1 DEF Rooted, Reserving, Finalizing, RootJob
<1>24. SegmentJob(I, m, o2)
  BY <1>0, <1>1, <1>2, <1>3, <1>4 DEF SegmentJob, PayloadTo
<1>25. RootJob(I, m, o2)
  BY <1>0, <1>1 DEF RootJob, RootPageOf
<1> QED
  BY <1>1, <1>21, <1>22, <1>23, <1>24, <1>25 DEF StoreParts

(* WritePayload: the last sector of the payload was the one before.        *)
LEMMA PayloadSound ==
  ASSUME NEW I, NEW m, NEW o, StoreParts(I, m, o), o.mounted,
         o.job = "SEGMENT", o.stage = 3, ~o.ready, o.index = DataPages,
         NEW o2, o2 = [o EXCEPT !.stage = 6]
  PROVE  /\ StoreParts(I, m, o2) /\ o2.mounted /\ o2.retired = o.retired
<1>0. /\ StoreShape(o) /\ Slotted(m, o) /\ Rooted(m, o) /\ SegmentJob(I, m, o) /\ RootJob(I, m, o)
  BY DEF StoreParts
<1>1. /\ o2.mounted = o.mounted /\ o2.job = o.job /\ o2.stage = 6 /\ o2.ready = o.ready
      /\ o2.index = o.index /\ o2.active = o.active /\ o2.root = o.root /\ o2.slot = o.slot
      /\ o2.seg = o.seg /\ o2.pending = o.pending /\ o2.retired = o.retired
      /\ o2.records = o.records /\ o2.used = o.used
      /\ o2 = [mounted |-> o2.mounted, job |-> o2.job, stage |-> o2.stage,
               ready |-> o2.ready, index |-> o2.index, active |-> o2.active,
               root |-> o2.root, slot |-> o2.slot, seg |-> o2.seg,
               pending |-> o2.pending, retired |-> o2.retired,
               records |-> o2.records, used |-> o2.used]
  BY <1>0 DEF StoreShape
<1>21. StoreShape(o2)
  BY <1>0, <1>1 DEF StoreShape
<1>22. Slotted(m, o2)
  BY <1>0, <1>1 DEF Slotted, Intending
<1>23. Rooted(m, o2)
  BY <1>0, <1>1 DEF Rooted, Reserving, Finalizing, RootJob
<1>24. SegmentJob(I, m, o2)
  BY <1>0, <1>1 DEF SegmentJob, PayloadTo
<1>25. RootJob(I, m, o2)
  BY <1>0, <1>1 DEF RootJob, RootPageOf
<1> QED
  BY <1>1, <1>21, <1>22, <1>23, <1>24, <1>25 DEF StoreParts

(* What SyncCommit makes of the store.                                     *)
CommitSynced(o) ==
  [o EXCEPT !.index = 0, !.stage = 5]

(* SyncCommit.                                                             *)
LEMMA SyncCommitSound ==
  ASSUME NEW I, NEW m, NEW o, StoreParts(I, m, o), o.mounted,
         o.job = "SEGMENT", o.stage = 7, ~o.ready,
         NEW o2, o2 = CommitSynced(o)
  PROVE  /\ StoreParts({m}, m, o2) /\ o2.mounted /\ o2.retired = o.retired
<1>0. /\ StoreShape(o) /\ Slotted(m, o) /\ Rooted(m, o) /\ SegmentJob(I, m, o) /\ RootJob(I, m, o)
  BY DEF StoreParts
<1>1. /\ o2.mounted = o.mounted /\ o2.job = o.job /\ o2.stage = 5 /\ o2.ready = o.ready
      /\ o2.index = 0 /\ o2.active = o.active /\ o2.root = o.root /\ o2.slot = o.slot
      /\ o2.seg = o.seg /\ o2.pending = o.pending /\ o2.retired = o.retired
      /\ o2.records = o.records /\ o2.used = o.used
      /\ o2 = [mounted |-> o2.mounted, job |-> o2.job, stage |-> o2.stage,
               ready |-> o2.ready, index |-> o2.index, active |-> o2.active,
               root |-> o2.root, slot |-> o2.slot, seg |-> o2.seg,
               pending |-> o2.pending, retired |-> o2.retired,
               records |-> o2.records, used |-> o2.used]
  BY <1>0 DEF StoreShape, CommitSynced
<1>21. StoreShape(o2)
  BY <1>0, <1>1 DEF StoreShape
<1>22. Slotted(m, o2)
  BY <1>0, <1>1 DEF Slotted, Intending
<1>23. Rooted(m, o2)
  BY <1>0, <1>1 DEF Rooted, Reserving, Finalizing, RootJob
<1>24. SegmentJob({m}, m, o2)
  BY <1>0, <1>1 DEF SegmentJob, PayloadTo
<1>25. RootJob({m}, m, o2)
  BY <1>0, <1>1 DEF RootJob, RootPageOf
<1> QED
  BY <1>1, <1>21, <1>22, <1>23, <1>24, <1>25 DEF StoreParts

(* VerifyPayload.                                                          *)
LEMMA VerifyPayloadSound ==
  ASSUME NEW I, NEW m, NEW o, StoreParts(I, m, o), o.mounted,
         o.job = "SEGMENT", o.stage = 5, ~o.ready,
         NEW o2, o2 = [o EXCEPT !.stage = 8] \/ o2 = [o EXCEPT !.index = o.index + 1]
  PROVE  /\ StoreParts(I, m, o2) /\ o2.mounted /\ o2.retired = o.retired
<1>0. /\ StoreShape(o) /\ Slotted(m, o) /\ Rooted(m, o) /\ SegmentJob(I, m, o) /\ RootJob(I, m, o)
  BY DEF StoreParts
<1>1. /\ o2.mounted = o.mounted /\ o2.job = o.job /\ o2.stage = o2.stage
      /\ o2.ready = o.ready /\ o2.index = o2.index /\ o2.active = o.active
      /\ o2.root = o.root /\ o2.slot = o.slot /\ o2.seg = o.seg /\ o2.pending = o.pending
      /\ o2.retired = o.retired /\ o2.records = o.records /\ o2.used = o.used
      /\ o2 = [mounted |-> o2.mounted, job |-> o2.job, stage |-> o2.stage,
               ready |-> o2.ready, index |-> o2.index, active |-> o2.active,
               root |-> o2.root, slot |-> o2.slot, seg |-> o2.seg,
               pending |-> o2.pending, retired |-> o2.retired,
               records |-> o2.records, used |-> o2.used]
  BY <1>0 DEF StoreShape
<1>2. o2.stage \in {5, 8} /\ o2.index \in Nat
  <2>1. CASE o2 = [o EXCEPT !.stage = 8]
    BY <1>0, <2>1 DEF StoreShape
  <2>2. CASE o2 = [o EXCEPT !.index = o.index + 1]
    BY <1>0, <2>2 DEF StoreShape
  <2> QED
    BY <2>1, <2>2
<1>21. StoreShape(o2)
  BY <1>0, <1>1, <1>2 DEF StoreShape
<1>22. Slotted(m, o2)
  BY <1>0, <1>1, <1>2 DEF Slotted, Intending
<1>23. Rooted(m, o2)
  BY <1>0, <1>1 DEF Rooted, Reserving, Finalizing, RootJob
<1>24. SegmentJob(I, m, o2)
  BY <1>0, <1>1, <1>2 DEF SegmentJob, PayloadTo
<1>25. RootJob(I, m, o2)
  BY <1>0, <1>1 DEF RootJob, RootPageOf
<1> QED
  BY <1>1, <1>21, <1>22, <1>23, <1>24, <1>25 DEF StoreParts

(* What VerifyCommit makes of the store.                                   *)
CommitVerified(o) ==
  [o EXCEPT !.ready = TRUE, !.used[o.slot] = "COMMIT",
      !.records[o.active].segments = @ + 1]

(* VerifyCommit.                                                           *)
LEMMA VerifyCommitSound ==
  ASSUME NEW I, NEW m, NEW o, StoreParts(I, m, o), o.mounted,
         o.job = "SEGMENT", o.stage = 8, ~o.ready,
         NEW o2, o2 = CommitVerified(o)
  PROVE  /\ StoreParts(I, m, o2) /\ o2.mounted /\ o2.retired = o.retired
<1>0. /\ StoreShape(o) /\ Slotted(m, o) /\ Rooted(m, o) /\ SegmentJob(I, m, o) /\ RootJob(I, m, o)
  BY DEF StoreParts
<1>1. /\ o2.mounted = o.mounted /\ o2.job = o.job /\ o2.stage = o.stage /\ o2.ready = TRUE
      /\ o2.index = o.index /\ o2.active = o.active /\ o2.root = o.root /\ o2.slot = o.slot
      /\ o2.seg = o.seg /\ o2.pending = o.pending /\ o2.retired = o.retired
      /\ o2.records = [o.records EXCEPT ![o.active].segments = @ + 1]
      /\ o2.used = [o.used EXCEPT ![o.slot] = "COMMIT"]
      /\ o2 = [mounted |-> o2.mounted, job |-> o2.job, stage |-> o2.stage,
               ready |-> o2.ready, index |-> o2.index, active |-> o2.active,
               root |-> o2.root, slot |-> o2.slot, seg |-> o2.seg,
               pending |-> o2.pending, retired |-> o2.retired,
               records |-> o2.records, used |-> o2.used]
  BY <1>0 DEF StoreShape, CommitVerified
<1>2. /\ o.slot \in SlotNo /\ o.active \in RootNo /\ I = {m}
      /\ m[Slot(o.slot)] = SlotPage("COMMIT", o.seg) /\ PayloadTo(m, o, DataPages)
  BY <1>0 DEF SegmentJob
<1>3. /\ o2.used \in [SlotNo -> {"FREE", "INTENT", "COMMIT"}]
      /\ \A s \in SlotNo : o2.used[s] = IF s = o.slot THEN "COMMIT" ELSE o.used[s]
  BY <1>0, <1>1, <1>2 DEF StoreShape
<1>4. NoRoot \notin RootNo
  BY LayoutAssumption DEF LayoutAssumption, NoRoot, RootNo
<1> DEFINE r == o.records[o.active]
           e == [r EXCEPT !.segments = r.segments + 1]
<1>5. RecordOK(r) /\ r.present
  BY <1>0, <1>2, <1>4 DEF StoreShape, Rooted
<1>6. o2.records = [o.records EXCEPT ![o.active] = e]
  BY <1>1
<1> HIDE DEF r
<1>7. RecordOK(e) /\ e.present
  BY <1>5, RecordKept
<1> HIDE DEF e
<1>8. /\ o2.records = [i \in RootNo |-> o2.records[i]]
      /\ \A i \in RootNo : o2.records[i] = IF i = o.active THEN e ELSE o.records[i]
  BY <1>0, <1>2, <1>6 DEF StoreShape
<1>9. \A i \in RootNo : RecordOK(o2.records[i]) /\ (o2.records[i].present <=> o.records[i].present)
  BY <1>0, <1>5, <1>7, <1>8 DEF StoreShape, r
<1>10. m[Slot(o.slot)].kind = "COMMIT"
  BY <1>2 DEF SlotPage
<1>21. StoreShape(o2)
  BY <1>0, <1>1, <1>3, <1>8, <1>9 DEF StoreShape
<1>22. Slotted(m, o2)
  BY <1>0, <1>1, <1>2, <1>3, <1>10 DEF Slotted, Intending
<1>23. Rooted(m, o2)
  BY <1>0, <1>1, <1>9 DEF Rooted, Reserving, Finalizing, RootJob
<1>24. SegmentJob(I, m, o2)
  BY <1>0, <1>1, <1>2 DEF SegmentJob, PayloadTo
<1>25. RootJob(I, m, o2)
  BY <1>0, <1>1 DEF RootJob, RootPageOf
<1> QED
  BY <1>1, <1>21, <1>22, <1>23, <1>24, <1>25 DEF StoreParts

(* What FinishJob makes of the store.                                      *)
Finished(o) ==
  [o EXCEPT !.job = "NONE", !.stage = 0, !.ready = FALSE, !.index = 0,
      !.root = NoRoot, !.slot = 0, !.seg = NoSeg, !.pending = NoRecord]

(* FinishJob: what the job left is on the map.                             *)
LEMMA FinishSound ==
  ASSUME NEW I, NEW m, NEW o, StoreParts(I, m, o), o.mounted,
         o.job \in {"NONE", "LOAD"} \/ o.ready,
         NEW o2, o2 = Finished(o)
  PROVE  /\ StoreParts(I, m, o2) /\ o2.mounted /\ o2.retired = o.retired
         /\ o2.used = o.used /\ o2.job = "NONE"
<1>0. /\ StoreShape(o) /\ Slotted(m, o) /\ Rooted(m, o) /\ SegmentJob(I, m, o) /\ RootJob(I, m, o)
  BY DEF StoreParts
<1>1. /\ o2.mounted = o.mounted /\ o2.job = "NONE" /\ o2.stage = 0 /\ o2.ready = FALSE
      /\ o2.index = 0 /\ o2.active = o.active /\ o2.root = NoRoot /\ o2.slot = 0
      /\ o2.seg = NoSeg /\ o2.pending = NoRecord /\ o2.retired = o.retired
      /\ o2.records = o.records /\ o2.used = o.used
      /\ o2 = [mounted |-> o2.mounted, job |-> o2.job, stage |-> o2.stage,
               ready |-> o2.ready, index |-> o2.index, active |-> o2.active,
               root |-> o2.root, slot |-> o2.slot, seg |-> o2.seg,
               pending |-> o2.pending, retired |-> o2.retired,
               records |-> o2.records, used |-> o2.used]
  BY <1>0 DEF StoreShape, Finished
<1>16. o2.job \in {"NONE", "RESERVE", "SEGMENT", "FINALIZE", "LOAD"} /\ o2.index \in Nat
  BY ONLY <1>1
<1>17. o2.ready \in BOOLEAN
  BY ONLY <1>1
<1>18. o2.mounted /\ o2.mounted \in BOOLEAN
  <2>1. o2.mounted = o.mounted
    BY <1>1
  <2>2. o.mounted \in BOOLEAN /\ o.mounted
    BY <1>0 DEF StoreShape
  <2> QED
    BY ONLY <2>1, <2>2
<1>21. StoreShape(o2)
  <2>1. /\ o2.active \in RootNo \cup {NoRoot} /\ o2.records = [r \in RootNo |-> o2.records[r]]
        /\ \A r \in RootNo : RecordOK(o2.records[r])
        /\ o2.used \in [SlotNo -> {"FREE", "INTENT", "COMMIT"}]
    BY <1>0, <1>1 DEF StoreShape
  <2> QED
    BY <1>1, <1>16, <1>17, <1>18, <2>1 DEF StoreShape
<1>22. Slotted(m, o2)
  BY <1>0, <1>1 DEF Slotted, Intending
<1>23. Rooted(m, o2)
  BY <1>0, <1>1 DEF Rooted, Reserving, Finalizing, RootJob
<1>24. SegmentJob(I, m, o2)
  BY <1>0, <1>1 DEF SegmentJob, PayloadTo
<1>25. RootJob(I, m, o2)
  BY <1>0, <1>1 DEF RootJob, RootPageOf
<1> QED
  BY <1>1, <1>21, <1>22, <1>23, <1>24, <1>25 DEF StoreParts

(* What ros_load makes of the store.                                       *)
LoadedFrom(o, s, seg) ==
  [[o EXCEPT !.job = "LOAD", !.stage = 0, !.ready = FALSE, !.index = 0]
      EXCEPT !.ready = TRUE, !.slot = s, !.seg = seg]

(* ros_load.                                                               *)
LEMMA LoadSound ==
  ASSUME NEW I, NEW m, NEW o, StoreParts(I, m, o), o.mounted,
         o.job \in {"NONE", "LOAD"}, NEW s, NEW seg,
         NEW o2, o2 = LoadedFrom(o, s, seg)
  PROVE  /\ StoreParts(I, m, o2) /\ o2.mounted /\ o2.retired = o.retired
         /\ o2.used = o.used /\ o2.job = "LOAD"
<1>0. /\ StoreShape(o) /\ Slotted(m, o) /\ Rooted(m, o) /\ SegmentJob(I, m, o) /\ RootJob(I, m, o)
  BY DEF StoreParts
<1>1. /\ o2.mounted = o.mounted /\ o2.job = "LOAD" /\ o2.stage = 0 /\ o2.ready = TRUE
      /\ o2.index = 0 /\ o2.active = o.active /\ o2.root = o.root /\ o2.slot = s
      /\ o2.seg = seg /\ o2.pending = o.pending /\ o2.retired = o.retired
      /\ o2.records = o.records /\ o2.used = o.used
      /\ o2 = [mounted |-> o2.mounted, job |-> o2.job, stage |-> o2.stage,
               ready |-> o2.ready, index |-> o2.index, active |-> o2.active,
               root |-> o2.root, slot |-> o2.slot, seg |-> o2.seg,
               pending |-> o2.pending, retired |-> o2.retired,
               records |-> o2.records, used |-> o2.used]
  BY <1>0 DEF StoreShape, LoadedFrom
<1>16. o2.job \in {"NONE", "RESERVE", "SEGMENT", "FINALIZE", "LOAD"} /\ o2.index \in Nat
  BY ONLY <1>1
<1>17. o2.ready \in BOOLEAN
  BY ONLY <1>1
<1>18. o2.mounted /\ o2.mounted \in BOOLEAN
  <2>1. o2.mounted = o.mounted
    BY <1>1
  <2>2. o.mounted \in BOOLEAN /\ o.mounted
    BY <1>0 DEF StoreShape
  <2> QED
    BY ONLY <2>1, <2>2
<1>21. StoreShape(o2)
  <2>1. /\ o2.active \in RootNo \cup {NoRoot} /\ o2.records = [r \in RootNo |-> o2.records[r]]
        /\ \A r \in RootNo : RecordOK(o2.records[r])
        /\ o2.used \in [SlotNo -> {"FREE", "INTENT", "COMMIT"}]
    BY <1>0, <1>1 DEF StoreShape
  <2> QED
    BY <1>1, <1>16, <1>17, <1>18, <2>1 DEF StoreShape
<1>22. Slotted(m, o2)
  BY <1>0, <1>1 DEF Slotted, Intending
<1>23. Rooted(m, o2)
  BY <1>0, <1>1 DEF Rooted, Reserving, Finalizing, RootJob
<1>24. SegmentJob(I, m, o2)
  BY <1>0, <1>1 DEF SegmentJob, PayloadTo
<1>25. RootJob(I, m, o2)
  BY <1>0, <1>1 DEF RootJob, RootPageOf
<1> QED
  BY <1>1, <1>21, <1>22, <1>23, <1>24, <1>25 DEF StoreParts

-----------------------------------------------------------------------------
(* The writes of the object store.                                         *)

(* A write where nothing was promised.                                     *)
LEMMA StoreWrite ==
  ASSUME NEW I, NEW m \in I, NEW pr, Durable(I, pr), WellKept(m), NEW z \in Sector,
         \A p \in TombPage : z # Tombs(p), \A p \in ReceiptPage : z # Receipts(p),
         NEW page, NEW m2, m2 = Written(m, z, page),
         \A s \in SlotNo : z = Slot(s) => SlotPageOK(page) /\ Vacant(m, s),
         \A s \in SlotNo, i \in 1..DataPages : z = Data(s, i) => Vacant(m, s),
         \A r \in RootNo : z = Root(r) => VacantRoot(m, r)
  PROVE  /\ Durable(I \cup {m2}, pr) /\ Deleted(m2) = Deleted(m)
         /\ \A p \in ReceiptPage : m2[Receipts(p)] = m[Receipts(p)]
<1>1. \A y \in Sector : m2[y] = IF y = z THEN page ELSE m[y]
  BY ReadAfterWrite DEF WellKept
<1>2. \A p \in TombPage : m2[Tombs(p)] = m[Tombs(p)]
  BY <1>1, InSector
<1>3. Deleted(m2) = Deleted(m)
  BY <1>2, SameTombs
<1>4. \A p \in ReceiptPage : m2[Receipts(p)] = m[Receipts(p)]
  BY <1>1, InSector
<1>5. \A s \in SlotNo : ReceiptAt(m2, s) = ReceiptAt(m, s)
  BY <1>4, PageOfSlot DEF ReceiptAt
<1>6. \A s \in SlotNo : SameSlot(m, m2, s) \/ Vacant(m, s)
  <2> SUFFICES ASSUME NEW s \in SlotNo, ~Vacant(m, s) PROVE SameSlot(m, m2, s)
    OBVIOUS
  <2>1. z # Slot(s) /\ \A i \in 1..DataPages : z # Data(s, i)
    OBVIOUS
  <2> QED
    BY <1>1, <2>1, InSector DEF SameSlot
<1>7. \A r \in RootNo : m2[Root(r)] = m[Root(r)] \/ VacantRoot(m, r)
  BY <1>1, InSector
<1>8. KeptBy(m, pr) /\ HonestMap(m) /\ PagesOK(m)
  BY DEF Durable
<1>9. KeptBy(m2, pr) /\ HonestMap(m2)
  BY <1>3, <1>5, <1>6, <1>7, <1>8, Carried
<1>10. PagesOK(m2)
  BY <1>1, <1>4, <1>8, InSector DEF PagesOK
<1> QED
  BY <1>3, <1>4, <1>9, <1>10 DEF Durable

(* WriteRoot.                                                              *)
LEMMA WriteRootSound ==
  ASSUME NEW I, NEW m, NEW o, StoreParts(I, m, o), o.mounted,
         IsMap(m), o.job \in {"RESERVE", "FINALIZE"}, o.stage = 0, ~o.ready,
         NEW page, NEW m2, m2 = Written(m, Root(o.root), page),
         NEW o2, o2 = [o EXCEPT !.stage = 1]
  PROVE  /\ StoreParts((I \cup {m2}), m2, o2) /\ o2.mounted /\ o2.retired = o.retired
<1>0. /\ StoreShape(o) /\ Slotted(m, o) /\ Rooted(m, o) /\ SegmentJob(I, m, o) /\ RootJob(I, m, o)
  BY DEF StoreParts
<1>1. /\ o2.mounted = o.mounted /\ o2.job = o.job /\ o2.stage = 1 /\ o2.ready = o.ready
      /\ o2.index = o.index /\ o2.active = o.active /\ o2.root = o.root /\ o2.slot = o.slot
      /\ o2.seg = o.seg /\ o2.pending = o.pending /\ o2.retired = o.retired
      /\ o2.records = o.records /\ o2.used = o.used
      /\ o2 = [mounted |-> o2.mounted, job |-> o2.job, stage |-> o2.stage,
               ready |-> o2.ready, index |-> o2.index, active |-> o2.active,
               root |-> o2.root, slot |-> o2.slot, seg |-> o2.seg,
               pending |-> o2.pending, retired |-> o2.retired,
               records |-> o2.records, used |-> o2.used]
  BY <1>0 DEF StoreShape
<1>2. o.root \in RootNo
  BY <1>0 DEF RootJob
<1>3. /\ \A s \in SlotNo : m2[Slot(s)] = m[Slot(s)]
      /\ \A r \in RootNo : r # o.root => m2[Root(r)] = m[Root(r)]
  BY <1>2, ReadAfterWrite, InSector, Apart
<1>21. StoreShape(o2)
  BY <1>0, <1>1 DEF StoreShape
<1>22. Slotted(m2, o2)
  BY <1>0, <1>1, <1>3 DEF Slotted, Intending
<1>23. Rooted(m2, o2)
  <2>1. \A r \in RootNo :
          ~o2.records[r].present /\ ~Reserving(o2, r) => FreePage(m2[Root(r)], o2.retired)
    <3> SUFFICES ASSUME NEW r \in RootNo, ~o2.records[r].present, ~Reserving(o2, r)
                 PROVE  FreePage(m2[Root(r)], o2.retired)
      OBVIOUS
    <3>1. o.job = "RESERVE" => r # o.root
      BY <1>1 DEF Reserving
    <3>2. o.job = "FINALIZE" => o.records[o.root].present
      BY <1>0, LayoutAssumption DEF RootJob, Rooted, LayoutAssumption, NoRoot, RootNo
    <3>3. r # o.root /\ ~Reserving(o, r) /\ ~o.records[r].present
      BY <1>1, <3>1, <3>2 DEF Reserving
    <3> QED
      BY <1>0, <1>1, <1>3, <3>3 DEF Rooted
  <2>2. o2.active # NoRoot => /\ o2.active \in RootNo /\ o2.records[o2.active].present
                             /\ Finalizing(o2)
    BY <1>0, <1>1 DEF Rooted, RootJob, Finalizing
  <2> QED
    BY <2>1, <2>2 DEF Rooted
<1>24. SegmentJob((I \cup {m2}), m2, o2)
  BY <1>0, <1>1 DEF SegmentJob, PayloadTo
<1>25. RootJob((I \cup {m2}), m2, o2)
  BY <1>0, <1>1, <1>2 DEF RootJob, RootPageOf
<1> QED
  BY <1>1, <1>21, <1>22, <1>23, <1>24, <1>25 DEF StoreParts

(* WriteIntent.                                                            *)
LEMMA WriteIntentSound ==
  ASSUME NEW I, NEW m, NEW o, StoreParts(I, m, o), o.mounted,
         IsMap(m), o.job = "SEGMENT", o.stage = 0, ~o.ready,
         NEW m2, m2 = Written(m, Slot(o.slot), SlotPage("INTENT", o.seg)),
         NEW o2, o2 = [o EXCEPT !.stage = 1]
  PROVE  /\ StoreParts((I \cup {m2}), m2, o2) /\ o2.mounted /\ o2.retired = o.retired
<1>0. /\ StoreShape(o) /\ Slotted(m, o) /\ Rooted(m, o) /\ SegmentJob(I, m, o) /\ RootJob(I, m, o)
  BY DEF StoreParts
<1>1. /\ o2.mounted = o.mounted /\ o2.job = o.job /\ o2.stage = 1 /\ o2.ready = o.ready
      /\ o2.index = o.index /\ o2.active = o.active /\ o2.root = o.root /\ o2.slot = o.slot
      /\ o2.seg = o.seg /\ o2.pending = o.pending /\ o2.retired = o.retired
      /\ o2.records = o.records /\ o2.used = o.used
      /\ o2 = [mounted |-> o2.mounted, job |-> o2.job, stage |-> o2.stage,
               ready |-> o2.ready, index |-> o2.index, active |-> o2.active,
               root |-> o2.root, slot |-> o2.slot, seg |-> o2.seg,
               pending |-> o2.pending, retired |-> o2.retired,
               records |-> o2.records, used |-> o2.used]
  BY <1>0 DEF StoreShape
<1>2. o.slot \in SlotNo /\ o.used[o.slot] = "FREE"
  BY <1>0 DEF SegmentJob
<1>3. /\ m2[Slot(o.slot)] = SlotPage("INTENT", o.seg)
      /\ \A s \in SlotNo : s # o.slot => m2[Slot(s)] = m[Slot(s)]
      /\ \A r \in RootNo : m2[Root(r)] = m[Root(r)]
  BY <1>2, ReadAfterWrite, InSector, Apart
<1>21. StoreShape(o2)
  BY <1>0, <1>1 DEF StoreShape
<1>22. Slotted(m2, o2)
  BY <1>0, <1>1, <1>2, <1>3 DEF Slotted, Intending
<1>23. Rooted(m2, o2)
  BY <1>0, <1>1, <1>3 DEF Rooted, Reserving, Finalizing, RootJob
<1>24. SegmentJob((I \cup {m2}), m2, o2)
  BY <1>0, <1>1, <1>2, <1>3 DEF SegmentJob, PayloadTo
<1>25. RootJob((I \cup {m2}), m2, o2)
  BY <1>0, <1>1 DEF RootJob, RootPageOf
<1> QED
  BY <1>1, <1>21, <1>22, <1>23, <1>24, <1>25 DEF StoreParts

(* WritePayload: one more sector of it.                                    *)
LEMMA WritePayloadSound ==
  ASSUME NEW I, NEW m, NEW o, StoreParts(I, m, o), o.mounted,
         IsMap(m), o.job = "SEGMENT", o.stage = 3, ~o.ready, o.index # DataPages,
         NEW m2, m2 = Written(m, Data(o.slot, o.index + 1), DataPage(o.seg, o.index + 1)),
         NEW o2, o2 = [o EXCEPT !.index = o.index + 1]
  PROVE  /\ StoreParts((I \cup {m2}), m2, o2) /\ o2.mounted /\ o2.retired = o.retired
<1>0. /\ StoreShape(o) /\ Slotted(m, o) /\ Rooted(m, o) /\ SegmentJob(I, m, o) /\ RootJob(I, m, o)
  BY DEF StoreParts
<1>1. /\ o2.mounted = o.mounted /\ o2.job = o.job /\ o2.stage = o.stage
      /\ o2.ready = o.ready /\ o2.index = o.index + 1 /\ o2.active = o.active
      /\ o2.root = o.root /\ o2.slot = o.slot /\ o2.seg = o.seg /\ o2.pending = o.pending
      /\ o2.retired = o.retired /\ o2.records = o.records /\ o2.used = o.used
      /\ o2 = [mounted |-> o2.mounted, job |-> o2.job, stage |-> o2.stage,
               ready |-> o2.ready, index |-> o2.index, active |-> o2.active,
               root |-> o2.root, slot |-> o2.slot, seg |-> o2.seg,
               pending |-> o2.pending, retired |-> o2.retired,
               records |-> o2.records, used |-> o2.used]
  BY <1>0 DEF StoreShape
<1>2. /\ o.slot \in SlotNo /\ o.index \in Nat /\ o.index <= DataPages /\ DataPages \in Nat
      /\ PayloadTo(m, o, o.index)
  BY <1>0, LayoutAssumption DEF SegmentJob, StoreShape, LayoutAssumption
<1>3. o.index + 1 \in 1..DataPages /\ o.index + 1 \in Nat /\ o.index + 1 <= DataPages
  BY <1>2
<1>4. /\ \A s \in SlotNo : m2[Slot(s)] = m[Slot(s)]
      /\ \A r \in RootNo : m2[Root(r)] = m[Root(r)]
      /\ m2[Data(o.slot, o.index + 1)] = DataPage(o.seg, o.index + 1)
      /\ \A i \in 1..DataPages : i # o.index + 1 => m2[Data(o.slot, i)] = m[Data(o.slot, i)]
  BY <1>2, <1>3, ReadAfterWrite, InSector, Apart
<1>5. PayloadTo(m2, o2, o2.index)
  <2> SUFFICES ASSUME NEW i \in 1..(o.index + 1)
               PROVE  m2[Data(o.slot, i)] = DataPage(o.seg, i)
    BY <1>1 DEF PayloadTo
  <2>1. CASE i = o.index + 1
    BY <1>4, <2>1
  <2>2. CASE i # o.index + 1
    <3>1. i \in 1..o.index /\ i \in 1..DataPages
      BY <1>2, <2>2
    <3> QED
      BY <1>2, <1>4, <2>2, <3>1 DEF PayloadTo
  <2> QED
    BY <2>1, <2>2
<1>6. o2.index \in Nat /\ o2.index <= DataPages
  BY <1>1, <1>3
<1>21. StoreShape(o2)
  BY <1>0, <1>1, <1>6 DEF StoreShape
<1>22. Slotted(m2, o2)
  BY <1>0, <1>1, <1>4 DEF Slotted, Intending
<1>23. Rooted(m2, o2)
  BY <1>0, <1>1, <1>4 DEF Rooted, Reserving, Finalizing, RootJob
<1>24. SegmentJob((I \cup {m2}), m2, o2)
  BY <1>0, <1>1, <1>2, <1>4, <1>5, <1>6 DEF SegmentJob
<1>25. RootJob((I \cup {m2}), m2, o2)
  BY <1>0, <1>1 DEF RootJob, RootPageOf
<1> QED
  BY <1>1, <1>21, <1>22, <1>23, <1>24, <1>25 DEF StoreParts

(* WriteCommit.                                                            *)
LEMMA WriteCommitSound ==
  ASSUME NEW I, NEW m, NEW o, StoreParts(I, m, o), o.mounted,
         IsMap(m), o.job = "SEGMENT", o.stage = 6, ~o.ready,
         NEW m2, m2 = Written(m, Slot(o.slot), SlotPage("COMMIT", o.seg)),
         NEW o2, o2 = [o EXCEPT !.stage = 7]
  PROVE  /\ StoreParts((I \cup {m2}), m2, o2) /\ o2.mounted /\ o2.retired = o.retired
<1>0. /\ StoreShape(o) /\ Slotted(m, o) /\ Rooted(m, o) /\ SegmentJob(I, m, o) /\ RootJob(I, m, o)
  BY DEF StoreParts
<1>1. /\ o2.mounted = o.mounted /\ o2.job = o.job /\ o2.stage = 7 /\ o2.ready = o.ready
      /\ o2.index = o.index /\ o2.active = o.active /\ o2.root = o.root /\ o2.slot = o.slot
      /\ o2.seg = o.seg /\ o2.pending = o.pending /\ o2.retired = o.retired
      /\ o2.records = o.records /\ o2.used = o.used
      /\ o2 = [mounted |-> o2.mounted, job |-> o2.job, stage |-> o2.stage,
               ready |-> o2.ready, index |-> o2.index, active |-> o2.active,
               root |-> o2.root, slot |-> o2.slot, seg |-> o2.seg,
               pending |-> o2.pending, retired |-> o2.retired,
               records |-> o2.records, used |-> o2.used]
  BY <1>0 DEF StoreShape
<1>2. o.slot \in SlotNo /\ o.used[o.slot] = "INTENT" /\ PayloadTo(m, o, DataPages)
  BY <1>0 DEF SegmentJob
<1>3. /\ m2[Slot(o.slot)] = SlotPage("COMMIT", o.seg)
      /\ \A s \in SlotNo : s # o.slot => m2[Slot(s)] = m[Slot(s)]
      /\ \A r \in RootNo : m2[Root(r)] = m[Root(r)]
      /\ \A i \in 1..DataPages : m2[Data(o.slot, i)] = m[Data(o.slot, i)]
  BY <1>2, ReadAfterWrite, InSector, Apart
<1>21. StoreShape(o2)
  BY <1>0, <1>1 DEF StoreShape
<1>22. Slotted(m2, o2)
  BY <1>0, <1>1, <1>2, <1>3 DEF Slotted, Intending
<1>23. Rooted(m2, o2)
  BY <1>0, <1>1, <1>3 DEF Rooted, Reserving, Finalizing, RootJob
<1>24. SegmentJob((I \cup {m2}), m2, o2)
  BY <1>0, <1>1, <1>2, <1>3 DEF SegmentJob, PayloadTo
<1>25. RootJob((I \cup {m2}), m2, o2)
  BY <1>0, <1>1 DEF RootJob, RootPageOf
<1> QED
  BY <1>1, <1>21, <1>22, <1>23, <1>24, <1>25 DEF StoreParts

-----------------------------------------------------------------------------
(* A recording.                                                            *)

(* What a write, a sync or neither leaves.                                 *)
LEMMA ImagesAfter ==
  ASSUME DeleteInv
  PROVE  /\ Image \in Images /\ WellKept(Image) /\ IsMap(Image)
         /\ versions' = versions => Images' = Images /\ Image' = Image
         /\ rns_sync => Images' = {Image} /\ Image' = Image
         /\ \A z, page : rns_write(z, page) =>
              Images' = Images \cup {Image'} /\ Image' = Written(Image, z, page)
<1>1. Chain(versions) /\ Image \in Images /\ WellKept(Image)
  BY DEF DeleteInv, Sound
<1>2. versions' = versions => Images' = Images /\ Image' = Image
  BY DEF Images, Image
<1>3. rns_sync => Images' = {Image} /\ Image' = Image
  BY Synced DEF rns_sync, Images, Image
<1>4. ASSUME NEW z, NEW page, rns_write(z, page)
      PROVE  Images' = Images \cup {Image'} /\ Image' = Written(Image, z, page)
  <2> DEFINE m2 == Written(Image, z, page)
  <2>1. versions' = Append(versions, m2)
    BY <1>4 DEF rns_write, Written
  <2> HIDE DEF m2
  <2>2. Range(versions') = Range(versions) \cup {m2} /\ versions'[Len(versions')] = m2
    BY <1>1, <2>1, Appended
  <2> QED
    BY <2>2 DEF Images, Image, m2
<1> QED
  BY <1>1, <1>2, <1>3, <1>4 DEF WellKept

(* What is on every image may be promised.                                 *)
LEMMA Promise ==
  ASSUME NEW I, NEW pr, Durable(I, pr), NEW Q,
         \A q \in Q : IsDelete(q) \/ /\ q.kind \in {"segment", "final", "receipt"}
                                     /\ \A n \in I : Kept(n, q)
  PROVE  Durable(I, pr \cup Q)
BY DEF Durable, KeptBy

(* The receipt of a segment.                                               *)
LEMMA SegmentPromised ==
  ASSUME NEW I, NEW m, NEW o, StoreParts(I, m, o), o.job = "SEGMENT", o.ready,
         NEW q, q = [kind |-> "segment", id |-> o.seg.id, seq |-> o.seg.seq]
  PROVE  I = {m} /\ Kept(m, q)
<1>1. /\ I = {m} /\ o.slot \in SlotNo /\ PayloadTo(m, o, DataPages)
      /\ m[Slot(o.slot)] = SlotPage("COMMIT", o.seg)
  BY DEF StoreParts, SegmentJob
<1>2. q.kind = "segment" /\ q.id = o.seg.id /\ q.seq = o.seg.seq
  OBVIOUS
<1> DEFINE page == m[Slot(o.slot)]
<1>3. page.kind = "COMMIT" /\ page.id = q.id /\ page.seq = q.seq
  BY <1>1, <1>2 DEF SlotPage
<1>4. \A i \in 1..DataPages : m[Data(o.slot, i)] = DataPage(page, i)
  BY <1>1, <1>2, <1>3 DEF PayloadTo, DataPage
<1>5. Committed(m, q.id, q.seq)
  BY <1>1, <1>3, <1>4 DEF Committed
<1> QED
  BY <1>1, <1>2, <1>5 DEF Kept

(* The receipt of the end of a recording.                                  *)
LEMMA FinalPromised ==
  ASSUME NEW I, NEW m, NEW o, StoreParts(I, m, o), o.job = "FINALIZE", o.ready,
         NEW q, q = [kind |-> "final", id |-> o.pending.id, segments |-> o.pending.completion]
  PROVE  I = {m} /\ Kept(m, q)
<1>1. I = {m} /\ o.root \in RootNo /\ m[Root(o.root)] = RootPageOf(o)
  BY DEF StoreParts, RootJob
<1>2. q.kind = "final" /\ q.id = o.pending.id /\ q.segments = o.pending.completion
  OBVIOUS
<1>3. m[Root(o.root)] = [kind |-> "FINAL", id |-> q.id, segments |-> q.segments]
  BY <1>1, <1>2 DEF RootPageOf, RootPage
<1> QED
  BY <1>1, <1>2, <1>3 DEF Kept

(* What a step of a recording has to show.                                 *)
LEMMA RecordingKeeps ==
  ASSUME NEW I, NEW m, NEW pr, NEW x, NEW o, NEW c, m \in I,
         Keeps(I, m, pr, x, o, "RECORDING", c),
         NEW I2, NEW m2, NEW pr2, NEW o2, Durable(I2, pr2), StoreParts(I2, m2, o2), o2.mounted,
         \A n \in I2 : n \in I \/ Deleted(n) = Deleted(m), o2.retired = o.retired,
         \A p \in ReceiptPage : m2[Receipts(p)] = m[Receipts(p)]
  PROVE  Keeps(I2, m2, pr2, x, o2, "RECORDING", c)
<1>1. /\ Backed(I, x, o) /\ Receiving(I, m, x) /\ Modes(x, o, "RECORDING", c)
  BY DEF Keeps
<1>2. x.todo = << >> /\ x.mounted /\ c.items = {}
  BY <1>1 DEF Modes
<1>3. Backed(I2, x, o2)
  BY <1>1 DEF Backed
<1>4. StoreSound(I2, m2, o2)
  BY DEF StoreParts, StoreSound
<1>5. Catalog(m2, o2, c) /\ Single(I2, m2, x, "RECORDING")
  BY <1>2 DEF Catalog, Single
<1>6. Receiving(I2, m2, x)
  BY <1>1, <1>2 DEF Receiving
<1>7. Modes(x, o2, "RECORDING", c)
  BY <1>2 DEF Modes, Unmounted
<1> QED
  BY <1>3, <1>4, <1>5, <1>6, <1>7 DEF Keeps

(* What a step of a job makes of the store.                                *)
StoreStepTo(I2, m2) ==
  StoreParts(I2, m2, ros') /\ ros'.mounted /\ ros'.retired = ros.retired

(* A root is reserved, or finalized.                                       *)
LEMMA BeginRoot ==
  ASSUME NEW I, NEW m, StoreParts(I, m, ros), ros.mounted,
         ros_finalize \/ \E id \in Recs : ros_reserve(id)
  PROVE  StoreStepTo(I, m) /\ UNCHANGED <<versions, promised>>
<1>0. Rooted(m, ros) /\ StoreShape(ros)
  BY DEF StoreParts
<1>1. CASE \E id \in Recs : ros_reserve(id)
  <2>1. PICK id \in Recs : ros_reserve(id)
    BY <1>1
  <2> DEFINE root == First(FreeRoots)
             pending == Record(id)
  <2>2. /\ ros.job = "NONE" /\ ros.active = NoRoot /\ FreeRoots # {}
        /\ ros' = Reserved(ros, root, pending)
        /\ UNCHANGED <<versions, promised>>
    BY <2>1 DEF ros_reserve, Begin, Reserved
  <2>3. root \in RootNo /\ ~ros.records[root].present
    <3>1. FreeRoots \subseteq Nat
      BY LayoutAssumption DEF FreeRoots, LayoutAssumption, RootNo
    <3>2. root \in FreeRoots
      BY <2>2, <3>1, FirstIn
    <3> QED
      BY <3>2 DEF FreeRoots
  <2>4. RecordOK(pending) /\ pending.present
    BY DEF Record, RecordOK
  <2> HIDE DEF root, pending
  <2> QED
    BY <2>2, <2>3, <2>4, ReserveSound DEF StoreStepTo
<1>2. CASE ros_finalize
  <2> DEFINE r == ros.records[ros.active]
             done == TRUE
             pending == [r EXCEPT !.finalized = done, !.completion = r.segments]
  <2>1. /\ ros.job = "NONE" /\ ros.active # NoRoot
        /\ ros' = EndReserved(ros, pending)
        /\ UNCHANGED <<versions, promised>>
    BY <1>2 DEF ros_finalize, Begin, EndReserved
  <2>2. RecordOK(r) /\ r.present
    BY <1>0, <2>1 DEF Rooted, StoreShape
  <2> DEFINE e == pending
  <2>3. e = [r EXCEPT !.finalized = done, !.completion = r.segments]
    OBVIOUS
  <2> HIDE DEF r, done, e
  <2>4. RecordOK(e) /\ e.present
    BY <2>2, <2>3, RecordEnded
  <2>5. RecordOK(pending) /\ pending.present
    BY <2>4 DEF e
  <2> HIDE DEF pending
  <2> QED
    BY <2>1, <2>5, FinalizeSound DEF StoreStepTo
<1> QED
  BY <1>1, <1>2

(* A segment is prepared.                                                  *)
LEMMA BeginSegment ==
  ASSUME NEW I, NEW m, StoreParts(I, m, ros), ros.mounted, NEW stage \in {0, 9}, Prepare(stage)
  PROVE  StoreStepTo(I, m) /\ UNCHANGED <<versions, promised>>
<1> DEFINE r == ros.records[ros.active]
           seg == [id |-> r.id, root |-> ros.active, seq |-> r.segments]
           slot == FirstFreeSlot
<1>1. /\ ros.job = "NONE" /\ ros.active # NoRoot /\ FreeSlots # {}
      /\ ros' = SlotTaken(ros, stage, slot, seg)
      /\ UNCHANGED <<versions, promised>>
  BY DEF Prepare, Begin, SlotTaken
<1>2. slot \in SlotNo /\ ros.used[slot] = "FREE"
  <2>1. FreeSlots \subseteq Nat
    BY LayoutAssumption DEF FreeSlots, LayoutAssumption, SlotNo
  <2>2. slot \in FreeSlots
    BY <1>1, <2>1, FirstIn DEF FirstFreeSlot
  <2> QED
    BY <2>2 DEF FreeSlots
<1>3. seg = [id |-> seg.id, root |-> seg.root, seq |-> seg.seq]
  OBVIOUS
<1> HIDE DEF seg, slot
<1> QED
  BY <1>1, <1>2, <1>3, PrepareSound DEF StoreStepTo

(* Steps that only read the map.                                           *)
LEMMA CheckSteps ==
  ASSUME StoreParts(Images, Image, ros), ros.mounted,
         Seal \/ VerifyRoot \/ VerifyIntent \/ VerifyPayload \/ VerifyCommit \/ ros_finish
  PROVE  StoreStepTo(Images, Image) /\ UNCHANGED <<versions, promised>>
<1>1. CASE Seal
  BY <1>1, SealSound DEF Seal, Running, StoreStepTo
<1>2. CASE VerifyRoot
  <2>1. /\ ros.job \in {"RESERVE", "FINALIZE"} /\ ros.stage = 2 /\ ~ros.ready
        /\ Image[Root(ros.root)] = RootPageOf(ros)
        /\ ros' = RootVerified(ros)
        /\ UNCHANGED <<versions, promised>>
    BY <1>2 DEF VerifyRoot, Running, RootPageOf, PendingRoot, RootVerified
  <2> QED
    BY <2>1, VerifyRootSound DEF StoreStepTo
<1>3. CASE VerifyIntent
  <2>1. /\ ros.job = "SEGMENT" /\ ros.stage = 2 /\ ~ros.ready
        /\ ros' = IntentVerified(ros)
        /\ UNCHANGED <<versions, promised>>
    BY <1>3 DEF VerifyIntent, Running, NextStage, IntentVerified
  <2> QED
    BY <2>1, VerifyIntentSound DEF StoreStepTo
<1>4. CASE VerifyPayload
  BY <1>4, VerifyPayloadSound DEF VerifyPayload, Running, StoreStepTo
<1>5. CASE VerifyCommit
  <2>1. /\ ros.job = "SEGMENT" /\ ros.stage = 8 /\ ~ros.ready
        /\ ros' = CommitVerified(ros) /\ UNCHANGED <<versions, promised>>
    BY <1>5 DEF VerifyCommit, Running, CommitVerified
  <2> QED
    BY <2>1, VerifyCommitSound DEF StoreStepTo
<1>6. CASE ros_finish
  <2>1. ros.ready /\ ros' = Finished(ros) /\ UNCHANGED <<versions, promised>>
    BY <1>6 DEF ros_finish, FinishJob, Finished
  <2> QED
    BY <2>1, FinishSound DEF StoreStepTo
<1> QED
  BY <1>1, <1>2, <1>3, <1>4, <1>5, <1>6

(* Steps that sync the map.                                                *)
LEMMA SyncSteps ==
  ASSUME StoreParts(Images, Image, ros), ros.mounted, SyncRoot \/ SyncIntent \/ SyncCommit
  PROVE  StoreStepTo({Image}, Image) /\ rns_sync /\ UNCHANGED promised
<1>1. CASE SyncRoot \/ SyncIntent
  <2>1. /\ ros.job \in {"RESERVE", "FINALIZE", "SEGMENT"} /\ ros.stage = 1 /\ ~ros.ready
        /\ ros' = [ros EXCEPT !.stage = 2] /\ rns_sync /\ UNCHANGED promised
    BY <1>1 DEF SyncRoot, SyncIntent, Running, NextStage
  <2> QED
    BY <2>1, SyncSound DEF StoreStepTo
<1>2. CASE SyncCommit
  <2>1. /\ ros.job = "SEGMENT" /\ ros.stage = 7 /\ ~ros.ready
        /\ ros' = CommitSynced(ros) /\ rns_sync /\ UNCHANGED promised
    BY <1>2 DEF SyncCommit, Running, CommitSynced
  <2> QED
    BY <2>1, SyncCommitSound DEF StoreStepTo
<1> QED
  BY <1>1, <1>2

(* Where a job writes, nothing was promised.                               *)
Unpromised(m, z, page) ==
  /\ z \in Sector /\ \A p \in TombPage : z # Tombs(p)
  /\ \A p \in ReceiptPage : z # Receipts(p)
  /\ \A s \in SlotNo : z = Slot(s) => SlotPageOK(page) /\ Vacant(m, s)
  /\ \A s \in SlotNo, i \in 1..DataPages : z = Data(s, i) => Vacant(m, s)
  /\ \A r \in RootNo : z = Root(r) => VacantRoot(m, r)

(* A free sector holds nothing that counts.                                *)
LEMMA FreeIsVacant ==
  ASSUME NEW m, NEW retired, retired \subseteq Deleted(m)
  PROVE  /\ \A s : FreePage(m[Slot(s)], retired) => Vacant(m, s)
         /\ \A r : FreePage(m[Root(r)], retired) => VacantRoot(m, r)
<1>1. Missing.kind # "COMMIT" /\ Missing.kind # "FINAL"
  BY DEF Missing
<1> QED
  BY <1>1 DEF FreePage, Vacant, VacantRoot

(* The writes of a job.                                                    *)
LEMMA WriteSteps ==
  ASSUME NEW I, NEW m, StoreParts(I, m, ros), ros.mounted, IsMap(m), ros.retired \subseteq Deleted(m),
         m = Image, WriteRoot \/ WriteIntent \/ WriteCommit \/ (WritePayload /\ ros.index # DataPages)
  PROVE  /\ UNCHANGED promised
         /\ \E z, page : /\ rns_write(z, page) /\ Unpromised(m, z, page)
                         /\ StoreStepTo(I \cup {Written(m, z, page)}, Written(m, z, page))
<1>0. Slotted(m, ros) /\ Rooted(m, ros) /\ SegmentJob(I, m, ros) /\ RootJob(I, m, ros)
  BY DEF StoreParts
<1>1. CASE WriteRoot
  <2> DEFINE page == PendingRoot
             m2 == Written(m, Root(ros.root), page)
  <2>1. /\ ros.job \in {"RESERVE", "FINALIZE"} /\ ros.stage = 0 /\ ~ros.ready
        /\ rns_write(Root(ros.root), page)
        /\ ros' = [ros EXCEPT !.stage = 1] /\ UNCHANGED promised
    BY <1>1 DEF WriteRoot, Running, NextStage
  <2> HIDE DEF page
  <2>2. m2 = Written(m, Root(ros.root), page)
    OBVIOUS
  <2> HIDE DEF m2
  <2>3. StoreStepTo(I \cup {m2}, m2)
    <3> DEFINE o2 == ros'
    <3>1. ros.job \in {"RESERVE", "FINALIZE"} /\ ros.stage = 0 /\ ~ros.ready /\ o2 = [ros EXCEPT !.stage = 1]
      BY <2>1
    <3> HIDE DEF o2
    <3>2. StoreParts(I \cup {m2}, m2, o2) /\ o2.mounted /\ o2.retired = ros.retired
      BY <2>2, <3>1, WriteRootSound
    <3> QED
      BY <3>2 DEF StoreStepTo, o2
  <2>4. ros.root \in RootNo /\ VacantRoot(m, ros.root)
    <3>1. ros.root \in RootNo
      BY <1>0, <2>1 DEF RootJob
    <3>2. CASE ros.job = "RESERVE"
      <4>1. FreePage(m[Root(ros.root)], ros.retired)
        BY <1>0, <2>1, <3>1, <3>2 DEF RootJob, Rooted, Reserving
      <4> QED
        BY <3>1, <4>1, FreeIsVacant
    <3>3. CASE ros.job = "FINALIZE"
      <4>1. m[Root(ros.root)].kind = "ACTIVE"
        BY <1>0, <2>1, <3>1, <3>3, LayoutAssumption
           DEF RootJob, Rooted, Finalizing, LayoutAssumption, NoRoot, RootNo
      <4> QED
        BY <3>1, <4>1 DEF VacantRoot
    <3> QED
      BY <2>1, <3>2, <3>3
  <2>5. Unpromised(m, Root(ros.root), page)
    BY <2>4, InSector, Apart DEF Unpromised
  <2> QED
    BY <2>1, <2>2, <2>3, <2>5
<1>2. CASE WriteIntent
  <2> DEFINE page == SlotPage("INTENT", ros.seg)
             m2 == Written(m, Slot(ros.slot), page)
  <2>1. /\ ros.job = "SEGMENT" /\ ros.stage = 0 /\ ~ros.ready /\ rns_write(Slot(ros.slot), page)
        /\ ros' = [ros EXCEPT !.stage = 1] /\ UNCHANGED promised
    BY <1>2 DEF WriteIntent, Running, NextStage
  <2>2. m2 = Written(m, Slot(ros.slot), SlotPage("INTENT", ros.seg))
    OBVIOUS
  <2>3. SlotPageOK(page)
    BY DEF SlotPageOK, SlotPage
  <2> HIDE DEF m2
  <2>4. StoreStepTo(I \cup {m2}, m2)
    BY <2>1, <2>2, WriteIntentSound DEF StoreStepTo
  <2> HIDE DEF page
  <2>5. ros.slot \in SlotNo /\ FreePage(m[Slot(ros.slot)], ros.retired)
    BY <1>0, <2>1 DEF SegmentJob, Slotted, Intending
  <2>6. Unpromised(m, Slot(ros.slot), page)
    BY <2>3, <2>5, FreeIsVacant, InSector, Apart DEF Unpromised
  <2> QED
    BY <2>1, <2>4, <2>6 DEF m2
<1>3. CASE WriteCommit
  <2> DEFINE page == SlotPage("COMMIT", ros.seg)
             m2 == Written(m, Slot(ros.slot), page)
  <2>1. /\ ros.job = "SEGMENT" /\ ros.stage = 6 /\ ~ros.ready /\ rns_write(Slot(ros.slot), page)
        /\ ros' = [ros EXCEPT !.stage = 7] /\ UNCHANGED promised
    BY <1>3 DEF WriteCommit, Running, NextStage
  <2>2. m2 = Written(m, Slot(ros.slot), SlotPage("COMMIT", ros.seg))
    OBVIOUS
  <2>3. SlotPageOK(page)
    BY DEF SlotPageOK, SlotPage
  <2> HIDE DEF m2
  <2>4. StoreStepTo(I \cup {m2}, m2)
    BY <2>1, <2>2, WriteCommitSound DEF StoreStepTo
  <2> HIDE DEF page
  <2>5. ros.slot \in SlotNo /\ Vacant(m, ros.slot)
    BY <1>0, <2>1 DEF SegmentJob, SlotPage, Vacant
  <2>6. Unpromised(m, Slot(ros.slot), page)
    BY <2>3, <2>5, InSector, Apart DEF Unpromised
  <2> QED
    BY <2>1, <2>4, <2>6 DEF m2
<1>4. CASE WritePayload /\ ros.index # DataPages
  <2> DEFINE page == DataPage(ros.seg, ros.index + 1)
             z == Data(ros.slot, ros.index + 1)
             m2 == Written(m, z, page)
  <2>1. /\ ros.job = "SEGMENT" /\ ros.stage = 3 /\ ~ros.ready /\ rns_write(z, page)
        /\ ros' = [ros EXCEPT !.index = ros.index + 1] /\ UNCHANGED promised
    BY <1>4 DEF WritePayload, Running
  <2>2. m2 = Written(m, Data(ros.slot, ros.index + 1), DataPage(ros.seg, ros.index + 1))
    OBVIOUS
  <2> HIDE DEF m2
  <2>4. StoreStepTo(I \cup {m2}, m2)
    BY <1>4, <2>1, <2>2, WritePayloadSound DEF StoreStepTo
  <2> HIDE DEF page
  <2>5. ros.slot \in SlotNo /\ Vacant(m, ros.slot) /\ ros.index + 1 \in 1..DataPages
    <3>1. ros.index \in Nat /\ DataPages \in Nat
      BY LayoutAssumption DEF StoreParts, StoreShape, LayoutAssumption
    <3>2. ros.slot \in SlotNo /\ Vacant(m, ros.slot) /\ ros.index <= DataPages
      BY <1>0, <2>1 DEF SegmentJob, SlotPage, Vacant
    <3> QED
      BY <1>4, <3>1, <3>2
  <2>6. Unpromised(m, z, page)
    BY <2>5, InSector, Apart DEF Unpromised
  <2> QED
    BY <2>1, <2>4, <2>6 DEF m2
<1> QED
  BY <1>1, <1>2, <1>3, <1>4

(* A step of a recording keeps what was promised, and what the store's RAM *)
(* says of the map.                                                        *)
LEMMA RecordingStep ==
  ASSUME VolumeInv, Recording
  PROVE  Keeps(Images', Image', promised', rsm', ros', vol', cat')
<1>1. /\ DeleteInv /\ Keeps(Images, Image, promised, rsm, ros, vol, cat)
      /\ vol = "RECORDING" /\ vol' = vol /\ rsm' = rsm /\ cat' = cat /\ StoreStep
  BY DEF VolumeInv, Recording
<1>2. /\ Durable(Images, promised) /\ Backed(Images, rsm, ros)
      /\ StoreSound(Images, Image, ros) /\ Modes(rsm, ros, vol, cat)
  BY <1>1 DEF Keeps
<1>3. ros.mounted
  BY <1>1, <1>2 DEF Modes
<1>4. StoreParts(Images, Image, ros)
  BY <1>2, <1>3 DEF StoreSound, StoreParts
<1>5. Image \in Images /\ WellKept(Image) /\ IsMap(Image)
  BY <1>1, ImagesAfter
<1>6. ros.retired \subseteq Deleted(Image)
  BY <1>2, <1>5 DEF Backed
<1>7. Keeps(Images, Image, promised, rsm, ros, "RECORDING", cat)
  BY <1>1
<1>8. ASSUME StoreStepTo(Images, Image), UNCHANGED <<versions, promised>>
      PROVE  Keeps(Images', Image', promised', rsm', ros', vol', cat')
  <2>1. Images' = Images /\ Image' = Image /\ promised' = promised
    BY <1>1, <1>8, ImagesAfter
  <2>2. Keeps(Images, Image, promised, rsm, ros', "RECORDING", cat)
    BY <1>2, <1>5, <1>7, <1>8, RecordingKeeps DEF StoreStepTo
  <2> QED
    BY <1>1, <2>1, <2>2
<1>9. CASE ros_finalize \/ \E id \in Recs : ros_reserve(id)
  BY <1>3, <1>4, <1>8, <1>9, BeginRoot
<1>10. CASE ros_prepare \/ ros_prepare_deferred
  <2>1. Prepare(0) \/ Prepare(9)
    BY <1>10 DEF ros_prepare, ros_prepare_deferred
  <2>2. 0 \in {0, 9} /\ 9 \in {0, 9}
    OBVIOUS
  <2>3. StoreStepTo(Images, Image) /\ UNCHANGED <<versions, promised>>
    BY <1>3, <1>4, <2>1, <2>2, BeginSegment
  <2> QED
    BY <1>8, <2>3
<1>11. CASE Seal \/ VerifyRoot \/ VerifyIntent \/ VerifyPayload \/ VerifyCommit \/ ros_finish
  BY <1>3, <1>4, <1>8, <1>11, CheckSteps
<1>12. CASE SyncRoot \/ SyncIntent \/ SyncCommit
  <2>1. StoreStepTo({Image}, Image) /\ rns_sync /\ UNCHANGED promised
    BY <1>3, <1>4, <1>12, SyncSteps
  <2>2. Images' = {Image} /\ Image' = Image
    BY <1>1, <2>1, ImagesAfter
  <2>3. Durable({Image}, promised)
    BY <1>2, <1>5 DEF Durable
  <2>4. Keeps({Image}, Image, promised, rsm, ros', "RECORDING", cat)
    BY <1>5, <1>7, <2>1, <2>3, RecordingKeeps DEF StoreStepTo
  <2> QED
    BY <1>1, <2>1, <2>2, <2>4
<1>13. CASE WritePayload /\ ros.index = DataPages
  <2>1. /\ ros.job = "SEGMENT" /\ ros.stage = 3 /\ ~ros.ready /\ ros' = [ros EXCEPT !.stage = 6]
        /\ UNCHANGED <<versions, promised>>
    BY <1>13 DEF WritePayload, Running
  <2>2. StoreStepTo(Images, Image)
    BY <1>3, <1>4, <1>13, <2>1, PayloadSound DEF StoreStepTo
  <2> QED
    BY <1>8, <2>1, <2>2
<1>14. CASE WriteRoot \/ WriteIntent \/ WriteCommit \/ (WritePayload /\ ros.index # DataPages)
  <2>1. /\ UNCHANGED promised
        /\ \E z, page : /\ rns_write(z, page) /\ Unpromised(Image, z, page)
                        /\ StoreStepTo(Images \cup {Written(Image, z, page)}, Written(Image, z, page))
    BY <1>3, <1>4, <1>5, <1>6, <1>14, WriteSteps
  <2>2. PICK z, page : /\ rns_write(z, page) /\ Unpromised(Image, z, page)
                       /\ StoreStepTo(Images \cup {Written(Image, z, page)}, Written(Image, z, page))
    BY <2>1
  <2> DEFINE m2 == Written(Image, z, page)
  <2>3. Images' = Images \cup {m2} /\ Image' = m2
    BY <1>1, <2>2, ImagesAfter
  <2>4. m2 = Written(Image, z, page)
    OBVIOUS
  <2> HIDE DEF m2
  <2>5. /\ Durable(Images \cup {m2}, promised) /\ Deleted(m2) = Deleted(Image)
        /\ \A p \in ReceiptPage : m2[Receipts(p)] = Image[Receipts(p)]
    BY <1>2, <1>5, <2>2, <2>4, StoreWrite DEF Unpromised
  <2>6. StoreParts(Images \cup {m2}, m2, ros') /\ ros'.mounted /\ ros'.retired = ros.retired
    BY <2>2, <2>4 DEF StoreStepTo
  <2>7. Keeps(Images \cup {m2}, m2, promised, rsm, ros', "RECORDING", cat)
    BY <1>5, <1>7, <2>5, <2>6, RecordingKeeps
  <2> QED
    BY <1>1, <2>1, <2>3, <2>7
<1>15. CASE ros_take_segment_receipt \/ ros_take_final_receipt
  <2>1. ros.ready /\ ros' = Finished(ros) /\ UNCHANGED versions
    BY <1>15 DEF ros_take_segment_receipt, ros_take_final_receipt, FinishJob, Finished
  <2>2. StoreParts(Images, Image, ros') /\ ros'.mounted /\ ros'.retired = ros.retired
    BY <1>3, <1>4, <2>1, FinishSound
  <2>3. PICK q : /\ promised' = promised \cup {q} /\ q.kind \in {"segment", "final", "receipt"}
                 /\ Images = {Image} /\ Kept(Image, q)
    <3>1. CASE ros_take_segment_receipt
      <4> DEFINE q == [kind |-> "segment", id |-> ros.seg.id, seq |-> ros.seg.seq]
      <4>1. ros.job = "SEGMENT" /\ promised' = promised \cup {q} /\ q.kind = "segment"
        BY <3>1 DEF ros_take_segment_receipt
      <4>2. Images = {Image} /\ Kept(Image, q)
        BY <1>4, <2>1, <4>1, SegmentPromised
      <4> HIDE DEF q
      <4> QED
        BY <4>1, <4>2
    <3>2. CASE ros_take_final_receipt
      <4> DEFINE q == [kind |-> "final", id |-> ros.pending.id, segments |-> ros.pending.completion]
      <4>1. ros.job = "FINALIZE" /\ promised' = promised \cup {q} /\ q.kind = "final"
        BY <3>2 DEF ros_take_final_receipt
      <4>2. Images = {Image} /\ Kept(Image, q)
        BY <1>4, <2>1, <4>1, FinalPromised
      <4> HIDE DEF q
      <4> QED
        BY <4>1, <4>2
    <3> QED
      BY <1>15, <3>1, <3>2
  <2>4. Durable(Images, promised')
    <3> DEFINE Q == {q}
    <3>1. \A y \in Q : y.kind \in {"segment", "final", "receipt"} /\ \A n \in Images : Kept(n, y)
      BY <2>3
    <3>2. promised' = promised \cup Q
      BY <2>3
    <3> HIDE DEF Q
    <3> QED
      BY <1>2, <3>1, <3>2, Promise
  <2>5. Images' = Images /\ Image' = Image
    BY <1>1, <2>1, ImagesAfter
  <2>6. Keeps(Images, Image, promised', rsm, ros', "RECORDING", cat)
    BY <1>5, <1>7, <2>2, <2>4, RecordingKeeps
  <2> QED
    BY <1>1, <2>5, <2>6
<1> QED
  BY <1>1, <1>9, <1>10, <1>11, <1>12, <1>13, <1>14, <1>15 DEF StoreStep
-----------------------------------------------------------------------------
(* Provisioning and sessions.                                              *)

(* A volume nobody has mounted.                                            *)
LEMMA RestKeeps ==
  ASSUME NEW I, NEW m, NEW pr, NEW v, NEW c, Durable(I, pr), v = "FENCED" \/ I = {m},
         v \notin {"RECORDING", "SYNCING", "SUSPENDED"}, c.items = {}
  PROVE  Keeps(I, m, pr, NoMetadata, NoStore, v, c)
<1> DEFINE x == NoMetadata
           o == NoStore
<1>1. ~x.mounted /\ x.todo = << >> /\ x.deleted = {}
  BY DEF NoMetadata
<1>2. StoreShape(o) /\ ~o.mounted /\ o.job = "NONE" /\ o.retired = {} /\ o = NoStore
  BY UnmountedStore
<1> HIDE DEF x, o
<1>3. Backed(I, x, o) /\ Single(I, m, x, v) /\ StoreSound(I, m, o) /\ Catalog(m, o, c)
  BY <1>1, <1>2 DEF Backed, Single, StoreSound, Catalog
<1>4. Receiving(I, m, x) /\ Modes(x, o, v, c)
  BY <1>1, <1>2 DEF Receiving, Modes
<1>5. Keeps(I, m, pr, x, o, v, c)
  BY <1>3, <1>4 DEF Keeps
<1> QED
  BY <1>5 DEF x, o

(* A volume that is not mounted has nothing in RAM, and one image.         *)
LEMMA Resting ==
  ASSUME VolumeInv, vol \in Unmounted
  PROVE  /\ rsm = NoMetadata /\ ros = NoStore /\ cat.items = {} /\ Durable(Images, promised)
         /\ vol # "FENCED" => Images = {Image}
<1>1. AtRest(promised, rsm, vol) /\ Keeps(Images, Image, promised, rsm, ros, vol, cat)
  BY DEF VolumeInv, DeleteInv, Sound
<1>2. rsm = NoMetadata /\ ros = NoStore /\ cat.items = {} /\ Durable(Images, promised)
  BY <1>1 DEF AtRest, Keeps, Modes, Unmounted
<1>3. ~NoMetadata.wrote
  BY DEF NoMetadata
<1> QED
  BY <1>1, <1>2, <1>3 DEF Keeps, Single, Unmounted

(* The volume is fenced, or the pendant is reset: every image is as good.  *)
LEMMA ForgetKeeps ==
  ASSUME VolumeInv, Fence \/ Reset
  PROVE  Keeps(Images', Image', promised', rsm', ros', vol', cat')
<1>1. DeleteInv /\ Durable(Images, promised) /\ Chain(versions)
  BY DEF VolumeInv, Keeps, DeleteInv
<1>2. NoCatalog.items = {}
  BY DEF NoCatalog
<1>3. rsm' = NoMetadata /\ ros' = NoStore /\ cat' = NoCatalog /\ promised' = promised
  BY DEF Fence, Reset, Forget
<1>4. CASE Fence
  <2>1. Images' = Images /\ Image' = Image /\ vol' = "FENCED"
    BY <1>1, <1>4, ImagesAfter DEF Fence
  <2>2. Keeps(Images, Image, promised, NoMetadata, NoStore, "FENCED", NoCatalog)
    BY <1>1, <1>2, RestKeeps
  <2> QED
    BY <1>3, <2>1, <2>2
<1>5. CASE Reset
  <2>1. vol' \notin {"RECORDING", "SYNCING", "SUSPENDED"}
    BY <1>5 DEF Reset, Configured
  <2>2. PICK i \in DOMAIN versions : versions' = <<versions[i]>>
    BY <1>5 DEF Reset, Cut
  <2> DEFINE n == versions[i]
  <2>3. Images' = {n} /\ Image' = n
    BY <2>2, Synced DEF Images, Image
  <2>4. n \in Images
    BY <1>1, LastImage DEF Images
  <2> HIDE DEF n
  <2>5. Durable({n}, promised)
    BY <1>1, <2>4 DEF Durable
  <2>6. Keeps({n}, n, promised, NoMetadata, NoStore, vol', NoCatalog)
    BY <1>2, <2>1, <2>5, RestKeeps
  <2> QED
    BY <1>3, <2>3, <2>6
<1> QED
  BY <1>4, <1>5

(* Commands to a volume that is not mounted.                               *)
LEMMA RestStep ==
  ASSUME VolumeInv, \/ PrepareFull \/ PrepareKeyReset \/ rv_provision_full \/ rv_erase_key_reset
                    \/ EraseRoot \/ Complete
  PROVE  Keeps(Images', Image', promised', rsm', ros', vol', cat')
<1>1. /\ vol \in Unmounted /\ vol # "FENCED" /\ UNCHANGED <<versions, ros, rsm, cat>>
      /\ promised' = promised \/ promised' = {}
      /\ vol' \notin {"RECORDING", "SYNCING", "SUSPENDED"}
  BY DEF PrepareFull, PrepareKeyReset, rv_provision_full, rv_erase_key_reset, EraseRoot, Complete,
     Unmounted, durable
<1>2. DeleteInv
  BY DEF VolumeInv
<1>3. Images' = Images /\ Image' = Image
  BY <1>1, <1>2, ImagesAfter
<1>4. /\ rsm = NoMetadata /\ ros = NoStore /\ cat.items = {} /\ Durable(Images, promised)
      /\ Images = {Image}
  BY <1>1, Resting
<1>5. Durable(Images, promised')
  BY <1>1, <1>4 DEF Durable, KeptBy
<1>6. Keeps(Images, Image, promised', NoMetadata, NoStore, vol', cat)
  BY <1>1, <1>4, <1>5, RestKeeps
<1> QED
  BY <1>1, <1>3, <1>4, <1>6

(* A formatted map, of which nothing is promised.                          *)
LEMMA FormattedKeeps ==
  Durable({Formatted}, {})
<1> DEFINE n == Formatted
<1>1. \A y \in Sector : n[y] = Missing
  BY DEF Formatted
<1> HIDE DEF n
<1>2. PagesOK(n)
  BY <1>1, InSector DEF PagesOK, ReceiptPageOK, SlotPageOK
<1>3. \A s \in SlotNo : ReceiptAt(n, s) = NoReceipt
  BY <1>1, InSector, PageOfSlot DEF ReceiptAt
<1>4. HonestMap(n) /\ KeptBy(n, {})
  BY <1>3 DEF HonestMap, KeptBy
<1>5. Durable({n}, {})
  BY <1>2, <1>4 DEF Durable
<1> QED
  BY <1>5 DEF n

(* The volume is formatted.                                                *)
LEMMA FormatKeeps ==
  ASSUME VolumeInv, Format
  PROVE  Keeps(Images', Image', promised', rsm', ros', vol', cat')
<1>1. /\ vol \in {"FORMATTING", "ERASING"} /\ UNCHANGED <<promised, ros, rsm, cat>>
      /\ versions' = <<Formatted>> /\ vol' \notin {"RECORDING", "SYNCING", "SUSPENDED"}
  BY DEF Format, rns_format
<1>2. promised = {} /\ vol \in Unmounted
  BY <1>1 DEF VolumeInv, DeleteInv, Sound, AtRest, Unmounted
<1>3. rsm = NoMetadata /\ ros = NoStore /\ cat.items = {}
  BY <1>2, Resting
<1>4. Images' = {Formatted} /\ Image' = Formatted
  BY <1>1, Synced DEF Images, Image
<1>5. Keeps({Formatted}, Formatted, {}, NoMetadata, NoStore, vol', cat)
  BY <1>1, <1>3, FormattedKeeps, RestKeeps
<1> QED
  BY <1>1, <1>2, <1>3, <1>4, <1>5

(* What an open of the metadata leaves in RAM.                             *)
LEMMA OpenedFields ==
  /\ Opened.mounted /\ Opened.todo = << >> /\ Opened.deleted = Deleted(Image)
  /\ ~Opened.wrote /\ Opened.reply = {}
BY DEF Opened, NoMetadata

(* The metadata is created, or opened, before the volume is activated.     *)
LEMMA MetadataKeeps ==
  ASSUME VolumeInv, CreateMetadata \/ OpenMetadata
  PROVE  Keeps(Images', Image', promised', rsm', ros', vol', cat')
<1>1. /\ vol \in {"PROVISIONING", "RESETTING"} /\ ~rsm.mounted /\ rsm.todo = << >>
      /\ UNCHANGED <<versions, promised, ros, vol, cat>>
  BY DEF CreateMetadata, OpenMetadata, Creating, Idle
<1>2. DeleteInv /\ Keeps(Images, Image, promised, rsm, ros, vol, cat) /\ Shape(rsm)
  BY DEF VolumeInv, DeleteInv, Sound
<1>3. Images' = Images /\ Image' = Image
  BY <1>1, <1>2, ImagesAfter
<1>4. Images = {Image} /\ ~rsm.wrote
  BY <1>1, <1>2 DEF Keeps, Single, Shape
<1>5. /\ Durable(Images, promised) /\ Backed(Images, rsm, ros) /\ StoreSound(Images, Image, ros)
      /\ Catalog(Image, ros, cat) /\ Modes(rsm, ros, vol, cat)
  BY <1>2 DEF Keeps
<1>6. CASE CreateMetadata
  <2>1. rsm' = [rsm EXCEPT !.todo = CreatePages] /\ AllMissing(Image)
    BY <1>6 DEF CreateMetadata
  <2>2. /\ rsm'.mounted = rsm.mounted /\ rsm'.deleted = rsm.deleted /\ rsm'.wrote = rsm.wrote
    BY <1>2, <2>1 DEF Shape
  <2>3. NoReceipts(Image)
    <3>1. \A p \in ReceiptPage : Image[Receipts(p)] = Missing
      BY <2>1 DEF AllMissing, Companions
    <3> QED
      BY <3>1, PageOfSlot DEF NoReceipts, ReceiptAt
  <2>4. ~rsm'.mounted
    BY <1>1, <2>2
  <2>5. Receiving(Images, Image, rsm')
    BY <1>4, <2>3, <2>4 DEF Receiving, ReceiptsPending
  <2>6. Backed(Images, rsm', ros) /\ Single(Images, Image, rsm', vol)
    BY <1>4, <1>5, <2>2 DEF Backed, Single
  <2>7. Modes(rsm', ros, vol, cat)
    BY <1>1, <1>5, <2>4 DEF Modes
  <2>8. Keeps(Images, Image, promised, rsm', ros, vol, cat)
    BY <1>5, <2>5, <2>6, <2>7 DEF Keeps
  <2> QED
    BY <1>1, <1>3, <2>8
<1>7. CASE OpenMetadata
  <2>1. rsm' = Opened /\ MetadataValid(Image)
    BY <1>7 DEF OpenMetadata
  <2>2. rsm'.mounted /\ rsm'.todo = << >> /\ rsm'.deleted = Deleted(Image)
    BY <2>1, OpenedFields
  <2>3. \A p \in ReceiptPage : Image[Receipts(p)] # Missing
    BY <2>1 DEF MetadataValid, Companions
  <2>4. Receiving(Images, Image, rsm')
    BY <2>2, <2>3 DEF Receiving
  <2>5. Backed(Images, rsm', ros) /\ Single(Images, Image, rsm', vol)
    BY <1>4, <1>5, <2>2 DEF Backed, Single
  <2>6. Modes(rsm', ros, vol, cat)
    BY <1>1, <1>5, <2>2 DEF Modes
  <2>7. Keeps(Images, Image, promised, rsm', ros, vol, cat)
    BY <1>5, <2>4, <2>5, <2>6 DEF Keeps
  <2> QED
    BY <1>1, <1>3, <2>7
<1> QED
  BY <1>6, <1>7

(* A mounted volume with nothing to do.                                    *)
LEMMA SessionKeeps ==
  ASSUME NEW m, NEW pr, NEW x, NEW o, NEW v, NEW c, Durable({m}, pr), StoreSound({m}, m, o),
         o.mounted, o.job = "NONE", o.retired \subseteq Deleted(m), x.deleted \subseteq Deleted(m),
         x.mounted, x.todo = << >>, \A p \in ReceiptPage : m[Receipts(p)] # Missing, c.items = {},
         v \in {"RECORDING", "SYNCING", "SUSPENDED", "RETIRED"}
  PROVE  Keeps({m}, m, pr, x, o, v, c)
<1>1. Backed({m}, x, o) /\ Single({m}, m, x, v) /\ Catalog(m, o, c)
  BY DEF Backed, Single, Catalog
<1>2. Receiving({m}, m, x)
  BY DEF Receiving
<1>3. Modes(x, o, v, c)
  BY DEF Modes, Unmounted
<1> QED
  BY <1>1, <1>2, <1>3 DEF Keeps

(* A store without a job does not care for the images before the last.     *)
LEMMA JoblessStore ==
  ASSUME NEW I, NEW m, NEW o, StoreSound(I, m, o), o.job \in {"NONE", "LOAD"}, NEW I2
  PROVE  StoreSound(I2, m, o)
BY DEF StoreSound, SegmentJob, RootJob

(* The store is rebuilt, or need not be.                                   *)
LEMMA RecoverKeeps ==
  ASSUME NEW ids, ros_recover_retired(ids), StoreSound(Images, Image, ros), PagesOK(Image), NEW I2
  PROVE  StoreSound(I2, Image, ros') /\ ros'.mounted /\ ros'.job = "NONE" /\ ros'.retired = ids
<1>1. CASE ros.mounted /\ ids = ros.retired
  <2>1. ros' = ros /\ ros.job = "NONE"
    BY <1>1 DEF ros_recover_retired
  <2>2. StoreSound(I2, Image, ros)
    BY <2>1, JoblessStore
  <2> QED
    BY <1>1, <2>1, <2>2
<1>2. CASE ~(ros.mounted /\ ids = ros.retired)
  <2> DEFINE found == Recovery(Image, ids)
  <2>1. found.ok /\ ros' = Rebuilt(ids, found)
    BY <1>2 DEF ros_recover_retired, Rebuilt
  <2>2. found = Recovery(Image, ids) /\ \A s \in SlotNo : SlotPageOK(Image[Slot(s)])
    BY DEF PagesOK
  <2> HIDE DEF found
  <2> QED
    BY <2>1, <2>2, Recovered
<1> QED
  BY <1>1, <1>2

(* The volume is activated, and sessions begin and end.                    *)
LEMMA SessionStep ==
  ASSUME VolumeInv,
         \/ Activate \/ EndRecording \/ EndSync
         \/ \E s \in {"RECORDING", "SYNCING"} : Mount(s) \/ Reopen(s)
  PROVE  Keeps(Images', Image', promised', rsm', ros', vol', cat')
<1>1. /\ DeleteInv /\ Keeps(Images, Image, promised, rsm, ros, vol, cat)
      /\ Image \in Images /\ Shape(rsm) /\ AtRest(promised, rsm, vol)
  BY DEF VolumeInv, DeleteInv, Sound
<1>2. /\ Durable(Images, promised) /\ Backed(Images, rsm, ros) /\ StoreSound(Images, Image, ros)
      /\ Receiving(Images, Image, rsm) /\ Modes(rsm, ros, vol, cat)
  BY <1>1 DEF Keeps
<1>3. Durable({Image}, promised) /\ PagesOK(Image)
  BY <1>1, <1>2 DEF Durable
<1>4. /\ rsm.deleted \subseteq Deleted(Image) /\ ros.retired \subseteq Deleted(Image)
      /\ rsm.mounted => \A p \in ReceiptPage : Image[Receipts(p)] # Missing
  BY <1>1, <1>2 DEF Backed, Receiving
<1>5. CASE Activate
  <2>1. /\ vol \in {"PROVISIONING", "RESETTING"} /\ rsm.mounted /\ ros_recover_retired(rsm.deleted)
        /\ rns_sync /\ vol' \in {"SUSPENDED", "RETIRED"} /\ UNCHANGED <<promised, rsm, cat>>
    BY <1>5 DEF Activate, Creating, rv_suspend
  <2>2. Images' = {Image} /\ Image' = Image
    BY <1>1, <2>1, ImagesAfter
  <2>3. /\ StoreSound({Image}, Image, ros') /\ ros'.mounted /\ ros'.job = "NONE"
        /\ ros'.retired = rsm.deleted
    BY <1>2, <1>3, <2>1, RecoverKeeps
  <2>4. rsm.todo = << >> /\ cat.items = {}
    BY <1>2, <2>1 DEF Modes
  <2>5. Keeps({Image}, Image, promised, rsm, ros', vol', cat)
    BY <1>3, <1>4, <2>1, <2>3, <2>4, SessionKeeps
  <2> QED
    BY <2>1, <2>2, <2>5
<1>6. CASE EndRecording
  <2>1. /\ vol = "RECORDING" /\ ros.job = "NONE" /\ rns_sync /\ vol' = "SUSPENDED"
        /\ UNCHANGED <<promised, ros, rsm, cat>>
    BY <1>6 DEF EndRecording, rv_suspend
  <2>2. Images' = {Image} /\ Image' = Image
    BY <1>1, <2>1, ImagesAfter
  <2>3. rsm.todo = << >> /\ cat.items = {} /\ rsm.mounted /\ ros.mounted
    BY <1>2, <2>1 DEF Modes
  <2>4. StoreSound({Image}, Image, ros)
    BY <1>2, <2>1, JoblessStore
  <2>5. Keeps({Image}, Image, promised, rsm, ros, vol', cat)
    BY <1>3, <1>4, <2>1, <2>3, <2>4, SessionKeeps
  <2> QED
    BY <2>1, <2>2, <2>5
<1>7. CASE EndSync
  <2>1. /\ vol = "SYNCING" /\ rsm.todo = << >> /\ ros.job \in {"NONE", "LOAD"} /\ ros' = Finished(ros)
        /\ rns_sync /\ vol' = "SUSPENDED" /\ cat' = NoCatalog /\ UNCHANGED <<promised, rsm>>
    BY <1>7 DEF EndSync, rv_suspend, Idle, FinishJob, Finished
  <2>2. Images' = {Image} /\ Image' = Image
    BY <1>1, <2>1, ImagesAfter
  <2>3. rsm.mounted /\ ros.mounted /\ cat'.items = {}
    BY <1>2, <2>1 DEF Modes, NoCatalog
  <2>4. StoreSound({Image}, Image, ros)
    BY <1>2, <2>1, JoblessStore
  <2>5. StoreParts({Image}, Image, ros)
    BY <2>3, <2>4 DEF StoreSound, StoreParts
  <2>6. StoreParts({Image}, Image, ros') /\ ros'.mounted /\ ros'.retired = ros.retired /\ ros'.job = "NONE"
    BY <2>1, <2>3, <2>5, FinishSound
  <2>7. StoreSound({Image}, Image, ros')
    BY <2>6 DEF StoreSound, StoreParts
  <2>8. Keeps({Image}, Image, promised, rsm, ros', vol', cat')
    BY <1>3, <1>4, <2>1, <2>3, <2>6, <2>7, SessionKeeps
  <2> QED
    BY <2>1, <2>2, <2>8
<1>8. CASE \E s \in {"RECORDING", "SYNCING"} : Mount(s)
  <2>1. /\ vol = "CONFIGURED" /\ MetadataValid(Image) /\ rsm' = Opened
        /\ ros_recover_retired(Opened.deleted) /\ vol' \in {"RECORDING", "SYNCING"}
        /\ UNCHANGED <<versions, promised, cat>>
    BY <1>8 DEF Mount
  <2>2. Images' = Images /\ Image' = Image
    BY <1>1, <2>1, ImagesAfter
  <2>3. Images = {Image} /\ cat.items = {}
    BY <2>1, Resting DEF Unmounted
  <2>4. rsm'.mounted /\ rsm'.todo = << >> /\ rsm'.deleted = Deleted(Image)
    BY <2>1, OpenedFields
  <2>5. /\ StoreSound({Image}, Image, ros') /\ ros'.mounted /\ ros'.job = "NONE"
        /\ ros'.retired = Deleted(Image)
    BY <1>2, <1>3, <2>1, OpenedFields, RecoverKeeps
  <2>6. \A p \in ReceiptPage : Image[Receipts(p)] # Missing
    BY <2>1 DEF MetadataValid, Companions
  <2>7. Keeps({Image}, Image, promised, rsm', ros', vol', cat)
    BY <1>3, <2>1, <2>3, <2>4, <2>5, <2>6, SessionKeeps
  <2> QED
    BY <2>1, <2>2, <2>3, <2>7
<1>9. CASE \E s \in {"RECORDING", "SYNCING"} : Reopen(s)
  <2>1. /\ vol = "SUSPENDED" /\ ros_recover_retired(rsm.deleted) /\ vol' \in {"RECORDING", "SYNCING"}
        /\ UNCHANGED <<versions, promised, rsm, cat>>
    BY <1>9 DEF Reopen
  <2>2. Images' = Images /\ Image' = Image
    BY <1>1, <2>1, ImagesAfter
  <2>3. rsm.todo = << >> /\ cat.items = {} /\ rsm.mounted
    BY <1>2, <2>1 DEF Modes
  <2>4. Images = {Image}
    BY <1>1, <2>1, <2>3 DEF Keeps, Single, Shape
  <2>5. /\ StoreSound({Image}, Image, ros') /\ ros'.mounted /\ ros'.job = "NONE"
        /\ ros'.retired = rsm.deleted
    BY <1>2, <1>3, <2>1, RecoverKeeps
  <2>6. Keeps({Image}, Image, promised, rsm, ros', vol', cat)
    BY <1>3, <1>4, <2>1, <2>3, <2>5, SessionKeeps
  <2> QED
    BY <2>1, <2>2, <2>4, <2>6
<1> QED
  BY <1>5, <1>6, <1>7, <1>8, <1>9
-----------------------------------------------------------------------------
(* A sync session.                                                         *)

(* A store that serves a sync as o does.                                   *)
StoreServes(m, o2, o) ==
  /\ StoreParts({m}, m, o2) /\ o2.mounted /\ o2.retired = o.retired
  /\ o2.used = o.used /\ o2.job \in {"NONE", "LOAD"}

(* What a step of a sync session has to show.                              *)
LEMMA SyncingKeeps ==
  ASSUME NEW m, NEW pr, NEW x, NEW o, NEW c, Keeps({m}, m, pr, x, o, "SYNCING", c),
         NEW pr2, Durable({m}, pr2), NEW o2, StoreServes(m, o2, o),
         NEW c2, Catalog(m, o2, c2),
         NEW x2, x2.mounted, x2.deleted = x.deleted,
         x2.todo # << >> /\ ReceiptsPending(x2) => ReceiptsOnTheirWay(m, x2)
  PROVE  Keeps({m}, m, pr2, x2, o2, "SYNCING", c2)
<1>1. Backed({m}, x, o) /\ Receiving({m}, m, x) /\ Modes(x, o, "SYNCING", c)
  BY DEF Keeps
<1>2. Backed({m}, x2, o2) /\ Single({m}, m, x2, "SYNCING")
  BY <1>1 DEF Backed, Single, StoreServes
<1>3. StoreSound({m}, m, o2)
  BY DEF StoreParts, StoreSound, StoreServes
<1>4. x.mounted
  BY <1>1 DEF Modes
<1>5. Receiving({m}, m, x2)
  BY <1>1, <1>4 DEF Receiving
<1>6. Modes(x2, o2, "SYNCING", c2)
  BY DEF Modes, Unmounted, StoreServes
<1> QED
  BY <1>2, <1>3, <1>5, <1>6 DEF Keeps

(* The store of a sync session with nothing pending.                       *)
LEMMA ServingState ==
  ASSUME VolumeInv, vol = "SYNCING"
  PROVE  /\ ros.mounted /\ rsm.mounted /\ ros.job \in {"NONE", "LOAD"} /\ StoreShape(ros)
         /\ Slotted(Image, ros) /\ Catalog(Image, ros, cat)
         /\ DeleteInv /\ Shape(rsm) /\ Keeps(Images, Image, promised, rsm, ros, "SYNCING", cat)
         /\ Durable(Images, promised) /\ StoreParts(Images, Image, ros)
         /\ rsm.todo = << >> => Images = {Image} /\ StoreServes(Image, ros, ros)
<1>1. DeleteInv /\ Shape(rsm) /\ Keeps(Images, Image, promised, rsm, ros, "SYNCING", cat)
  BY DEF VolumeInv, DeleteInv, Sound
<1>2. /\ Durable(Images, promised) /\ StoreSound(Images, Image, ros) /\ Catalog(Image, ros, cat)
      /\ Modes(rsm, ros, "SYNCING", cat) /\ Single(Images, Image, rsm, "SYNCING")
  BY <1>1 DEF Keeps
<1>3. ros.mounted /\ rsm.mounted /\ ros.job \in {"NONE", "LOAD"}
  BY <1>2 DEF Modes
<1>4. StoreParts(Images, Image, ros)
  BY <1>2, <1>3 DEF StoreSound, StoreParts
<1>5. rsm.todo = << >> => Images = {Image}
  BY <1>1, <1>2 DEF Single, Shape
<1> QED
  BY <1>1, <1>2, <1>3, <1>4, <1>5 DEF StoreParts, StoreServes

(* A description read from the store.                                      *)
LEMMA CacheSound ==
  ASSUME NEW m, StoreServes(m, ros, ros), NEW item, NEW first, NEW last,
         NEW o2, o2 = full_cache(item, first, last)
  PROVE  StoreServes(m, o2, ros)
<1>1. CASE o2 = ros
  BY <1>1
<1>2. CASE o2 = FinishJob
  <2>1. o2 = Finished(ros)
    BY <1>2 DEF FinishJob, Finished
  <2>2. StoreParts({m}, m, ros) /\ ros.mounted /\ ros.job \in {"NONE", "LOAD"}
    BY DEF StoreServes
  <2> QED
    BY <2>1, <2>2, FinishSound DEF StoreServes
<1> QED
  BY <1>1, <1>2 DEF full_cache

(* A catalog names what the store holds in the same slots.                 *)
LEMMA CatalogStays ==
  ASSUME NEW m, NEW o, NEW o2, NEW c, Catalog(m, o, c), o2.used = o.used
  PROVE  Catalog(m, o2, c)
BY DEF Catalog, HeldIn

(* The catalog is opened.                                                  *)
LEMMA CatalogOpened ==
  ASSUME StoreShape(ros), IndexComplete
  PROVE  Catalog(Image, ros, [opened |-> TRUE, items |-> Items])
<1>1. ASSUME NEW item \in Items PROVE item.segments \in Nat
  <2>1. PICK r \in RootNo : ros.records[r].present /\ item.segments = ros.records[r].segments
    BY <1>1 DEF Items
  <2>2. RecordOK(ros.records[r])
    BY DEF StoreShape
  <2> QED
    BY <2>1, <2>2 DEF RecordOK
<1>2. ASSUME NEW item \in Items, NEW q \in Nat, q < item.segments
      PROVE  HeldIn(Image, ros, item.id, q)
  <2>1. item.segments \in Nat
    BY <1>1
  <2>2. q \in 0..item.segments-1
    BY <1>2, <2>1
  <2>3. AllSegmentsHeld(item)
    BY DEF IndexComplete
  <2> QED
    BY <2>2, <2>3 DEF AllSegmentsHeld, Holds, HeldIn
<1> DEFINE c == [opened |-> TRUE, items |-> Items]
<1>3. c.items = Items
  OBVIOUS
<1> HIDE DEF c
<1>4. Catalog(Image, ros, c)
  BY <1>1, <1>2, <1>3 DEF Catalog
<1> QED
  BY <1>4 DEF c

(* The catalog is opened and read.                                         *)
LEMMA ReadStep ==
  ASSUME VolumeInv,
         \/ rcat_open
         \/ \E item \in cat.items, q \in SlotNo : ReadManifest(item, q) \/ ReadSegment(item, q)
  PROVE  Keeps(Images', Image', promised', rsm', ros', vol', cat')
<1>1. vol = "SYNCING" /\ UNCHANGED <<versions, promised, rsm, vol>>
  BY DEF rcat_open, ReadManifest, ReadSegment, Serving
<1>2. /\ ros.mounted /\ rsm.mounted /\ ros.job \in {"NONE", "LOAD"} /\ StoreShape(ros)
      /\ Catalog(Image, ros, cat) /\ StoreParts(Images, Image, ros)
      /\ DeleteInv /\ Keeps(Images, Image, promised, rsm, ros, "SYNCING", cat)
      /\ Durable(Images, promised)
      /\ rsm.todo = << >> => Images = {Image} /\ StoreServes(Image, ros, ros)
  BY <1>1, ServingState
<1>3. Images' = Images /\ Image' = Image
  BY <1>1, <1>2, ImagesAfter
<1>4. CASE rcat_open
  <2>1. IndexComplete /\ ros' = ros /\ cat' = [opened |-> TRUE, items |-> Items]
    BY <1>4 DEF rcat_open
  <2>2. Catalog(Image, ros, cat')
    BY <1>2, <2>1, CatalogOpened
  <2>3. Modes(rsm, ros, "SYNCING", cat')
    BY <1>2 DEF Keeps, Modes, Unmounted
  <2>4. Keeps(Images, Image, promised, rsm, ros, "SYNCING", cat')
    BY <1>2, <2>2, <2>3 DEF Keeps
  <2> QED
    BY <1>1, <1>3, <2>1, <2>4
<1>5. CASE \E item \in cat.items, q \in SlotNo : ReadManifest(item, q) \/ ReadSegment(item, q)
  <2>1. PICK item \in cat.items, q \in SlotNo : ReadManifest(item, q) \/ ReadSegment(item, q)
    BY <1>5
  <2>2. rsm.todo = << >> /\ cat' = cat
    BY <2>1 DEF ReadManifest, ReadSegment, Serving, Idle
  <2>3. Images = {Image} /\ StoreServes(Image, ros, ros)
    BY <1>2, <2>2
  <2>4. StoreServes(Image, ros', ros)
    <3>1. CASE ReadManifest(item, q)
      <4>1. ros' = full_cache(item, q, q)
        BY <3>1 DEF ReadManifest
      <4> QED
        BY <2>3, <4>1, CacheSound
    <3>2. CASE ReadSegment(item, q) /\ Loaded(item, q)
      BY <2>3, <3>2 DEF ReadSegment
    <3>3. CASE ReadSegment(item, q) /\ ~Loaded(item, q)
      <4>1. ros_load(SlotOf(item.id, q))
        BY <3>3 DEF ReadSegment
      <4> DEFINE s == SlotOf(item.id, q)
                 page == Image[Slot(s)]
                 seg == [id |-> page.id, root |-> page.root, seq |-> page.seq]
      <4>2. ros' = LoadedFrom(ros, s, seg)
        BY <4>1 DEF ros_load, LoadedFrom, Begin
      <4> HIDE DEF s, seg
      <4>3. StoreParts({Image}, Image, ros) /\ ros.mounted /\ ros.job \in {"NONE", "LOAD"}
        BY <2>3 DEF StoreServes
      <4> QED
        BY <4>2, <4>3, LoadSound DEF StoreServes
    <3> QED
      BY <2>1, <3>1, <3>2, <3>3
  <2>5. Catalog(Image, ros', cat)
    BY <1>2, <2>4, CatalogStays DEF StoreServes
  <2>6. Keeps({Image}, Image, promised, rsm, ros', "SYNCING", cat)
    BY <1>2, <2>2, <2>3, <2>4, <2>5, SyncingKeeps
  <2> QED
    BY <1>1, <1>3, <2>2, <2>3, <2>6
<1> QED
  BY <1>4, <1>5

(* A deletion is answered from its tombstone, or its tombstone is queued.  *)
LEMMA DeleteKeeps ==
  ASSUME VolumeInv, \E op \in Ops, man \in Manifests : Replay(op, man) \/ Delete(op, man)
  PROVE  Keeps(Images', Image', promised', rsm', ros', vol', cat')
<1>1. PICK op \in Ops, man \in Manifests : Replay(op, man) \/ Delete(op, man)
  OBVIOUS
<1>2. /\ vol = "SYNCING" /\ rsm.todo = << >> /\ UNCHANGED <<versions, ros, vol, cat>>
  BY <1>1 DEF Replay, Delete, Serving, Idle, rsm_replay_delete, rsm_delete
<1>3. /\ rsm.mounted /\ Shape(rsm) /\ DeleteInv /\ Catalog(Image, ros, cat)
      /\ Images = {Image} /\ StoreServes(Image, ros, ros) /\ Durable(Images, promised)
      /\ Keeps({Image}, Image, promised, rsm, ros, "SYNCING", cat)
  BY <1>2, ServingState
<1>4. Images' = {Image} /\ Image' = Image
  BY <1>2, <1>3, ImagesAfter
<1>5. CASE Replay(op, man)
  <2>1. rsm' = rsm /\ \E q : IsDelete(q) /\ promised' = promised \cup {q}
    <3>1. PICK t \in Tombstones(Image) : promised' = promised \cup
             {[kind |-> "delete", op |-> op, man |-> man, rev |-> t.rev]}
      BY <1>5 DEF Replay, rsm_replay_delete
    <3> DEFINE q == [kind |-> "delete", op |-> op, man |-> man, rev |-> t.rev]
    <3>2. IsDelete(q) /\ promised' = promised \cup {q}
      BY <3>1 DEF IsDelete
    <3> HIDE DEF q
    <3> QED
      BY <1>5, <3>2 DEF Replay, rsm_replay_delete
  <2>2. Durable({Image}, promised')
    <3>1. PICK q : IsDelete(q) /\ promised' = promised \cup {q}
      BY <2>1
    <3> DEFINE Q == {q}
    <3>2. promised' = promised \cup Q /\ \A y \in Q : IsDelete(y)
      BY <3>1
    <3> HIDE DEF Q
    <3> QED
      BY <1>3, <3>2, Promise
  <2>3. Keeps({Image}, Image, promised', rsm, ros, "SYNCING", cat)
    BY <1>2, <1>3, <2>2, SyncingKeeps
  <2> QED
    BY <1>2, <1>4, <2>1, <2>3
<1>6. CASE Delete(op, man)
  <2>1. /\ promised' = promised
        /\ \E pages, q : IsDelete(q) /\ rsm' = [rsm EXCEPT !.todo = pages, !.reply = {q}]
    <3> DEFINE n == Cardinality(rsm.deleted)
               p == n \div TombsPerPage
               rev == NextRevision(man)
               t == [op |-> op, man |-> man, rev |-> rev]
               pages == <<[sector |-> Tombs(p),
                           page |-> [Image[Tombs(p)] EXCEPT !.list = Append(@, t)]]>>
               q == [kind |-> "delete", op |-> op, man |-> man, rev |-> rev]
    <3>1. promised' = promised /\ rsm' = [rsm EXCEPT !.todo = pages, !.reply = {q}]
      BY <1>6 DEF Delete, rsm_delete, Publishing
    <3> HIDE DEF pages
    <3>2. IsDelete(q)
      BY DEF IsDelete
    <3> HIDE DEF q
    <3> QED
      BY <3>1, <3>2
  <2>2. PICK pages, q : IsDelete(q) /\ rsm' = [rsm EXCEPT !.todo = pages, !.reply = {q}]
    BY <2>1
  <2>3. rsm'.mounted = rsm.mounted /\ rsm'.deleted = rsm.deleted /\ rsm'.reply = {q}
    BY <1>3, <2>2 DEF Shape
  <2>4. ~ReceiptsPending(rsm')
    BY <2>2, <2>3 DEF ReceiptsPending
  <2>5. Keeps({Image}, Image, promised, rsm', ros, "SYNCING", cat)
    BY <1>3, <2>3, <2>4, SyncingKeeps
  <2> QED
    BY <1>2, <1>4, <2>1, <2>5
<1> QED
  BY <1>1, <1>5, <1>6

(* Receipts that are beside the segments they are for.                     *)
Fits(fs) ==
  \A s \in DOMAIN fs : /\ s \in SlotNo /\ HoldsCommit(Image, s, fs[s])
                       /\ fs[s] = [id |-> fs[s].id, seq |-> fs[s].seq]

(* So are the receipts of segments the catalog names.                      *)
LEMMA ReceiptsFit ==
  ASSUME Catalog(Image, ros, cat), Slotted(Image, ros), NEW item \in cat.items,
         NEW a \in SlotNo, NEW b \in SlotNo, b < item.segments,
         NEW fs, fs = ReceiptsOf(item, a, b)
  PROVE  Fits(fs)
<1> SUFFICES ASSUME NEW s \in DOMAIN fs
             PROVE  /\ s \in SlotNo /\ HoldsCommit(Image, s, fs[s])
                    /\ fs[s] = [id |-> fs[s].id, seq |-> fs[s].seq]
  BY DEF Fits
<1> DEFINE D == {SlotOf(item.id, q) : q \in a..b}
           e(t) == [id |-> item.id, seq |-> Image[Slot(t)].seq]
<1>1. fs = [t \in D |-> e(t)]
  BY DEF ReceiptsOf
<1>2. s \in D /\ fs[s] = e(s)
  <2> HIDE DEF D, e
  <2> QED
    BY <1>1
<1>3. PICK q \in a..b : s = SlotOf(item.id, q)
  BY <1>2
<1>4. q \in Nat /\ q < item.segments
  <2>1. a \in Nat /\ b \in Nat /\ item.segments \in Nat
    BY LayoutAssumption DEF LayoutAssumption, SlotNo, Catalog
  <2> QED
    BY <2>1
<1>5. \E t \in SlotNo : Holds(t, item.id, q)
  BY <1>4 DEF Catalog, HeldIn, Holds
<1>6. s \in SlotNo /\ Holds(s, item.id, q)
  BY <1>3, <1>5 DEF SlotOf
<1>7. Image[Slot(s)].kind = "COMMIT" /\ Image[Slot(s)].id = item.id
  BY <1>6 DEF Holds, Slotted
<1> QED
  BY <1>2, <1>6, <1>7 DEF HoldsCommit

(* A page of receipts with the new ones.                                   *)
LEMMA ReceiptWritten ==
  ASSUME NEW fs, NEW p \in ReceiptPage, ReceiptPageOK(Image[Receipts(p)]),
         Image[Receipts(p)] # Missing, NEW page, page = ReceiptWrite(fs, p)
  PROVE  /\ page # Missing /\ ReceiptPageOK(page)
         /\ \A s \in SlotNo : s \div SlotsPerPage = p =>
              page.entries[s] = IF s \in DOMAIN fs THEN fs[s] ELSE ReceiptAt(Image, s)
<1> DEFINE old == Image[Receipts(p)]
           changed == {s \in DOMAIN fs : ReceiptAt(Image, s) # fs[s]}
           e(s) == IF s \in changed /\ s \div SlotsPerPage = p THEN fs[s] ELSE old.entries[s]
           entries == [s \in SlotNo |-> e(s)]
<1>1. old = [kind |-> "receipts", entries |-> old.entries]
  BY DEF ReceiptPageOK
<1>2. page = [old EXCEPT !.entries = entries]
  BY DEF ReceiptWrite
<1>3. \A s \in SlotNo : s \div SlotsPerPage = p =>
        e(s) = IF s \in DOMAIN fs THEN fs[s] ELSE ReceiptAt(Image, s)
  BY DEF ReceiptAt
<1> HIDE DEF old, e
<1>4. entries = [s \in SlotNo |-> entries[s]] /\ \A s \in SlotNo : entries[s] = e(s)
  OBVIOUS
<1> HIDE DEF entries
<1>5. page = [kind |-> "receipts", entries |-> entries]
  BY ONLY <1>1, <1>2
<1>6. page.kind = "receipts" /\ page.entries = entries
  BY ONLY <1>5
<1>7. page # Missing
  BY ONLY <1>6 DEF Missing
<1>8. ReceiptPageOK(page)
  BY ONLY <1>4, <1>5, <1>6 DEF ReceiptPageOK
<1> QED
  BY <1>3, <1>4, <1>6, <1>7, <1>8

(* The reply of rsm_receive_slots, and what it requires.                   *)
ReceiptReply(fs) ==
  {[kind |-> "receipt", id |-> fs[s].id, seq |-> fs[s].seq] : s \in DOMAIN fs}
Receivable(fs) == \A s \in DOMAIN fs : fs[s].id \notin rsm.deleted /\ MayReceive(s, fs[s])

(* The pages that are queued are on their way.                             *)
LEMMA ReceiptsQueued ==
  ASSUME NEW fs, Fits(fs), Receivable(fs), PagesOK(Image),
         \A p \in ReceiptPage : Image[Receipts(p)] # Missing,
         NEW x, x.todo = ReceiptPagesOf(fs), x.reply = ReceiptReply(fs),
         x.deleted = rsm.deleted, ~x.wrote
  PROVE  ReceiptsOnTheirWay(Image, x)
<1>1. \A y \in Range(x.todo) : y \in ReceiptWrites(fs)
  <2>1. x.todo \in Seq(ReceiptWrites(fs))
    BY ReceiptPages
  <2>2. \A i \in DOMAIN x.todo : x.todo[i] \in ReceiptWrites(fs)
    BY <2>1
  <2> QED
    BY <2>2 DEF Range
<1>2. ASSUME NEW p \in ReceiptPage, NEW page, page = ReceiptWrite(fs, p)
      PROVE  Update(Image, x, p, page)
  <2>1. ReceiptPageOK(Image[Receipts(p)]) /\ Image[Receipts(p)] # Missing
    BY DEF PagesOK
  <2>2. /\ page # Missing /\ ReceiptPageOK(page)
        /\ \A s \in SlotNo : s \div SlotsPerPage = p =>
             page.entries[s] = IF s \in DOMAIN fs THEN fs[s] ELSE ReceiptAt(Image, s)
    BY <1>2, <2>1, ReceiptWritten
  <2>3. ASSUME NEW s \in SlotNo, s \div SlotsPerPage = p
        PROVE  \/ page.entries[s] = ReceiptAt(Image, s)
               \/ MayReplace(Image, x, s) /\ HoldsCommit(Image, s, page.entries[s])
    <3>1. CASE s \in DOMAIN fs
      <4>1. page.entries[s] = fs[s]
        BY <2>2, <2>3, <3>1
      <4>2. HoldsCommit(Image, s, fs[s]) /\ MayReceive(s, fs[s])
        BY <3>1 DEF Fits, Receivable
      <4> QED
        BY <4>1, <4>2 DEF MayReceive, MayReplace
    <3>2. CASE s \notin DOMAIN fs
      BY <2>2, <2>3, <3>2
    <3> QED
      BY <3>1, <3>2
  <2> QED
    BY <2>2, <2>3 DEF Update
<1>3. ASSUME NEW y \in ReceiptWrites(fs)
      PROVE  \E p \in ReceiptPage : y.sector = Receipts(p) /\ y.page = ReceiptWrite(fs, p)
  BY <1>3 DEF ReceiptWrites
<1>4. \A y \in Range(x.todo) :
        \E p \in ReceiptPage : y.sector = Receipts(p) /\ Update(Image, x, p, y.page)
  BY <1>1, <1>2, <1>3
<1>5. \A y, z \in Range(x.todo) : y.sector = z.sector => y.page = z.page
  <2> SUFFICES ASSUME NEW y \in Range(x.todo), NEW z \in Range(x.todo), y.sector = z.sector
               PROVE  y.page = z.page
    OBVIOUS
  <2>1. PICK p \in ReceiptPage : y.sector = Receipts(p) /\ y.page = ReceiptWrite(fs, p)
    BY <1>1, <1>3
  <2>2. PICK r \in ReceiptPage : z.sector = Receipts(r) /\ z.page = ReceiptWrite(fs, r)
    BY <1>1, <1>3
  <2>3. p = r
    BY <2>1, <2>2, Apart
  <2> QED
    BY <2>1, <2>2, <2>3
<1>6. ASSUME NEW q \in x.reply
      PROVE  /\ q = [kind |-> "receipt", id |-> q.id, seq |-> q.seq]
             /\ q.id \notin x.deleted /\ Vouched(Image, x, q)
  <2>1. PICK s \in DOMAIN fs : q = [kind |-> "receipt", id |-> fs[s].id, seq |-> fs[s].seq]
    BY <1>6 DEF ReceiptReply
  <2>2. q.kind = "receipt" /\ q.id = fs[s].id /\ q.seq = fs[s].seq
    BY <2>1
  <2>3. s \in SlotNo /\ fs[s] = [id |-> q.id, seq |-> q.seq] /\ q.id \notin x.deleted
    BY <2>2 DEF Fits, Receivable
  <2>4. CASE ReceiptAt(Image, s) = fs[s]
    BY <2>1, <2>2, <2>3, <2>4 DEF Vouched
  <2>5. CASE ReceiptAt(Image, s) # fs[s]
    <3> DEFINE p == s \div SlotsPerPage
               y == [sector |-> Receipts(p), page |-> ReceiptWrite(fs, p)]
    <3>1. p \in ReceiptPage
      BY <2>3, PageOfSlot
    <3>2. y \in Range(x.todo)
      BY <2>5, <3>1, ReceiptPages
    <3>3. y.sector = Receipts(s \div SlotsPerPage) /\ y.page = ReceiptWrite(fs, p)
      OBVIOUS
    <3> HIDE DEF y
    <3>4. y.page.entries[s] = fs[s]
      <4>1. ReceiptPageOK(Image[Receipts(p)]) /\ Image[Receipts(p)] # Missing
        BY <3>1 DEF PagesOK
      <4>2. \A t \in SlotNo : t \div SlotsPerPage = p =>
              y.page.entries[t] = IF t \in DOMAIN fs THEN fs[t] ELSE ReceiptAt(Image, t)
        BY <3>1, <3>3, <4>1, ReceiptWritten
      <4> QED
        BY <2>3, <4>2
    <3>5. Vouched(Image, x, q)
      BY <2>3, <3>2, <3>3, <3>4 DEF Vouched
    <3> QED
      BY <2>1, <2>2, <2>3, <3>5
  <2> QED
    BY <2>4, <2>5
<1> QED
  BY <1>4, <1>5, <1>6 DEF ReceiptsOnTheirWay

(* The phone's receipts: answered at once, or queued.                      *)
LEMMA ReceiveKeeps ==
  ASSUME VolumeInv, \E item \in cat.items, a, b \in SlotNo : Receive(item, a, b)
  PROVE  Keeps(Images', Image', promised', rsm', ros', vol', cat')
<1>1. PICK item \in cat.items, a \in SlotNo, b \in SlotNo : Receive(item, a, b)
  OBVIOUS
<1> DEFINE fs == ReceiptsOf(item, a, b)
           pages == ReceiptPagesOf(fs)
<1>2. /\ vol = "SYNCING" /\ rsm.todo = << >> /\ b < item.segments /\ UNCHANGED <<versions, vol, cat>>
      /\ Receivable(fs) /\ ros' = full_cache(item, a, b)
      /\ IF pages = << >>
         THEN promised' = promised \cup ReceiptReply(fs) /\ UNCHANGED rsm
         ELSE rsm' = [rsm EXCEPT !.todo = pages, !.reply = ReceiptReply(fs)] /\ UNCHANGED promised
  BY <1>1 DEF Receive, Serving, Idle, rsm_receive_slots, Receivable, ReceiptReply
<1>3. fs = ReceiptsOf(item, a, b) /\ pages = ReceiptPagesOf(fs)
  OBVIOUS
<1> HIDE DEF fs, pages
<1>4. /\ rsm.mounted /\ Shape(rsm) /\ DeleteInv /\ Catalog(Image, ros, cat) /\ Slotted(Image, ros)
      /\ Images = {Image} /\ StoreServes(Image, ros, ros) /\ Durable(Images, promised)
      /\ Keeps({Image}, Image, promised, rsm, ros, "SYNCING", cat)
  BY <1>2, ServingState
<1>5. Images' = {Image} /\ Image' = Image
  BY <1>2, <1>4, ImagesAfter
<1>6. StoreServes(Image, ros', ros) /\ Catalog(Image, ros', cat)
  <2>1. StoreServes(Image, ros', ros)
    BY <1>2, <1>4, CacheSound
  <2>2. ros'.used = ros.used
    BY <2>1 DEF StoreServes
  <2> QED
    BY <1>4, <2>1, <2>2, CatalogStays
<1>7. Fits(fs)
  BY <1>2, <1>3, <1>4, ReceiptsFit
<1>8. PagesOK(Image) /\ \A p \in ReceiptPage : Image[Receipts(p)] # Missing
  BY <1>4 DEF Durable, Keeps, Receiving
<1>9. CASE pages = << >>
  <2>1. \A s \in DOMAIN fs : ReceiptAt(Image, s) = fs[s]
    <3> SUFFICES ASSUME NEW s \in DOMAIN fs, ReceiptAt(Image, s) # fs[s] PROVE FALSE
      OBVIOUS
    <3> DEFINE y == [sector |-> Receipts(s \div SlotsPerPage),
                     page |-> ReceiptWrite(fs, s \div SlotsPerPage)]
    <3>1. s \div SlotsPerPage \in ReceiptPage
      BY <1>7, PageOfSlot DEF Fits
    <3>2. y \in Range(pages)
      BY <1>3, <3>1, ReceiptPages
    <3> HIDE DEF y
    <3> QED
      BY <1>9, <3>2 DEF Range
  <2>2. \A q \in ReceiptReply(fs) :
          q.kind \in {"segment", "final", "receipt"} /\ \A n \in {Image} : Kept(n, q)
    <3> SUFFICES ASSUME NEW q \in ReceiptReply(fs)
                 PROVE  q.kind = "receipt" /\ Kept(Image, q)
      OBVIOUS
    <3>1. PICK s \in DOMAIN fs : q = [kind |-> "receipt", id |-> fs[s].id, seq |-> fs[s].seq]
      BY DEF ReceiptReply
    <3>2. q.kind = "receipt" /\ q.id = fs[s].id /\ q.seq = fs[s].seq
      BY <3>1
    <3>3. s \in SlotNo /\ ReceiptAt(Image, s) = [id |-> q.id, seq |-> q.seq]
      BY <1>7, <2>1, <3>2 DEF Fits
    <3> QED
      BY <3>2, <3>3 DEF Kept
  <2>3. promised' = promised \cup ReceiptReply(fs) /\ rsm' = rsm
    BY <1>2, <1>9
  <2>4. Durable({Image}, promised')
    BY <1>4, <2>2, <2>3, Promise
  <2>5. Keeps({Image}, Image, promised', rsm, ros', "SYNCING", cat)
    BY <1>2, <1>4, <1>6, <2>4, SyncingKeeps
  <2> QED
    BY <1>2, <1>5, <2>3, <2>5
<1>10. CASE pages # << >>
  <2>1. rsm' = [rsm EXCEPT !.todo = pages, !.reply = ReceiptReply(fs)] /\ promised' = promised
    BY <1>2, <1>10
  <2>2. /\ rsm'.mounted = rsm.mounted /\ rsm'.deleted = rsm.deleted /\ rsm'.todo = pages
        /\ rsm'.reply = ReceiptReply(fs) /\ rsm'.wrote = rsm.wrote
    BY <1>4, <2>1 DEF Shape
  <2>3. ~rsm'.wrote
    BY <1>2, <1>4, <2>2 DEF Shape
  <2>4. ReceiptsOnTheirWay(Image, rsm')
    BY <1>2, <1>3, <1>7, <1>8, <2>2, <2>3, ReceiptsQueued
  <2>5. Keeps({Image}, Image, promised, rsm', ros', "SYNCING", cat)
    BY <1>4, <1>6, <2>2, <2>4, SyncingKeeps
  <2> QED
    BY <1>2, <1>5, <2>1, <2>5
<1> QED
  BY <1>9, <1>10
-----------------------------------------------------------------------------
(* Pages of the metadata.                                                  *)

(* The slots and the roots are the same.                                   *)
SameObjects(m, m2) ==
  /\ \A s \in SlotNo : SameSlot(m, m2, s)
  /\ \A r \in RootNo : m2[Root(r)] = m[Root(r)]

(* A page of the metadata is written.                                      *)
LEMMA MetaWrite ==
  ASSUME NEW I, NEW m \in I, NEW pr, Durable(I, pr), IsMap(m), NEW z \in Sector,
         \A r \in RootNo : z # Root(r), \A s \in SlotNo : z # Slot(s),
         \A s \in SlotNo, i \in 1..DataPages : z # Data(s, i),
         NEW page, NEW m2, m2 = Written(m, z, page), Deleted(m) \subseteq Deleted(m2),
         \A s \in SlotNo :
           \/ ReceiptAt(m2, s) = ReceiptAt(m, s)
           \/ /\ ReceiptAt(m, s) = NoReceipt \/ ReceiptAt(m, s).id \in Deleted(m)
              /\ HoldsCommit(m, s, ReceiptAt(m2, s)),
         \A p \in ReceiptPage : ReceiptPageOK(m2[Receipts(p)])
  PROVE  Durable(I \cup {m2}, pr) /\ SameObjects(m, m2)
<1>1. \A y \in Sector : m2[y] = IF y = z THEN page ELSE m[y]
  BY ReadAfterWrite
<1>2. \A s \in SlotNo : SameSlot(m, m2, s)
  BY <1>1, InSector DEF SameSlot
<1>3. \A r \in RootNo : m2[Root(r)] = m[Root(r)]
  BY <1>1, InSector
<1>4. \A s \in SlotNo : ReceiptAt(m2, s) = ReceiptAt(m, s) \/ Renewed(m, m2, s)
  <2> TAKE s \in SlotNo
  <2>1. m2[Slot(s)] = m[Slot(s)]
    BY <1>2 DEF SameSlot
  <2>2. ASSUME NEW r, HoldsCommit(m, s, r) PROVE HoldsCommit(m2, s, r)
    BY <2>1, <2>2 DEF HoldsCommit
  <2> QED
    BY <2>2 DEF Renewed
<1>5. KeptBy(m, pr) /\ HonestMap(m) /\ PagesOK(m)
  BY DEF Durable
<1>6. KeptBy(m2, pr) /\ HonestMap(m2)
  BY <1>2, <1>3, <1>4, <1>5, Carried
<1>7. PagesOK(m2)
  BY <1>2, <1>5 DEF PagesOK, SameSlot
<1> QED
  BY <1>2, <1>3, <1>6, <1>7 DEF Durable, SameObjects

(* What such a write, or the sync after it, has to show.                   *)
LEMMA PublishKeeps ==
  ASSUME NEW I, NEW m, NEW pr, NEW x, NEW o, NEW v, NEW c, m \in I,
         Keeps(I, m, pr, x, o, v, c), v \notin {"RECORDING", "SUSPENDED"}, v \notin Unmounted,
         NEW I2, NEW m2, NEW pr2, Durable(I2, pr2), SameObjects(m, m2),
         NEW x2, x2.mounted = x.mounted, \A n \in I2 : x2.deleted \cup o.retired \subseteq Deleted(n),
         x2.wrote \/ I2 = {m2}, x2.todo = << >> \/ x.todo # << >>, Receiving(I2, m2, x2)
  PROVE  Keeps(I2, m2, pr2, x2, o, v, c)
<1>1. /\ StoreSound(I, m, o) /\ Catalog(m, o, c) /\ Modes(x, o, v, c)
  BY DEF Keeps
<1>2. Backed(I2, x2, o) /\ Single(I2, m2, x2, v)
  BY DEF Backed, Single
<1>3. o.job \in {"NONE", "LOAD"}
  BY <1>1 DEF Modes
<1>4. \A s \in SlotNo : m2[Slot(s)] = m[Slot(s)]
  BY DEF SameObjects, SameSlot
<1>5. \A r \in RootNo : m2[Root(r)] = m[Root(r)]
  BY DEF SameObjects
<1>6. StoreShape(o) /\ (o.mounted => Slotted(m, o) /\ Rooted(m, o))
  BY <1>1 DEF StoreSound
<1>7. o.mounted => Slotted(m2, o)
  BY <1>4, <1>6 DEF Slotted
<1>8. o.mounted => Rooted(m2, o)
  <2> SUFFICES ASSUME o.mounted PROVE Rooted(m2, o)
    OBVIOUS
  <2>1. Rooted(m, o)
    BY <1>6
  <2> QED
    BY <1>5, <2>1 DEF Rooted
<1>9. SegmentJob(I2, m2, o) /\ RootJob(I2, m2, o)
  BY <1>3 DEF SegmentJob, RootJob
<1>10. StoreSound(I2, m2, o)
  BY <1>6, <1>7, <1>8, <1>9 DEF StoreSound
<1>11. Catalog(m2, o, c)
  BY <1>1, <1>4 DEF Catalog, HeldIn
<1>12. Modes(x2, o, v, c)
  BY <1>1 DEF Modes
<1> QED
  BY <1>2, <1>10, <1>11, <1>12 DEF Keeps

(* A page of receipts is written.                                          *)
LEMMA ReceiptPageWritten ==
  ASSUME NEW I, NEW m \in I, NEW pr, Durable(I, pr), WellKept(m), NEW x, Shape(x),
         x.mounted, x.deleted \subseteq Deleted(m), x.todo # << >>, ReceiptsOnTheirWay(m, x),
         \A p \in ReceiptPage : m[Receipts(p)] # Missing,
         NEW m2, m2 = Written(m, x.todo[1].sector, x.todo[1].page),
         NEW x2, x2 = [x EXCEPT !.wrote = TRUE]
  PROVE  /\ Durable(I \cup {m2}, pr) /\ SameObjects(m, m2) /\ Deleted(m2) = Deleted(m)
         /\ Receiving(I \cup {m2}, m2, x2)
<1> DEFINE y == x.todo[1]
<1>1. y \in Range(x.todo)
  <2>1. x.todo \in Seq(Range(x.todo))
    BY DEF Shape
  <2>2. 1 \in DOMAIN x.todo
    BY <2>1
  <2> QED
    BY <2>2 DEF Range
<1>2. m2 = Written(m, y.sector, y.page)
  OBVIOUS
<1> HIDE DEF y
<1>3. PICK p \in ReceiptPage : y.sector = Receipts(p) /\ Update(m, x, p, y.page)
  BY <1>1 DEF ReceiptsOnTheirWay
<1>4. /\ y.page # Missing /\ ReceiptPageOK(y.page)
      /\ \A s \in SlotNo : s \div SlotsPerPage = p =>
           \/ y.page.entries[s] = ReceiptAt(m, s)
           \/ MayReplace(m, x, s) /\ HoldsCommit(m, s, y.page.entries[s])
  BY <1>3 DEF Update
<1>5. \A w \in Sector : m2[w] = IF w = Receipts(p) THEN y.page ELSE m[w]
  BY <1>2, <1>3, InSector, ReadAfterWrite DEF WellKept
<1>6. /\ m2[Receipts(p)] = y.page
      /\ \A q \in ReceiptPage : q # p => m2[Receipts(q)] = m[Receipts(q)]
      /\ \A q \in TombPage : m2[Tombs(q)] = m[Tombs(q)]
  BY <1>5, InSector, Apart
<1>7. \A s \in SlotNo :
        ReceiptAt(m2, s) = IF s \div SlotsPerPage = p THEN y.page.entries[s] ELSE ReceiptAt(m, s)
  BY <1>4, <1>6, PageOfSlot DEF ReceiptAt
<1>8. Deleted(m2) = Deleted(m)
  BY <1>6, SameTombs
<1>9. \A s \in SlotNo :
        \/ ReceiptAt(m2, s) = ReceiptAt(m, s)
        \/ MayReplace(m, x, s) /\ HoldsCommit(m, s, ReceiptAt(m2, s))
  BY <1>4, <1>7
<1>10. \A q \in ReceiptPage : ReceiptPageOK(m2[Receipts(q)]) /\ m2[Receipts(q)] # Missing
  BY <1>4, <1>6 DEF Durable, PagesOK
<1>11. Durable(I \cup {m2}, pr) /\ SameObjects(m, m2)
  <2>1. \A s \in SlotNo :
          \/ ReceiptAt(m2, s) = ReceiptAt(m, s)
          \/ /\ ReceiptAt(m, s) = NoReceipt \/ ReceiptAt(m, s).id \in Deleted(m)
             /\ HoldsCommit(m, s, ReceiptAt(m2, s))
    BY <1>9 DEF MayReplace
  <2>2. Receipts(p) \in Sector /\ m2 = Written(m, Receipts(p), y.page) /\ IsMap(m)
    BY <1>2, <1>3, InSector DEF WellKept
  <2> QED
    BY <1>8, <1>10, <2>1, <2>2, Apart, MetaWrite
<1>12. /\ x2.mounted = x.mounted /\ x2.deleted = x.deleted /\ x2.todo = x.todo /\ x2.reply = x.reply
  BY DEF Shape
<1>13. \A s \in SlotNo : HoldsCommit(m, s, ReceiptAt(m2, s)) => HoldsCommit(m2, s, ReceiptAt(m2, s))
  BY <1>11 DEF SameObjects, SameSlot, HoldsCommit
<1>14. ASSUME NEW z \in Range(x.todo)
       PROVE  \E q \in ReceiptPage : z.sector = Receipts(q) /\ Update(m2, x2, q, z.page)
  <2>1. PICK q \in ReceiptPage : z.sector = Receipts(q) /\ Update(m, x, q, z.page)
    BY <1>14 DEF ReceiptsOnTheirWay
  <2>2. z.page # Missing /\ ReceiptPageOK(z.page)
    BY <2>1 DEF Update
  <2>3. ASSUME NEW s \in SlotNo, s \div SlotsPerPage = q
        PROVE  \/ z.page.entries[s] = ReceiptAt(m2, s)
               \/ MayReplace(m2, x2, s) /\ HoldsCommit(m2, s, z.page.entries[s])
    <3>1. CASE q = p
      <4>1. z.page = y.page
        BY <1>1, <1>3, <1>14, <2>1, <3>1 DEF ReceiptsOnTheirWay
      <4> QED
        BY <1>7, <2>3, <3>1, <4>1
    <3>2. CASE q # p
      <4>1. ReceiptAt(m2, s) = ReceiptAt(m, s)
        BY <1>7, <2>3, <3>2
      <4>2. \/ z.page.entries[s] = ReceiptAt(m, s)
            \/ MayReplace(m, x, s) /\ HoldsCommit(m, s, z.page.entries[s])
        BY <2>1, <2>3 DEF Update
      <4>3. m2[Slot(s)] = m[Slot(s)]
        BY <1>11 DEF SameObjects, SameSlot
      <4> QED
        BY <1>12, <4>1, <4>2, <4>3 DEF MayReplace, HoldsCommit
    <3> QED
      BY <3>1, <3>2
  <2>4. Update(m2, x2, q, z.page)
    BY <2>2, <2>3 DEF Update
  <2> QED
    BY <2>1, <2>4
<1>15. ASSUME NEW q \in x.reply PROVE Vouched(m2, x2, q)
  <2>1. q.id \notin x.deleted /\ Vouched(m, x, q)
    BY <1>15 DEF ReceiptsOnTheirWay
  <2> DEFINE r == [id |-> q.id, seq |-> q.seq]
  <2>2. r.id = q.id /\ r # NoReceipt
    BY DEF NoReceipt
  <2>3. PICK s \in SlotNo :
          \/ ReceiptAt(m, s) = r
          \/ \E z \in Range(x.todo) : z.sector = Receipts(s \div SlotsPerPage) /\ z.page.entries[s] = r
    BY <2>1 DEF Vouched
  <2>4. ReceiptAt(m, s) = r => ReceiptAt(m2, s) = r
    BY <1>9, <2>1, <2>2 DEF MayReplace
  <2> HIDE DEF r
  <2>5. \/ ReceiptAt(m2, s) = r
        \/ \E z \in Range(x2.todo) : z.sector = Receipts(s \div SlotsPerPage) /\ z.page.entries[s] = r
    BY <1>12, <2>3, <2>4
  <2> QED
    BY <2>5 DEF Vouched, r
<1>16. m2[x2.todo[1].sector] = x2.todo[1].page
  BY <1>3, <1>6, <1>12 DEF y
<1>17. ReceiptsOnTheirWay(m2, x2)
  <2>1. \A z \in Range(x2.todo) :
          \E q \in ReceiptPage : z.sector = Receipts(q) /\ Update(m2, x2, q, z.page)
    BY <1>12, <1>14
  <2>2. \A w, z \in Range(x2.todo) : w.sector = z.sector => w.page = z.page
    BY <1>12 DEF ReceiptsOnTheirWay
  <2>3. \A q \in x2.reply : /\ q = [kind |-> "receipt", id |-> q.id, seq |-> q.seq]
                            /\ q.id \notin x2.deleted /\ Vouched(m2, x2, q)
    BY <1>12, <1>15 DEF ReceiptsOnTheirWay
  <2> QED
    BY <1>16, <2>1, <2>2, <2>3 DEF ReceiptsOnTheirWay
<1>18. Receiving(I \cup {m2}, m2, x2)
  BY <1>10, <1>12, <1>17 DEF Receiving
<1> QED
  BY <1>8, <1>11, <1>18

(* The page that is written is the first of those to be published.         *)
LEMMA FirstPage ==
  ASSUME NEW x, Shape(x), x.todo # << >>
  PROVE  x.todo[1] \in Range(x.todo)
<1>1. x.todo \in Seq(Range(x.todo))
  BY DEF Shape
<1>2. 1 \in DOMAIN x.todo
  BY <1>1
<1> QED
  BY <1>2 DEF Range

(* A page of a new metadata is written.                                    *)
LEMMA CreationPageWritten ==
  ASSUME NEW I, NEW m \in I, NEW pr, Durable(I, pr), WellKept(m), NEW x, Shape(x),
         x.todo # << >>, CreationPending(I, x), \A n \in I : NoReceipts(n),
         NEW m2, m2 = Written(m, x.todo[1].sector, x.todo[1].page),
         NEW x2, x2 = [x EXCEPT !.wrote = TRUE]
  PROVE  /\ Durable(I \cup {m2}, pr) /\ SameObjects(m, m2) /\ Deleted(m) \subseteq Deleted(m2)
         /\ Receiving(I \cup {m2}, m2, x2)
<1> DEFINE y == x.todo[1]
<1>1. y \in Range(x.todo)
  BY FirstPage
<1>2. m2 = Written(m, y.sector, y.page)
  OBVIOUS
<1> HIDE DEF y
<1>3. IsEmptyPage(y) /\ Deleted(m) = {} /\ ~x.mounted
  BY <1>1 DEF CreationPending, Deleted
<1>4. /\ y.sector \in Sector
      /\ \A r \in RootNo : y.sector # Root(r)
      /\ \A s \in SlotNo : y.sector # Slot(s)
      /\ \A s \in SlotNo, i \in 1..DataPages : y.sector # Data(s, i)
      /\ \A p \in ReceiptPage : y.sector = Receipts(p) => y.page = EmptyReceipts
  BY <1>3, InSector, Apart DEF IsEmptyPage, IsReceipts
<1>5. \A p \in ReceiptPage : m2[Receipts(p)] = m[Receipts(p)] \/ m2[Receipts(p)] = EmptyReceipts
  BY <1>2, <1>4, InSector, ReadAfterWrite DEF WellKept
<1>6. \A s \in SlotNo : ReceiptAt(m, s) = NoReceipt
  BY DEF NoReceipts
<1>7. \A s \in SlotNo : ReceiptAt(m2, s) = NoReceipt
  <2>1. \A s \in SlotNo : EmptyReceipts.entries[s] = NoReceipt
    BY DEF EmptyReceipts
  <2> TAKE s \in SlotNo
  <2>2. s \div SlotsPerPage \in ReceiptPage
    BY PageOfSlot
  <2> QED
    BY <1>5, <1>6, <2>1, <2>2 DEF ReceiptAt
<1>8. ReceiptPageOK(EmptyReceipts)
  BY DEF ReceiptPageOK, EmptyReceipts
<1>9. \A p \in ReceiptPage : ReceiptPageOK(m2[Receipts(p)])
  BY <1>5, <1>8 DEF Durable, PagesOK
<1>10. Durable(I \cup {m2}, pr) /\ SameObjects(m, m2)
  BY <1>2, <1>3, <1>4, <1>6, <1>7, <1>9, MetaWrite DEF WellKept
<1>11. x2.mounted = x.mounted
  BY DEF Shape
<1>12. \A n \in I \cup {m2} : NoReceipts(n)
  BY <1>7 DEF NoReceipts
<1>13. ~ReceiptsPending(x2)
  BY <1>3, <1>11 DEF ReceiptsPending
<1> QED
  BY <1>3, <1>10, <1>11, <1>12, <1>13 DEF Receiving

(* The tombstone of a deletion is written.                                 *)
LEMMA TombPageWritten ==
  ASSUME NEW I, NEW m \in I, NEW pr, Durable(I, pr), WellKept(m), NEW x, Shape(x),
         Cached(m, x), DeletePending(m, x), ~x.wrote,
         \A p \in ReceiptPage : m[Receipts(p)] # Missing,
         NEW m2, m2 = Written(m, x.todo[1].sector, x.todo[1].page),
         NEW x2, x2 = [x EXCEPT !.wrote = TRUE]
  PROVE  /\ Durable(I \cup {m2}, pr) /\ SameObjects(m, m2) /\ Deleted(m) \subseteq Deleted(m2)
         /\ Receiving(I \cup {m2}, m2, x2)
<1>1. PICK t \in TombTypes : x.reply = {DeleteReply(t)} /\ TombPending(m, x, t)
  BY DEF DeletePending
<1>2. PICK p \in TombPage :
        /\ x.todo = <<[sector |-> Tombs(p), page |-> Extended(m, p, t)]>>
        /\ NewTomb(t, Tombstones(m))
  BY <1>1 DEF TombPending
<1>3. x.mounted /\ m[Tombs(p)] # Missing
  BY DEF DeletePending, Cached
<1>4. m2 = Written(m, Tombs(p), Extended(m, p, t))
  BY <1>2
<1>5. Tombstones(m2) = Tombstones(m) \cup {t}
  BY <1>2, <1>3, <1>4, OneMoreTomb
<1>6. Deleted(m) \subseteq Deleted(m2)
  BY <1>5 DEF Deleted
<1>7. \A q \in ReceiptPage : m2[Receipts(q)] = m[Receipts(q)]
  BY <1>4, InSector, Apart, ReadAfterWrite DEF WellKept
<1>8. \A s \in SlotNo : ReceiptAt(m2, s) = ReceiptAt(m, s)
  BY <1>7, PageOfSlot DEF ReceiptAt
<1>9. \A q \in ReceiptPage : ReceiptPageOK(m2[Receipts(q)])
  BY <1>7 DEF Durable, PagesOK
<1>10. Tombs(p) \in Sector /\ IsMap(m)
  BY InSector DEF WellKept
<1>11. Durable(I \cup {m2}, pr) /\ SameObjects(m, m2)
  BY <1>4, <1>6, <1>8, <1>9, <1>10, Apart, MetaWrite
<1>12. x2.mounted = x.mounted /\ x2.reply = x.reply
  BY DEF Shape
<1>13. ~ReceiptsPending(x2)
  <2>1. IsDelete(DeleteReply(t))
    BY DEF IsDelete, DeleteReply
  <2> QED
    BY <1>1, <1>12, <2>1 DEF ReceiptsPending
<1> QED
  BY <1>3, <1>6, <1>7, <1>11, <1>12, <1>13 DEF Receiving

(* The first of the pages is written.                                      *)
LEMMA WriteKeeps ==
  ASSUME NEW I, NEW m, NEW pr, NEW x, NEW o, NEW v, NEW c,
         Sound(I, m, pr, x, v), Keeps(I, m, pr, x, o, v, c), x.todo # << >>, ~x.wrote,
         NEW m2, m2 = Written(m, x.todo[1].sector, x.todo[1].page),
         NEW x2, x2 = [x EXCEPT !.wrote = TRUE]
  PROVE  Keeps(I \cup {m2}, m2, pr, x2, o, v, c)
<1>1. Shape(x) /\ WellKept(m) /\ m \in I /\ Cached(m, x) /\ AtRest(pr, x, v) /\ Pending(I, m, x)
  BY DEF Sound
<1>2. Durable(I, pr) /\ Backed(I, x, o) /\ Receiving(I, m, x) /\ Modes(x, o, v, c)
  BY DEF Keeps
<1>3. v \notin Unmounted /\ v \notin {"RECORDING", "SUSPENDED"}
  BY <1>1, <1>2 DEF AtRest, NoMetadata, Modes
<1>4. /\ x2.mounted = x.mounted /\ x2.deleted = x.deleted /\ x2.wrote = TRUE /\ x2.todo = x.todo
  BY <1>1 DEF Shape
<1>5. \A n \in I : x.deleted \cup o.retired \subseteq Deleted(n)
  BY <1>2 DEF Backed
<1>6. /\ Durable(I \cup {m2}, pr) /\ SameObjects(m, m2) /\ Deleted(m) \subseteq Deleted(m2)
      /\ Receiving(I \cup {m2}, m2, x2)
  <2>1. CASE ReceiptsPending(x)
    <3>1. /\ x.mounted /\ ReceiptsOnTheirWay(m, x)
          /\ \A p \in ReceiptPage : m[Receipts(p)] # Missing
      BY <1>2, <2>1 DEF Receiving, ReceiptsPending
    <3>2. x.deleted \subseteq Deleted(m)
      BY <1>1, <1>5
    <3>3. /\ Durable(I \cup {m2}, pr) /\ SameObjects(m, m2) /\ Deleted(m2) = Deleted(m)
          /\ Receiving(I \cup {m2}, m2, x2)
      BY <1>1, <1>2, <3>1, <3>2, ReceiptPageWritten
    <3> QED
      BY <3>3
  <2>2. CASE CreationPending(I, x)
    <3>1. \A n \in I : NoReceipts(n)
      BY <1>2, <2>2 DEF CreationPending, Receiving
    <3> QED
      BY <1>1, <1>2, <2>2, <3>1, CreationPageWritten
  <2>3. CASE DeletePending(m, x)
    <3>1. \A p \in ReceiptPage : m[Receipts(p)] # Missing
      BY <1>2, <2>3 DEF DeletePending, Receiving
    <3>2. ~x.wrote
      OBVIOUS
    <3> QED
      BY ONLY <1>1, <1>2, <2>3, <3>1, <3>2, TombPageWritten,
         m2 = Written(m, x.todo[1].sector, x.todo[1].page), x2 = [x EXCEPT !.wrote = TRUE]
  <2> QED
    BY <1>1, <2>1, <2>2, <2>3 DEF Pending
<1>7. \A n \in I \cup {m2} : x2.deleted \cup o.retired \subseteq Deleted(n)
  BY <1>1, <1>4, <1>5, <1>6
<1> DEFINE I2 == I \cup {m2}
<1>8. Durable(I2, pr) /\ Receiving(I2, m2, x2) /\ \A n \in I2 : x2.deleted \cup o.retired \subseteq Deleted(n)
  BY <1>6, <1>7
<1>9. x2.wrote \/ I2 = {m2}
  BY <1>4
<1>10. x2.todo = << >> \/ x.todo # << >>
  OBVIOUS
<1> HIDE DEF I2
<1>11. Keeps(I2, m2, pr, x2, o, v, c)
  BY ONLY <1>1, <1>3, <1>4, <1>6, <1>8, <1>9, <1>10, PublishKeeps, Keeps(I, m, pr, x, o, v, c)
<1> QED
  BY <1>11 DEF I2

(* A synced page leaves the list of those to be published.                 *)
LEMMA OnePageLess ==
  ASSUME NEW x, Shape(x), Len(x.todo) > 1
  PROVE  /\ Tail(x.todo) # << >>
         /\ \A y : y \in Range(x.todo) <=> y = x.todo[1] \/ y \in Range(Tail(x.todo))
<1> DEFINE S == Range(x.todo)
           a == x.todo
           l == Tail(x.todo)
<1>1. a \in Seq(S) /\ Len(a) > 1
  BY DEF Shape
<1> HIDE DEF S
<1>2. ASSUME NEW s \in Seq(S), Len(s) > 1
      PROVE  /\ Len(s) \in Nat /\ DOMAIN s = 1..Len(s)
             /\ DOMAIN Tail(s) = 1..(Len(s) - 1) /\ Tail(s) # << >>
             /\ \A i \in 1..(Len(s) - 1) : Tail(s)[i] = s[i + 1]
  BY ONLY <1>2
<1>3. /\ Len(a) \in Nat /\ DOMAIN a = 1..Len(a) /\ DOMAIN l = 1..(Len(a) - 1) /\ l # << >>
      /\ \A i \in 1..(Len(a) - 1) : l[i] = a[i + 1]
  BY <1>1, <1>2
<1> HIDE DEF a, l
<1>4. \A y : y \in Range(a) <=> \E i \in 1..Len(a) : y = a[i]
  BY <1>3 DEF Range
<1>5. \A y : y \in Range(l) <=> \E i \in 1..(Len(a) - 1) : y = a[i + 1]
  BY <1>3 DEF Range
<1>6. ASSUME NEW y, y \in Range(a) PROVE y = a[1] \/ y \in Range(l)
  <2>1. PICK i \in 1..Len(a) : y = a[i]
    BY <1>4, <1>6
  <2>2. CASE i = 1
    BY <2>1, <2>2
  <2>3. CASE i # 1
    <3>1. i - 1 \in 1..(Len(a) - 1) /\ (i - 1) + 1 = i
      BY <1>3, <2>3
    <3> QED
      BY <1>5, <2>1, <3>1
  <2> QED
    BY <2>2, <2>3
<1>7. ASSUME NEW y, y \in Range(l) PROVE y \in Range(a)
  <2>1. PICK i \in 1..(Len(a) - 1) : y = a[i + 1]
    BY <1>5, <1>7
  <2>2. i + 1 \in 1..Len(a)
    BY <1>3
  <2> QED
    BY <1>4, <2>1, <2>2
<1>8. a[1] \in Range(a)
  <2>1. 1 \in 1..Len(a)
    BY <1>1, <1>3
  <2> QED
    BY <1>4, <2>1
<1>9. \A y : y \in Range(a) <=> y = a[1] \/ y \in Range(l)
  BY <1>6, <1>7, <1>8
<1> QED
  BY <1>3, <1>9 DEF a, l

(* A receipt whose page is on the map is on the map.                       *)
LEMMA VouchedFirst ==
  ASSUME NEW m, NEW x, ReceiptsOnTheirWay(m, x), x.wrote, NEW q, Vouched(m, x, q),
         NEW x2, \A y \in Range(x.todo) : y = x.todo[1] \/ y \in Range(x2.todo),
         x.todo[1] \in Range(x.todo)
  PROVE  Vouched(m, x2, q)
<1> DEFINE r == [id |-> q.id, seq |-> q.seq]
<1>1. PICK s \in SlotNo :
        \/ ReceiptAt(m, s) = r
        \/ \E y \in Range(x.todo) : y.sector = Receipts(s \div SlotsPerPage) /\ y.page.entries[s] = r
  BY DEF Vouched
<1> HIDE DEF r
<1>2. ASSUME NEW y \in Range(x.todo), y.sector = Receipts(s \div SlotsPerPage),
             y.page.entries[s] = r, y = x.todo[1]
      PROVE  ReceiptAt(m, s) = r
  <2>1. m[y.sector] = y.page
    BY <1>2 DEF ReceiptsOnTheirWay
  <2>2. y.page # Missing
    BY <1>2 DEF ReceiptsOnTheirWay, Update
  <2> QED
    BY <1>2, <2>1, <2>2 DEF ReceiptAt
<1>3. \/ ReceiptAt(m, s) = r
      \/ \E y \in Range(x2.todo) : y.sector = Receipts(s \div SlotsPerPage) /\ y.page.entries[s] = r
  BY <1>1, <1>2
<1> QED
  BY <1>3 DEF Vouched, r

(* The rest of the receipts after one page is synced.                      *)
LEMMA ReceiptPageSynced ==
  ASSUME NEW m, NEW x, Shape(x), ReceiptsOnTheirWay(m, x), x.wrote, Len(x.todo) > 1,
         NEW x2, x2.todo = Tail(x.todo), ~x2.wrote, x2.reply = x.reply, x2.deleted = x.deleted
  PROVE  ReceiptsOnTheirWay(m, x2)
<1>1. /\ x.todo[1] \in Range(x.todo)
      /\ \A y \in Range(x.todo) : y = x.todo[1] \/ y \in Range(x2.todo)
      /\ \A y \in Range(x2.todo) : y \in Range(x.todo)
  BY OnePageLess
<1>2. \A y \in Range(x2.todo) :
        \E p \in ReceiptPage : y.sector = Receipts(p) /\ Update(m, x2, p, y.page)
  BY <1>1 DEF ReceiptsOnTheirWay, Update, MayReplace
<1>3. \A y, z \in Range(x2.todo) : y.sector = z.sector => y.page = z.page
  BY <1>1 DEF ReceiptsOnTheirWay
<1>4. ASSUME NEW q \in x2.reply
      PROVE  /\ q = [kind |-> "receipt", id |-> q.id, seq |-> q.seq]
             /\ q.id \notin x2.deleted /\ Vouched(m, x2, q)
  <2>1. /\ q = [kind |-> "receipt", id |-> q.id, seq |-> q.seq]
        /\ q.id \notin x2.deleted /\ Vouched(m, x, q)
    BY <1>4 DEF ReceiptsOnTheirWay
  <2>2. Vouched(m, x2, q)
    BY <1>1, <2>1, VouchedFirst
  <2> QED
    BY <2>1, <2>2
<1> QED
  BY <1>2, <1>3, <1>4 DEF ReceiptsOnTheirWay

(* A page is synced, and there are more.                                   *)
LEMMA SyncKeeps ==
  ASSUME NEW I, NEW m, NEW pr, NEW x, NEW o, NEW v, NEW c,
         Sound(I, m, pr, x, v), Keeps(I, m, pr, x, o, v, c), x.wrote, Len(x.todo) > 1,
         NEW x2, x2 = [x EXCEPT !.todo = Tail(@), !.wrote = FALSE]
  PROVE  Keeps({m}, m, pr, x2, o, v, c)
<1>1. Shape(x) /\ m \in I /\ AtRest(pr, x, v) /\ Pending(I, m, x)
  BY DEF Sound
<1>2. Durable(I, pr) /\ Backed(I, x, o) /\ Receiving(I, m, x) /\ Modes(x, o, v, c)
  BY DEF Keeps
<1>3. x.todo # << >>
  BY <1>1 DEF Shape
<1>4. v \notin Unmounted /\ v \notin {"RECORDING", "SUSPENDED"}
  BY <1>1, <1>2, <1>3 DEF AtRest, NoMetadata, Modes
<1>5. /\ x2.mounted = x.mounted /\ x2.deleted = x.deleted /\ ~x2.wrote
      /\ x2.todo = Tail(x.todo) /\ x2.reply = x.reply
  BY <1>1 DEF Shape
<1>6. \A y \in Range(x2.todo) : y \in Range(x.todo)
  BY <1>1, <1>5, OnePageLess
<1>7. x2.mounted => x.mounted /\ \A p \in ReceiptPage : m[Receipts(p)] # Missing
  BY <1>2, <1>5 DEF Receiving
<1>8. ReceiptsPending(x) \/ CreationPending(I, x)
  <2>1. ~DeletePending(m, x)
    <3>1. SUFFICES ASSUME NEW t, TombWritten(m, x, t) PROVE FALSE
      BY DEF DeletePending
    <3>2. Len(x.todo) = 1
      BY <3>1 DEF TombWritten
    <3> QED
      BY <3>2
  <2> QED
    BY <1>1, <1>3, <2>1 DEF Pending
<1>9. Receiving({m}, m, x2)
  <2>1. CASE ReceiptsPending(x)
    <3>1. x.mounted /\ ReceiptsOnTheirWay(m, x)
      BY <1>2, <1>3, <2>1 DEF ReceiptsPending, Receiving
    <3>2. ReceiptsOnTheirWay(m, x2)
      BY ONLY <1>1, <1>5, <3>1, ReceiptPageSynced, x.wrote, Len(x.todo) > 1
    <3> QED
      BY <1>5, <1>7, <3>1, <3>2 DEF Receiving
  <2>2. CASE CreationPending(I, x)
    <3>1. ~x2.mounted /\ NoReceipts(m)
      BY <1>1, <1>2, <1>3, <1>5, <2>2 DEF CreationPending, Receiving
    <3> QED
      BY <3>1 DEF Receiving, ReceiptsPending
  <2> QED
    BY <1>8, <2>1, <2>2
<1>10. Durable({m}, pr) /\ SameObjects(m, m)
  BY <1>1, <1>2 DEF Durable, SameObjects, SameSlot
<1>11. \A n \in {m} : x2.deleted \cup o.retired \subseteq Deleted(n)
  BY <1>1, <1>2, <1>5 DEF Backed
<1> DEFINE I2 == {m}
<1>12. /\ Durable(I2, pr) /\ Receiving(I2, m, x2) /\ I2 = {m}
       /\ \A n \in I2 : x2.deleted \cup o.retired \subseteq Deleted(n)
  BY <1>9, <1>10, <1>11
<1> HIDE DEF I2
<1>13. Keeps(I2, m, pr, x2, o, v, c)
  BY ONLY <1>1, <1>3, <1>4, <1>5, <1>10, <1>12, PublishKeeps, Keeps(I, m, pr, x, o, v, c)
<1> QED
  BY <1>13 DEF I2

(* The last page is synced: what the caller is told is on the map.         *)
LEMMA LastSyncKeeps ==
  ASSUME NEW I, NEW m, NEW pr, NEW x, NEW o, NEW v, NEW c,
         Sound(I, m, pr, x, v), Keeps(I, m, pr, x, o, v, c), x.wrote, ~(Len(x.todo) > 1),
         NEW x2, x2.todo = << >>, x2.mounted = x.mounted,
         x2.deleted = x.deleted \cup {q.man.id : q \in {q \in x.reply : q.kind = "delete"}}
  PROVE  Keeps({m}, m, pr \cup x.reply, x2, o, v, c)
<1>1. Shape(x) /\ m \in I /\ AtRest(pr, x, v) /\ Pending(I, m, x)
  BY DEF Sound
<1>2. Durable(I, pr) /\ Backed(I, x, o) /\ Receiving(I, m, x) /\ Modes(x, o, v, c)
  BY DEF Keeps
<1>3. x.todo # << >>
  BY <1>1 DEF Shape
<1>4. v \notin Unmounted /\ v \notin {"RECORDING", "SUSPENDED"}
  BY <1>1, <1>2, <1>3 DEF AtRest, NoMetadata, Modes
<1>5. Receiving({m}, m, x2)
  BY <1>2 DEF Receiving
<1>6. Durable({m}, pr) /\ SameObjects(m, m) /\ x.deleted \cup o.retired \subseteq Deleted(m)
  BY <1>1, <1>2 DEF Durable, SameObjects, SameSlot, Backed
<1>7. /\ \A q \in x.reply : IsDelete(q) \/ (q.kind = "receipt" /\ Kept(m, q))
      /\ x2.deleted \subseteq Deleted(m)
  <2>1. CASE ReceiptsPending(x)
    <3>1. ReceiptsOnTheirWay(m, x)
      BY <1>2, <1>3, <2>1 DEF Receiving
    <3>2. x.todo[1] \in Range(x.todo) /\ \A y \in Range(x.todo) : y = x.todo[1]
      <4>1. x.todo \in Seq(Range(x.todo)) /\ Len(x.todo) \in Nat /\ Len(x.todo) <= 1
        BY <1>1 DEF Shape
      <4>2. DOMAIN x.todo \subseteq {1}
        BY <4>1
      <4>3. x.todo[1] \in Range(x.todo)
        BY <1>1, <1>3, FirstPage
      <4> QED
        BY <4>2, <4>3 DEF Range
    <3>3. ASSUME NEW q \in x.reply PROVE q.kind = "receipt" /\ Kept(m, q)
      <4>1. q = [kind |-> "receipt", id |-> q.id, seq |-> q.seq] /\ Vouched(m, x, q)
        BY <3>1, <3>3 DEF ReceiptsOnTheirWay
      <4>2. \A y \in Range(x.todo) : y = x.todo[1] \/ y \in Range(x2.todo)
        BY <3>2
      <4>3. Vouched(m, x2, q)
        BY ONLY <3>1, <3>2, <4>1, <4>2, VouchedFirst, x.wrote
      <4>4. Range(x2.todo) = {}
        BY DEF Range
      <4>5. \E s \in SlotNo : ReceiptAt(m, s) = [id |-> q.id, seq |-> q.seq]
        BY <4>3, <4>4 DEF Vouched
      <4>6. q.kind = "receipt"
        BY <4>1
      <4> QED
        BY <4>5, <4>6 DEF Kept
    <3>4. x2.deleted = x.deleted
      BY <2>1 DEF ReceiptsPending, IsDelete
    <3> QED
      BY <1>6, <3>3, <3>4
  <2>2. CASE CreationPending(I, x)
    <3>1. x.reply = {}
      BY <2>2 DEF CreationPending
    <3>2. x2.deleted = x.deleted
      BY <3>1
    <3> QED
      BY <1>6, <3>1, <3>2
  <2>3. CASE DeletePending(m, x)
    <3>1. PICK t \in TombTypes : x.reply = {DeleteReply(t)} /\ TombWritten(m, x, t)
      BY <2>3 DEF DeletePending
    <3> DEFINE q == DeleteReply(t)
    <3>2. q.kind = "delete" /\ q.man = t.man /\ IsDelete(q)
      BY DEF DeleteReply, IsDelete
    <3> HIDE DEF q
    <3>3. x.reply = {q}
      BY <3>1 DEF q
    <3>4. x2.deleted = x.deleted \cup {t.man.id}
      BY <3>2, <3>3
    <3>5. t.man.id \in Deleted(m)
      BY <3>1 DEF TombWritten, Deleted
    <3>6. x2.deleted \subseteq Deleted(m)
      BY <1>6, <3>4, <3>5
    <3>7. \A w \in x.reply : IsDelete(w)
      BY ONLY <3>2, <3>3
    <3> QED
      BY <3>6, <3>7
  <2> QED
    BY <1>1, <1>3, <2>1, <2>2, <2>3 DEF Pending
<1> DEFINE I2 == {m}
           Q == x.reply
           pr2 == pr \cup Q
<1>8. I2 = {m}
  OBVIOUS
<1>9. \A q \in Q : IsDelete(q) \/ /\ q.kind \in {"segment", "final", "receipt"}
                                  /\ \A n \in I2 : Kept(n, q)
  BY <1>7
<1>10. Durable(I2, pr) /\ Receiving(I2, m, x2) /\ SameObjects(m, m)
  BY <1>5, <1>6
<1>11. \A n \in I2 : x2.deleted \cup o.retired \subseteq Deleted(n)
  BY <1>6, <1>7
<1> HIDE DEF I2, Q
<1>12. Durable(I2, pr2)
  BY ONLY <1>9, <1>10, Promise
<1> HIDE DEF pr2
<1>13. x2.mounted = x.mounted /\ x2.todo = << >>
  OBVIOUS
<1>14. Keeps(I2, m, pr2, x2, o, v, c)
  BY ONLY <1>1, <1>4, <1>8, <1>10, <1>11, <1>12, <1>13, PublishKeeps, Keeps(I, m, pr, x, o, v, c)
<1> QED
  BY <1>14 DEF I2, Q, pr2

(* A page of the metadata is written, or synced.                           *)
LEMMA PublishedKeeps ==
  ASSUME VolumeInv, Publish
  PROVE  Keeps(Images', Image', promised', rsm', ros', vol', cat')
<1>1. /\ DeleteInv /\ Sound(Images, Image, promised, rsm, vol)
      /\ Keeps(Images, Image, promised, rsm, ros, vol, cat)
  BY DEF VolumeInv, DeleteInv
<1>2. UNCHANGED <<ros, vol, cat>>
  BY DEF Publish
<1>3. CASE WritePage
  <2>1. /\ rsm.todo # << >> /\ ~rsm.wrote /\ promised' = promised
        /\ rns_write(rsm.todo[1].sector, rsm.todo[1].page)
        /\ rsm' = [rsm EXCEPT !.wrote = TRUE]
    BY <1>3 DEF WritePage, Idle
  <2> DEFINE m2 == Image'
             x2 == rsm'
  <2>2. Images' = Images \cup {m2} /\ m2 = Written(Image, rsm.todo[1].sector, rsm.todo[1].page)
    BY <1>1, <2>1, ImagesAfter
  <2>3. x2 = [rsm EXCEPT !.wrote = TRUE]
    BY <2>1
  <2> HIDE DEF m2, x2
  <2>4. Keeps(Images \cup {m2}, m2, promised, x2, ros, vol, cat)
    BY ONLY <1>1, <2>1, <2>2, <2>3, WriteKeeps
  <2> QED
    BY <1>2, <2>1, <2>2, <2>4 DEF m2, x2
<1>4. CASE SyncPage
  <2>1. rsm.wrote /\ rns_sync
    BY <1>4 DEF SyncPage
  <2>2. Images' = {Image} /\ Image' = Image
    BY <1>1, <2>1, ImagesAfter
  <2> DEFINE x2 == rsm'
  <2>3. CASE Len(rsm.todo) > 1
    <3>1. x2 = [rsm EXCEPT !.todo = Tail(@), !.wrote = FALSE] /\ promised' = promised
      BY <1>4, <2>3 DEF SyncPage
    <3> HIDE DEF x2
    <3>2. Keeps({Image}, Image, promised, x2, ros, vol, cat)
      BY ONLY <1>1, <2>1, <2>3, <3>1, SyncKeeps
    <3> QED
      BY <1>2, <2>2, <3>1, <3>2 DEF x2
  <2>4. CASE ~(Len(rsm.todo) > 1)
    <3>1. rsm' = Replied(rsm.reply) /\ promised' = promised \cup rsm.reply
      BY <1>4, <2>4 DEF SyncPage
    <3>2. /\ x2.todo = << >> /\ x2.mounted = rsm.mounted
          /\ x2.deleted = rsm.deleted \cup
               {q.man.id : q \in {q \in rsm.reply : q.kind = "delete"}}
      <4>1. Shape(rsm)
        BY <1>1 DEF Sound
      <4> QED
        BY <3>1, <4>1 DEF Replied, Shape
    <3> HIDE DEF x2
    <3>3. Keeps({Image}, Image, promised \cup rsm.reply, x2, ros, vol, cat)
      BY ONLY <1>1, <2>1, <2>4, <3>2, LastSyncKeeps
    <3> QED
      BY <1>2, <2>2, <3>1, <3>3 DEF x2
  <2> QED
    BY <2>3, <2>4
<1> QED
  BY <1>3, <1>4 DEF Publish

-----------------------------------------------------------------------------
(* The volume keeps its promises.                                          *)

(* The strengthened invariant of the whole volume: its images, its store,  *)
(* its metadata and its catalog.                                           *)
THEOREM VolumeInvariant == Spec => []VolumeInv
<1> DEFINE K == Keeps(Images, Image, promised, rsm, ros, vol, cat)
<1>1. Init => K
  <2> SUFFICES ASSUME Init PROVE K
    OBVIOUS
  <2>1. /\ versions = <<Formatted>> /\ promised = {} /\ rsm = NoMetadata /\ vol = "LEGACY"
        /\ ros = NoStore /\ cat = NoCatalog
    BY DEF Init, Configured, Legacy, FullStorage
  <2>2. Images = {Formatted} /\ Image = Formatted
    BY <2>1, Synced DEF Images, Image
  <2>3. NoCatalog.items = {}
    BY DEF NoCatalog
  <2>4. Keeps({Formatted}, Formatted, {}, NoMetadata, NoStore, "LEGACY", NoCatalog)
    BY <2>3, FormattedKeeps, RestKeeps
  <2> QED
    BY <2>1, <2>2, <2>4
<1>2. DeleteInv /\ K /\ [Next]_vars => K'
  <2> SUFFICES ASSUME DeleteInv, K, [Next]_vars
               PROVE  Keeps(Images', Image', promised', rsm', ros', vol', cat')
    OBVIOUS
  <2>0. VolumeInv
    BY DEF VolumeInv
  <2>1. CASE UNCHANGED vars
    BY <2>1 DEF vars, Images, Image
  <2>2. CASE Provisioning
    BY <2>0, <2>2, RestStep, FormatKeeps, MetadataKeeps, SessionStep DEF Provisioning
  <2>3. CASE Session
    BY <2>0, <2>3, SessionStep DEF Session
  <2>4. CASE Recording
    BY <2>0, <2>4, RecordingStep
  <2>5. CASE EndRecording
    BY <2>0, <2>5, SessionStep
  <2>6. CASE Publish
    BY <2>0, <2>6, PublishedKeeps
  <2>7. CASE Fence \/ Reset
    BY <2>0, <2>7, ForgetKeeps
  <2>8. CASE Syncing
    <3>1. CASE EndSync
      BY <2>0, <3>1, SessionStep
    <3>2. CASE \/ rcat_open
               \/ \E item \in cat.items, q \in SlotNo : ReadManifest(item, q) \/ ReadSegment(item, q)
      BY <2>0, <3>2, ReadStep
    <3>3. CASE \E item \in cat.items, a, b \in SlotNo : Receive(item, a, b)
      BY <2>0, <3>3, ReceiveKeeps
    <3>4. CASE \E op \in Ops, man \in Manifests : Replay(op, man) \/ Delete(op, man)
      BY <2>0, <3>4, DeleteKeeps
    <3> QED
      BY <2>8, <3>1, <3>2, <3>3, <3>4 DEF Syncing
  <2> QED
    BY <2>1, <2>2, <2>3, <2>4, <2>5, <2>6, <2>7, <2>8 DEF Next
<1>3. VolumeInv <=> DeleteInv /\ K
  BY DEF VolumeInv
<1> HIDE DEF K
<1> QED
  BY <1>1, <1>2, <1>3, DeleteInvariant, PTL DEF Spec

(* Whatever a caller was told is durable, a segment, the end of a          *)
(* recording or a receipt, is on every image a cut may leave, unless its   *)
(* recording has a tombstone there (ros_take_segment_receipt,              *)
(* ros_take_final_receipt, rsm_receive_slots).                             *)
THEOREM PromisesKeptHolds == Spec => []PromisesKept
<1>1. VolumeInv => PromisesKept
  <2> SUFFICES ASSUME VolumeInv, NEW m \in Images, NEW p \in promised, p.kind # "delete"
               PROVE  p.id \in Deleted(m) \/ Kept(m, p)
    BY DEF PromisesKept
  <2>1. KeptBy(m, promised)
    BY DEF VolumeInv, Keeps, Durable
  <2> QED
    BY <2>1 DEF KeptBy, IsDelete
<1> QED
  BY <1>1, VolumeInvariant, PTL

(* A receipt of a recording that is not deleted lies beside the segment it *)
(* is for, on every image a cut may leave (rsm_receive_slots, and the      *)
(* reuse of a slot by ros_prepare).                                        *)
THEOREM ReceiptsHonestHolds == Spec => []ReceiptsHonest
<1>1. VolumeInv => ReceiptsHonest
  <2> SUFFICES ASSUME VolumeInv, NEW m \in Images PROVE HonestMap(m)
    BY DEF ReceiptsHonest, HonestMap, HoldsCommit
  <2> QED
    BY DEF VolumeInv, Keeps, Durable
<1> QED
  BY <1>1, VolumeInvariant, PTL
================================================================================
