----------------------- MODULE ParticipantImportProofs -----------------------
(***************************************************************************)
(* The filter engine does what its reference says, for every list of       *)
(* records and all rules; an import earns, misses and counts as            *)
(* ParticipantImport promises, for every post, page size and ceiling.      *)
(*                                                                         *)
(* The loops of the filter engine are folds.  What a fold computes is      *)
(* proved by induction on the number of records read: the set of the       *)
(* numbers for which the claim holds contains 0 and, with n, n + 1.        *)
(***************************************************************************)
EXTENDS ParticipantImport, SequenceTheorems, FiniteSetTheorems, WellFoundedInduction,
        TLAPS

(* A set of numbers has a least one: the order of Nat is well-founded.       *)
LEMMA LeastNumber ==
  ASSUME NEW T, T \subseteq Nat, T # {}
  PROVE  \E n \in T : \A m \in T : n <= m
<1> DEFINE R == OpToRel(<, Nat)
<1>1. IsWellFoundedOn(R, Nat)
  BY NatLessThanWellFounded
<1>2. \A x, y \in Nat : <<y, x>> \in R <=> y < x
  BY DEF OpToRel
<1> HIDE DEF R
<1>3. PICK x \in T : \A y \in T : ~ (<<y, x>> \in R)
  BY <1>1, WFMin
<1>4. \A y \in T : ~ (y < x)
  BY <1>2, <1>3
<1> QED BY <1>3, <1>4

(* Induction, for what a set of numbers can say.                             *)
LEMMA Induction ==
  ASSUME NEW T, 0 \in T, \A n \in Nat : n \in T => n + 1 \in T
  PROVE  Nat \subseteq T
<1>1. SUFFICES ASSUME Nat \ T # {} PROVE FALSE
  OBVIOUS
<1>2. PICK n \in Nat \ T : \A m \in Nat \ T : n <= m
  BY <1>1, LeastNumber
<1>3. n # 0 /\ n - 1 \in Nat
  BY <1>2
<1>4. n - 1 \in T
  BY <1>2, <1>3
<1> QED BY <1>3, <1>4, <1>2

(* Deduplicated folds Collected over the records.  FoldLeft is a function on the*)
(* subsets of the places of the list; g is that function for the places S.   *)
IsIter(g, ps, S) ==
  g = [s \in SUBSET S |->
         IF s = {} THEN <<>> ELSE Collected(g[s \ {Max(s)}], ps[Max(s)])]

(* The greatest of the numbers up to k + 1, if k + 1 is one of them.         *)
LEMMA MaxOf ==
  ASSUME NEW k \in Nat, NEW s, k + 1 \in s, s \subseteq 1..(k + 1)
  PROVE  Max(s) = k + 1
<1>1. \E x \in s : \A y \in s : x >= y
  <2>1. \A y \in s : k + 1 >= y
    OBVIOUS
  <2> QED BY <2>1
<1>2. Max(s) \in s /\ \A y \in s : Max(s) >= y
  BY <1>1 DEF Max
<1>3. Max(s) >= k + 1 /\ Max(s) \in 1..(k + 1)
  BY <1>2
<1> QED BY <1>3

(* The function exists for every list: without that, nothing could be said of*)
(* what FoldLeft chooses.                                                    *)
LEMMA IterExists ==
  ASSUME NEW ps, NEW n \in Nat
  PROVE  \E g : IsIter(g, ps, 1..n)
<1> DEFINE T == {k \in Nat : \E g : IsIter(g, ps, 1..k)}
<1>1. 0 \in T
  <2>1. 1..0 = {}
    OBVIOUS
  <2>2. IsIter([s \in SUBSET {} |-> <<>>], ps, {})
    BY DEF IsIter
  <2> QED BY <2>1, <2>2
<1>2. ASSUME NEW k \in Nat, k \in T
      PROVE  k + 1 \in T
  <2>1. PICK g : IsIter(g, ps, 1..k)
    BY <1>2
  <2> DEFINE h == [s \in SUBSET (1..(k + 1)) |->
                     IF k + 1 \in s THEN Collected(g[s \ {k + 1}], ps[k + 1]) ELSE g[s]]
  <2> SUFFICES IsIter(h, ps, 1..(k + 1))
    OBVIOUS
  <2>2. ASSUME NEW s \in SUBSET (1..(k + 1))
        PROVE  h[s] = IF s = {} THEN <<>> ELSE Collected(h[s \ {Max(s)}], ps[Max(s)])
    <3>1. CASE k + 1 \in s
      <4>1. Max(s) = k + 1
        BY <3>1, MaxOf
      <4>2. s \ {k + 1} \in SUBSET (1..(k + 1)) /\ k + 1 \notin s \ {k + 1}
        OBVIOUS
      <4>3. h[s \ {k + 1}] = g[s \ {k + 1}]
        BY <4>2
      <4> QED BY <3>1, <4>1, <4>3
    <3>2. CASE k + 1 \notin s
      <4>1. s \in SUBSET (1..k)
        BY <3>2
      <4>2. s \ {Max(s)} \in SUBSET (1..(k + 1)) /\ k + 1 \notin s \ {Max(s)}
        BY <3>2
      <4>3. h[s] = g[s] /\ h[s \ {Max(s)}] = g[s \ {Max(s)}]
        BY <3>2, <4>2
      <4>4. g[s] = IF s = {} THEN <<>> ELSE Collected(g[s \ {Max(s)}], ps[Max(s)])
        BY <2>1, <4>1 DEF IsIter
      <4> QED BY <4>3, <4>4
    <3> QED BY <3>1, <3>2
  <2> QED BY <2>2, Zenon DEF IsIter
<1> HIDE DEF T
<1>3. Nat \subseteq T
  BY <1>1, <1>2, Induction
<1> QED BY <1>3 DEF T

(* Deduplicated is that function's value for the whole list.                 *)
LEMMA DeduplicatedIter ==
  ASSUME NEW ps, NEW n \in Nat, DOMAIN ps = 1..n
  PROVE  \E g : IsIter(g, ps, 1..n) /\ Deduplicated(ps) = g[1..n]
<1> DEFINE g == CHOOSE g : IsIter(g, ps, 1..n)
<1>1. IsIter(g, ps, 1..n)
  BY IterExists
<1>2. Deduplicated(ps) = g[1..n]
  BY DEF Deduplicated, FoldLeft, MapThenFoldSet, IsIter
<1> QED BY <1>1, <1>2

(* The participantMap before each turn of the loop, and after the last.      *)
LEMMA DeduplicatedPrefixes ==
  ASSUME NEW ps, NEW n \in Nat, DOMAIN ps = 1..n
  PROVE  \E c : /\ c[0] = <<>>
                /\ \A k \in 1..n : c[k] = Collected(c[k - 1], ps[k])
                /\ Deduplicated(ps) = c[n]
<1>1. PICK g : IsIter(g, ps, 1..n) /\ Deduplicated(ps) = g[1..n]
  BY DeduplicatedIter
<1> DEFINE c == [k \in 0..n |-> g[1..k]]
<1>2. c[0] = <<>>
  <2>1. 1..0 = {} /\ {} \in SUBSET (1..n)
    OBVIOUS
  <2>2. g[{}] = <<>>
    BY <1>1, <2>1 DEF IsIter
  <2> QED BY <2>1, <2>2
<1>3. ASSUME NEW k \in 1..n
      PROVE  c[k] = Collected(c[k - 1], ps[k])
  <2>1. 1..k \in SUBSET (1..n) /\ k - 1 \in Nat /\ (k - 1) + 1 \in 1..k
    OBVIOUS
  <2>2. Max(1..k) = k
    <3>1. 1..k \subseteq 1..((k - 1) + 1)
      OBVIOUS
    <3>2. Max(1..k) = (k - 1) + 1
      BY <2>1, <3>1, MaxOf
    <3> QED BY <3>2
  <2>3. (1..k) \ {k} = 1..(k - 1)
    OBVIOUS
  <2>4. 1..k # {}
    BY <2>1
  <2>5. g[1..k] = Collected(g[(1..k) \ {Max(1..k)}], ps[Max(1..k)])
    BY <1>1, <2>1, <2>4 DEF IsIter
  <2>6. g[1..k] = Collected(g[1..(k - 1)], ps[k])
    BY <2>2, <2>3, <2>5
  <2> QED BY <2>6
<1>4. Deduplicated(ps) = c[n]
  BY <1>1
<1> QED BY <1>2, <1>3, <1>4

-----------------------------------------------------------------------------
(* A provider's records, and the entries of participantMap.                  *)
RecordsOf(Ids, Names, Counts) ==
  [id : Ids, username : Names, liked : BOOLEAN, commented : BOOLEAN,
   commentsCount : Counts, reposted : BOOLEAN, subscribed : BOOLEAN,
   isAdmin : BOOLEAN]

RawRecords(Ids, Names) == RecordsOf(Ids, Names, Nat \cup {NoCount})
MapEntries(Ids, Names) == RecordsOf(Ids, Names, Nat)

(* Entry e says what the first k records say of its user together.           *)
SumsUp(e, ps, k) ==
  /\ \E i \in 1..k : /\ ps[i].id = e.id /\ ps[i].username = e.username
                     /\ \A j \in 1..(i - 1) : ps[j].id # e.id
  /\ e.liked <=> \E i \in 1..k : ps[i].id = e.id /\ ps[i].liked
  /\ e.commented <=> \E i \in 1..k : ps[i].id = e.id /\ ps[i].commented
  /\ e.commentsCount > 0 <=> \E i \in 1..k : ps[i].id = e.id /\ CommentsOf(ps[i]) > 0
  /\ e.reposted <=> \E i \in 1..k : ps[i].id = e.id /\ ps[i].reposted
  /\ e.subscribed <=> \E i \in 1..k : ps[i].id = e.id /\ ps[i].subscribed
  /\ e.isAdmin <=> \E i \in 1..k : ps[i].id = e.id /\ ps[i].isAdmin

(* The map m has one entry for every user of the first k records.            *)
OnePerUser(m, ps, k) ==
  /\ \A d, e \in DOMAIN m : m[d].id = m[e].id => d = e
  /\ \A i \in 1..k : \E e \in DOMAIN m : m[e].id = ps[i].id
  /\ \A e \in DOMAIN m : SumsUp(m[e], ps, k)

(* pComments is a number whatever the record says.                           *)
LEMMA CountOfRecord ==
  ASSUME NEW p, p.commentsCount \in Nat \cup {NoCount}
  PROVE  CommentsOf(p) \in Nat
BY FilterAssumption DEF CommentsOf

(* What the merge of a record into an entry leaves in each of its fields.    *)
LEMMA MergedRecord ==
  ASSUME NEW Ids, NEW Names, NEW e \in MapEntries(Ids, Names),
         NEW p \in RawRecords(Ids, Names)
  PROVE  /\ Merged(e, p) \in MapEntries(Ids, Names)
         /\ Merged(e, p).id = e.id /\ Merged(e, p).username = e.username
         /\ Merged(e, p).commentsCount = e.commentsCount + CommentsOf(p)
         /\ Merged(e, p).liked <=> e.liked \/ p.liked
         /\ Merged(e, p).commented <=> e.commented \/ p.commented
         /\ Merged(e, p).reposted <=> e.reposted \/ p.reposted
         /\ Merged(e, p).subscribed <=> e.subscribed \/ p.subscribed
         /\ Merged(e, p).isAdmin <=> e.isAdmin \/ p.isAdmin
<1> DEFINE m == Merged(e, p)
<1>1. DOMAIN e = {"id", "username", "liked", "commented", "commentsCount", "reposted",
                  "subscribed", "isAdmin"}
  BY DEF RawRecords, MapEntries, RecordsOf
<1>2. m.id = e.id /\ m.username = e.username
  BY <1>1 DEF Merged
<1>3. m.commentsCount = e.commentsCount + CommentsOf(p)
  BY <1>1 DEF Merged
<1>4. m.liked = (e.liked \/ p.liked)
  BY <1>1 DEF Merged
<1>5. m.commented = (e.commented \/ p.commented)
  BY <1>1 DEF Merged
<1>6. m.reposted = (e.reposted \/ p.reposted)
  BY <1>1 DEF Merged
<1>7. m.subscribed = (e.subscribed \/ p.subscribed)
  BY <1>1 DEF Merged
<1>8. m.isAdmin = (e.isAdmin \/ p.isAdmin)
  BY <1>1 DEF Merged
<1>9. CommentsOf(p) \in Nat
  BY CountOfRecord DEF RawRecords, MapEntries, RecordsOf
<1>10. m.commentsCount \in Nat
  BY <1>3, <1>9 DEF RawRecords, MapEntries, RecordsOf
<1>11. DOMAIN m = DOMAIN e
  BY DEF Merged
<1>12. m = [f \in DOMAIN m |-> m[f]]
  BY DEF Merged
<1>13. /\ m.id \in Ids /\ m.username \in Names
       /\ m.liked \in BOOLEAN /\ m.commented \in BOOLEAN /\ m.reposted \in BOOLEAN
       /\ m.subscribed \in BOOLEAN /\ m.isAdmin \in BOOLEAN
  BY <1>2, <1>4, <1>5, <1>6, <1>7, <1>8 DEF RawRecords, MapEntries, RecordsOf
<1> HIDE DEF m
<1>14. m \in MapEntries(Ids, Names)
  BY <1>1, <1>11, <1>10, <1>12, <1>13 DEF RawRecords, MapEntries, RecordsOf
<1> QED BY <1>2, <1>3, <1>4, <1>5, <1>6, <1>7, <1>8, <1>14 DEF m

(* A record of somebody else changes nothing for an entry.                   *)
LEMMA SumsUpMore ==
  ASSUME NEW e, NEW ps, NEW k \in Nat, SumsUp(e, ps, k), ps[k + 1].id # e.id
  PROVE  SumsUp(e, ps, k + 1)
<1>1. (\A i \in 1..k : i \in 1..(k + 1)) /\ \A i \in 1..(k + 1) : i = k + 1 \/ i \in 1..k
  OBVIOUS
<1>2. \E i \in 1..(k + 1) : /\ ps[i].id = e.id /\ ps[i].username = e.username
                            /\ \A j \in 1..(i - 1) : ps[j].id # e.id
  BY <1>1 DEF SumsUp
<1>3. e.commentsCount > 0
        <=> \E i \in 1..(k + 1) : ps[i].id = e.id /\ CommentsOf(ps[i]) > 0
  BY <1>1 DEF SumsUp
<1>4. e.liked <=> \E i \in 1..(k + 1) : ps[i].id = e.id /\ ps[i].liked
  BY <1>1 DEF SumsUp
<1>5. e.commented <=> \E i \in 1..(k + 1) : ps[i].id = e.id /\ ps[i].commented
  BY <1>1 DEF SumsUp
<1>6. e.reposted <=> \E i \in 1..(k + 1) : ps[i].id = e.id /\ ps[i].reposted
  BY <1>1 DEF SumsUp
<1>7. e.subscribed <=> \E i \in 1..(k + 1) : ps[i].id = e.id /\ ps[i].subscribed
  BY <1>1 DEF SumsUp
<1>8. e.isAdmin <=> \E i \in 1..(k + 1) : ps[i].id = e.id /\ ps[i].isAdmin
  BY <1>1 DEF SumsUp
<1> QED BY <1>2, <1>3, <1>4, <1>5, <1>6, <1>7, <1>8 DEF SumsUp

(* One turn of the loop, whether the user was in the map or not.             *)
LEMMA OnePerUserStep ==
  ASSUME NEW Ids, NEW Names, NEW n \in Nat,
         NEW ps \in [1..n -> RawRecords(Ids, Names)],
         NEW m \in Seq(MapEntries(Ids, Names)), NEW k \in 0..(n - 1), OnePerUser(m, ps, k)
  PROVE  LET c == Collected(m, ps[k + 1])
         IN c \in Seq(MapEntries(Ids, Names)) /\ OnePerUser(c, ps, k + 1)
<1> DEFINE p == ps[k + 1]
           c == Collected(m, p)
<1>1. p \in RawRecords(Ids, Names) /\ CommentsOf(p) \in Nat
  BY CountOfRecord DEF RawRecords, MapEntries, RecordsOf
<1>2. DOMAIN m = 1..Len(m) /\ Len(m) \in Nat
  OBVIOUS
<1>3. Known(m, p) <=> \E e \in DOMAIN m : m[e].id = p.id
  BY DEF Known, Range
<1>4. k + 1 \in 1..(k + 1) /\ (\A i \in 1..k : i \in 1..(k + 1))
      /\ \A i \in 1..(k + 1) : i = k + 1 \/ i \in 1..k
  OBVIOUS
<1>5. CASE Known(m, p)
  <2>1. c = [i \in DOMAIN m |-> IF m[i].id = p.id THEN Merged(m[i], p) ELSE m[i]]
    BY <1>5 DEF Collected
  <2> HIDE DEF c, p
  <2>2. ASSUME NEW i \in DOMAIN m
        PROVE  /\ Merged(m[i], p) \in MapEntries(Ids, Names)
               /\ Merged(m[i], p).id = m[i].id
    <3>1. m[i] \in MapEntries(Ids, Names)
      OBVIOUS
    <3> QED BY <1>1, <3>1, MergedRecord
  <2>3. c \in [1..Len(m) -> MapEntries(Ids, Names)] /\ DOMAIN c = DOMAIN m
        /\ \A i \in DOMAIN m : c[i].id = m[i].id
    BY <1>2, <2>1, <2>2
  <2>4. c \in Seq(MapEntries(Ids, Names))
    BY <1>2, <2>3
  <2>5. \A d, e \in DOMAIN c : c[d].id = c[e].id => d = e
    BY <2>3 DEF OnePerUser
  <2>6. \A i \in 1..(k + 1) : \E e \in DOMAIN c : c[e].id = ps[i].id
    <3>1. \A i \in 1..(k + 1) : i = k + 1 \/ i \in 1..k
      OBVIOUS
    <3>2. \A i \in 1..k : \E e \in DOMAIN c : c[e].id = ps[i].id
      BY <2>3 DEF OnePerUser
    <3> QED BY <1>3, <1>5, <2>3, <3>1, <3>2 DEF p
  <2>7. ASSUME NEW e \in DOMAIN c
        PROVE  SumsUp(c[e], ps, k + 1)
    <3>1. SumsUp(m[e], ps, k)
      BY <2>3 DEF OnePerUser
    <3>2. CASE m[e].id = p.id
      <4>1. c[e] = Merged(m[e], p)
        BY <2>1, <2>3, <3>2
      <4>0. m[e] \in MapEntries(Ids, Names)
        BY <2>3
      <4>2. /\ c[e].id = m[e].id /\ c[e].username = m[e].username
            /\ c[e].commentsCount = m[e].commentsCount + CommentsOf(p)
            /\ m[e].commentsCount \in Nat
        BY <1>1, <4>1, <4>0, MergedRecord DEF RawRecords, MapEntries, RecordsOf
      <4>3. /\ \E i \in 1..(k + 1) : /\ ps[i].id = c[e].id /\ ps[i].username = c[e].username
                                     /\ \A j \in 1..(i - 1) : ps[j].id # c[e].id
        BY <1>4, <3>1, <4>2 DEF SumsUp, p
      <4>4. c[e].commentsCount > 0
              <=> \E i \in 1..(k + 1) : ps[i].id = c[e].id /\ CommentsOf(ps[i]) > 0
        <5>1. c[e].commentsCount > 0 <=> m[e].commentsCount > 0 \/ CommentsOf(p) > 0
          BY <1>1, <4>2
        <5> QED BY <1>4, <3>1, <3>2, <4>2, <5>1 DEF SumsUp, p
      <4>5. c[e].liked <=> \E i \in 1..(k + 1) : ps[i].id = c[e].id /\ ps[i].liked
        <5>1. c[e].liked <=> m[e].liked \/ p.liked
          BY <1>1, <4>1, <4>0, MergedRecord
        <5> QED BY <1>4, <3>1, <3>2, <4>2, <5>1 DEF SumsUp, p
      <4>6. c[e].commented <=> \E i \in 1..(k + 1) : ps[i].id = c[e].id /\ ps[i].commented
        <5>1. c[e].commented <=> m[e].commented \/ p.commented
          BY <1>1, <4>1, <4>0, MergedRecord
        <5> QED BY <1>4, <3>1, <3>2, <4>2, <5>1 DEF SumsUp, p
      <4>7. c[e].reposted <=> \E i \in 1..(k + 1) : ps[i].id = c[e].id /\ ps[i].reposted
        <5>1. c[e].reposted <=> m[e].reposted \/ p.reposted
          BY <1>1, <4>1, <4>0, MergedRecord
        <5> QED BY <1>4, <3>1, <3>2, <4>2, <5>1 DEF SumsUp, p
      <4>8. c[e].subscribed <=> \E i \in 1..(k + 1) : ps[i].id = c[e].id /\ ps[i].subscribed
        <5>1. c[e].subscribed <=> m[e].subscribed \/ p.subscribed
          BY <1>1, <4>1, <4>0, MergedRecord
        <5> QED BY <1>4, <3>1, <3>2, <4>2, <5>1 DEF SumsUp, p
      <4>9. c[e].isAdmin <=> \E i \in 1..(k + 1) : ps[i].id = c[e].id /\ ps[i].isAdmin
        <5>1. c[e].isAdmin <=> m[e].isAdmin \/ p.isAdmin
          BY <1>1, <4>1, <4>0, MergedRecord
        <5> QED BY <1>4, <3>1, <3>2, <4>2, <5>1 DEF SumsUp, p
      <4> QED BY <4>3, <4>4, <4>5, <4>6, <4>7, <4>8, <4>9 DEF SumsUp
    <3>3. CASE m[e].id # p.id
      <4>1. c[e] = m[e]
        BY <2>1, <2>3, <3>3
      <4> QED BY <1>4, <3>1, <3>3, <4>1, SumsUpMore DEF p
    <3> QED BY <3>2, <3>3
  <2>8. OnePerUser(c, ps, k + 1)
    BY <2>5, <2>6, <2>7 DEF OnePerUser
  <2> QED BY <2>4, <2>8 DEF c, p
<1>6. CASE ~Known(m, p)
  <2> DEFINE q == [p EXCEPT !.commentsCount = CommentsOf(p)]
  <2>1. c = Append(m, q)
    BY <1>6 DEF Collected
  <2>2. q \in MapEntries(Ids, Names) /\ q.id = p.id
    BY <1>1 DEF RawRecords, MapEntries, RecordsOf
  <2>3. c \in Seq(MapEntries(Ids, Names)) /\ DOMAIN c = 1..(Len(m) + 1)
        /\ c[Len(m) + 1] = q /\ \A i \in 1..Len(m) : c[i] = m[i]
    BY <2>1, <2>2
  <2> HIDE DEF c
  <2>4. \A d \in DOMAIN c : d = Len(m) + 1 \/ d \in 1..Len(m)
    BY <2>3
  <2>5. ASSUME NEW d \in DOMAIN c, NEW e \in DOMAIN c, c[d].id = c[e].id
        PROVE  d = e
    <3>1. \A i \in 1..Len(m) : c[i] = m[i] /\ m[i].id # p.id
      BY <1>2, <1>3, <1>6, <2>3
    <3>2. CASE d \in 1..Len(m) /\ e \in 1..Len(m)
      BY <1>2, <2>5, <3>1, <3>2 DEF OnePerUser
    <3>3. CASE d = Len(m) + 1 \/ e = Len(m) + 1
      BY <2>2, <2>3, <2>4, <2>5, <3>1, <3>3
    <3> QED BY <2>4, <3>2, <3>3
  <2>6. \A i \in 1..(k + 1) : \E e \in DOMAIN c : c[e].id = ps[i].id
    <3>1. \A i \in 1..(k + 1) : i = k + 1 \/ i \in 1..k
      OBVIOUS
    <3>2. ASSUME NEW i \in 1..k PROVE \E e \in DOMAIN c : c[e].id = ps[i].id
      <4>1. PICK e \in DOMAIN m : m[e].id = ps[i].id
        BY DEF OnePerUser
      <4>2. e \in DOMAIN c /\ c[e] = m[e]
        BY <1>2, <2>3
      <4> QED BY <4>1, <4>2
    <3>3. Len(m) + 1 \in DOMAIN c /\ c[Len(m) + 1].id = p.id
      BY <1>2, <2>2, <2>3
    <3> QED BY <3>1, <3>2, <3>3
  <2>7. \A i \in 1..k : ps[i].id # p.id
    BY <1>3, <1>6 DEF OnePerUser
  <2>8. ASSUME NEW e \in DOMAIN c
        PROVE  SumsUp(c[e], ps, k + 1)
    <3>2. CASE e = Len(m) + 1
      <4>1. c[e] = q
        BY <2>3, <3>2
      <4>2. /\ q.username = p.username /\ q.commentsCount = CommentsOf(p)
            /\ q.liked = p.liked /\ q.commented = p.commented /\ q.reposted = p.reposted
            /\ q.subscribed = p.subscribed /\ q.isAdmin = p.isAdmin
        BY <1>1 DEF RawRecords, MapEntries, RecordsOf
      <4>3. \A j \in 1..((k + 1) - 1) : ps[j].id # p.id
        BY <2>7
      <4> HIDE DEF q
      <4> QED BY <1>4, <2>2, <2>7, <4>1, <4>2, <4>3 DEF SumsUp
    <3>3. CASE e \in 1..Len(m)
      <4>1. c[e] = m[e] /\ e \in DOMAIN m
        BY <1>2, <2>3, <3>3
      <4>2. SumsUp(m[e], ps, k) /\ m[e].id # p.id
        BY <1>3, <1>6, <4>1 DEF OnePerUser
      <4> QED BY <4>1, <4>2, SumsUpMore
    <3> QED BY <2>4, <3>2, <3>3
  <2> HIDE DEF q
  <2>9. OnePerUser(c, ps, k + 1)
    BY <2>5, <2>6, <2>8 DEF OnePerUser
  <2> QED BY <2>3, <2>9 DEF c
<1> QED BY <1>5, <1>6

(* The loop over all records, by induction on how many it has read.          *)
LEMMA DeduplicatedRight ==
  ASSUME NEW Ids, NEW Names, NEW n \in Nat, NEW ps \in [1..n -> RawRecords(Ids, Names)]
  PROVE  /\ Deduplicated(ps) \in Seq(MapEntries(Ids, Names))
         /\ OnePerUser(Deduplicated(ps), ps, n)
<1>1. PICK c : /\ c[0] = <<>>
               /\ \A k \in 1..n : c[k] = Collected(c[k - 1], ps[k])
               /\ Deduplicated(ps) = c[n]
  BY DeduplicatedPrefixes
<1> DEFINE T == {k \in Nat : k <= n => c[k] \in Seq(MapEntries(Ids, Names))
                                       /\ OnePerUser(c[k], ps, k)}
<1>2. 0 \in T
  <2>1. <<>> \in Seq(MapEntries(Ids, Names)) /\ DOMAIN <<>> = {}
    OBVIOUS
  <2>2. OnePerUser(<<>>, ps, 0)
    BY <2>1 DEF OnePerUser
  <2> QED BY <1>1, <2>1, <2>2
<1>3. ASSUME NEW k \in Nat, k \in T
      PROVE  k + 1 \in T
  <2>1. SUFFICES ASSUME k + 1 <= n
                 PROVE  c[k + 1] \in Seq(MapEntries(Ids, Names))
                        /\ OnePerUser(c[k + 1], ps, k + 1)
    OBVIOUS
  <2>2. k \in 0..(n - 1) /\ k + 1 \in 1..n /\ k <= n /\ (k + 1) - 1 = k
    BY <2>1
  <2>3. c[k] \in Seq(MapEntries(Ids, Names)) /\ OnePerUser(c[k], ps, k)
    BY <1>3, <2>2
  <2>4. c[k + 1] = Collected(c[k], ps[k + 1])
    BY <1>1, <2>2
  <2> QED BY <2>2, <2>3, <2>4, OnePerUserStep
<1> HIDE DEF T
<1>4. Nat \subseteq T
  BY <1>2, <1>3, Induction
<1>5. n \in T
  BY <1>4
<1> QED BY <1>1, <1>5 DEF T

-----------------------------------------------------------------------------

(* The same for the fold of Listed over the deduplicated participants.       *)
IsListing(g, terms, all, S) ==
  g = [s \in SUBSET S |->
         IF s = {} THEN Nothing ELSE Listed(terms, g[s \ {Max(s)}], all[Max(s)])]

(* The same for the second loop: the provers cannot be given a lemma that holds*)
(* for every operator.                                                       *)
LEMMA ListingExists ==
  ASSUME NEW terms, NEW all, NEW n \in Nat
  PROVE  \E g : IsListing(g, terms, all, 1..n)
<1> DEFINE T == {k \in Nat : \E g : IsListing(g, terms, all, 1..k)}
<1>1. 0 \in T
  <2>1. 1..0 = {}
    OBVIOUS
  <2>2. IsListing([s \in SUBSET {} |-> Nothing], terms, all, {})
    BY DEF IsListing
  <2> QED BY <2>1, <2>2
<1>2. ASSUME NEW k \in Nat, k \in T
      PROVE  k + 1 \in T
  <2>1. PICK g : IsListing(g, terms, all, 1..k)
    BY <1>2
  <2> DEFINE h == [s \in SUBSET (1..(k + 1)) |->
                     IF k + 1 \in s THEN Listed(terms, g[s \ {k + 1}], all[k + 1]) ELSE g[s]]
  <2> SUFFICES IsListing(h, terms, all, 1..(k + 1))
    OBVIOUS
  <2>2. ASSUME NEW s \in SUBSET (1..(k + 1))
        PROVE  h[s] = IF s = {} THEN Nothing ELSE Listed(terms, h[s \ {Max(s)}], all[Max(s)])
    <3>1. CASE k + 1 \in s
      <4>1. Max(s) = k + 1
        BY <3>1, MaxOf
      <4>2. s \ {k + 1} \in SUBSET (1..(k + 1)) /\ k + 1 \notin s \ {k + 1}
        OBVIOUS
      <4>3. h[s \ {k + 1}] = g[s \ {k + 1}]
        BY <4>2
      <4> QED BY <3>1, <4>1, <4>3
    <3>2. CASE k + 1 \notin s
      <4>1. s \in SUBSET (1..k)
        BY <3>2
      <4>2. s \ {Max(s)} \in SUBSET (1..(k + 1)) /\ k + 1 \notin s \ {Max(s)}
        BY <3>2
      <4>3. h[s] = g[s] /\ h[s \ {Max(s)}] = g[s \ {Max(s)}]
        BY <3>2, <4>2
      <4>4. g[s] = IF s = {} THEN Nothing ELSE Listed(terms, g[s \ {Max(s)}], all[Max(s)])
        BY <2>1, <4>1 DEF IsListing
      <4> QED BY <4>3, <4>4
    <3> QED BY <3>1, <3>2
  <2> QED BY <2>2, Zenon DEF IsListing
<1> HIDE DEF T
<1>3. Nat \subseteq T
  BY <1>1, <1>2, Induction
<1> QED BY <1>3 DEF T

(* The three lists before each turn of the second loop, and after the last.  *)
LEMMA ListingPrefixes ==
  ASSUME NEW terms, NEW ps, NEW n \in Nat, DOMAIN Deduplicated(ps) = 1..n
  PROVE  \E c : /\ c[0] = Nothing
                /\ \A k \in 1..n : c[k] = Listed(terms, c[k - 1], Deduplicated(ps)[k])
                /\ ApplyFilterRules(ps, terms) = c[n]
<1> DEFINE all == Deduplicated(ps)
           g == CHOOSE g : IsListing(g, terms, all, 1..n)
           c == [k \in 0..n |-> g[1..k]]
<1> HIDE DEF all
<1>1. IsListing(g, terms, all, 1..n)
  BY ListingExists
<1>2. c[0] = Nothing
  <2>1. 1..0 = {} /\ {} \in SUBSET (1..n)
    OBVIOUS
  <2>2. g[{}] = Nothing
    BY <1>1, <2>1 DEF IsListing
  <2> QED BY <2>1, <2>2
<1>3. ASSUME NEW k \in 1..n
      PROVE  c[k] = Listed(terms, c[k - 1], all[k])
  <2>1. 1..k \in SUBSET (1..n) /\ k - 1 \in Nat /\ (k - 1) + 1 \in 1..k
    OBVIOUS
  <2>2. Max(1..k) = k
    <3>1. 1..k \subseteq 1..((k - 1) + 1)
      OBVIOUS
    <3>2. Max(1..k) = (k - 1) + 1
      BY <2>1, <3>1, MaxOf
    <3> QED BY <3>2
  <2>3. (1..k) \ {k} = 1..(k - 1)
    OBVIOUS
  <2>4. 1..k # {}
    BY <2>1
  <2>5. g[1..k] = Listed(terms, g[(1..k) \ {Max(1..k)}], all[Max(1..k)])
    BY <1>1, <2>1, <2>4 DEF IsListing
  <2>6. g[1..k] = Listed(terms, g[1..(k - 1)], all[k])
    BY <2>2, <2>3, <2>5
  <2> QED BY <2>6
<1>4. ApplyFilterRules(ps, terms) = c[n]
  <2>1. ApplyFilterRules(ps, terms) = g[1..n]
    BY DEF ApplyFilterRules, FoldLeft, MapThenFoldSet, IsListing, all
  <2> QED BY <2>1
<1> HIDE DEF c
<1> QED BY <1>2, <1>3, <1>4 DEF all

(* Whether p belongs in the list of the eligible (ok) or of the excluded.    *)
Wanted(p, terms, ok) == (Reasons(p, terms) = {}) <=> ok

(* list holds the wanted ones of the first k entries, each once.             *)
Picks(list, all, terms, k, ok) ==
  /\ \A d, e \in DOMAIN list : list[d].id = list[e].id => d = e
  /\ \A e \in DOMAIN list : \E i \in 1..k :
       list[e] = all[i] /\ Wanted(all[i], terms, ok)
  /\ \A i \in 1..k : Wanted(all[i], terms, ok) =>
       \E e \in DOMAIN list : list[e] = all[i]

(* One turn of the second loop, for a list that takes or passes over an entry.*)
LEMMA PicksMore ==
  ASSUME NEW M, NEW n \in Nat, NEW all \in [1..n -> M], NEW terms, NEW ok \in BOOLEAN,
         \A d, e \in 1..n : all[d].id = all[e].id => d = e,
         NEW k \in 0..(n - 1), NEW list \in Seq(M), Picks(list, all, terms, k, ok),
         NEW more, more = IF Wanted(all[k + 1], terms, ok)
                          THEN Append(list, all[k + 1]) ELSE list
  PROVE  more \in Seq(M) /\ Picks(more, all, terms, k + 1, ok)
<1>1. /\ k + 1 \in 1..(k + 1) /\ (\A i \in 1..k : i \in 1..(k + 1) /\ i \in 1..n /\ i # k + 1)
      /\ (\A i \in 1..(k + 1) : i = k + 1 \/ i \in 1..k) /\ k + 1 \in 1..n
  OBVIOUS
<1>2. CASE ~Wanted(all[k + 1], terms, ok)
  BY <1>1, <1>2 DEF Picks
<1>3. CASE Wanted(all[k + 1], terms, ok)
  <2>1. more = Append(list, all[k + 1]) /\ all[k + 1] \in M
    BY <1>1, <1>3
  <2>2. /\ more \in Seq(M) /\ DOMAIN more = 1..(Len(list) + 1) /\ Len(list) \in Nat
        /\ more[Len(list) + 1] = all[k + 1]
        /\ \A i \in 1..Len(list) : more[i] = list[i] /\ i \in DOMAIN list
    BY <2>1
  <2>3. /\ \A e \in DOMAIN more : e = Len(list) + 1 \/ e \in 1..Len(list)
        /\ \A e \in DOMAIN list : e \in DOMAIN more /\ more[e] = list[e]
        /\ Len(list) + 1 \in DOMAIN more
    BY <2>2
  <2>4. ASSUME NEW d \in DOMAIN more, NEW e \in DOMAIN more, more[d].id = more[e].id
        PROVE  d = e
    <3>1. \A i \in 1..Len(list) : more[i] = list[i] /\ list[i].id # all[k + 1].id
      <4>1. \A i \in 1..Len(list) : \E j \in 1..k : list[i] = all[j]
        BY <2>2 DEF Picks
      <4>2. \A j \in 1..k : all[j].id # all[k + 1].id
        BY <1>1
      <4> QED BY <2>2, <4>1, <4>2
    <3>2. CASE d \in 1..Len(list) /\ e \in 1..Len(list)
      BY <2>2, <2>4, <3>2 DEF Picks
    <3>3. CASE d = Len(list) + 1 \/ e = Len(list) + 1
      BY <2>2, <2>3, <2>4, <3>1, <3>3
    <3> QED BY <2>3, <3>2, <3>3
  <2>5. \A e \in DOMAIN more : \E i \in 1..(k + 1) :
          more[e] = all[i] /\ Wanted(all[i], terms, ok)
    <3>1. \A e \in 1..Len(list) : \E i \in 1..k :
            more[e] = all[i] /\ Wanted(all[i], terms, ok)
      BY <2>2 DEF Picks
    <3>2. more[Len(list) + 1] = all[k + 1] /\ Wanted(all[k + 1], terms, ok)
      BY <1>3, <2>2
    <3> QED BY <1>1, <2>3, <3>1, <3>2
  <2>6. \A i \in 1..(k + 1) : Wanted(all[i], terms, ok) =>
          \E e \in DOMAIN more : more[e] = all[i]
    <3>1. \A i \in 1..k : Wanted(all[i], terms, ok) =>
            \E e \in DOMAIN more : more[e] = all[i]
      BY <2>3 DEF Picks
    <3> QED BY <1>1, <2>2, <2>3, <3>1
  <2>7. Picks(more, all, terms, k + 1, ok)
    BY <2>4, <2>5, <2>6 DEF Picks
  <2> QED BY <2>2, <2>7
<1> QED BY <1>2, <1>3

(* The three lists after k turns.                                            *)
ListedUpTo(r, all, terms, k, M) ==
  /\ r.all \in Seq(M) /\ r.eligible \in Seq(M) /\ r.excluded \in Seq(M)
  /\ Len(r.all) = k /\ \A i \in 1..k : r.all[i] = all[i]
  /\ Picks(r.eligible, all, terms, k, TRUE)
  /\ Picks(r.excluded, all, terms, k, FALSE)

(* One turn of the second loop, for all three lists.                         *)
LEMMA ListedStep ==
  ASSUME NEW M, NEW n \in Nat, NEW all \in [1..n -> M], NEW terms,
         \A d, e \in 1..n : all[d].id = all[e].id => d = e,
         NEW k \in 0..(n - 1), NEW r, ListedUpTo(r, all, terms, k, M)
  PROVE  ListedUpTo(Listed(terms, r, all[k + 1]), all, terms, k + 1, M)
<1> DEFINE q == Listed(terms, r, all[k + 1])
<1>1. /\ q.all = Append(r.all, all[k + 1])
      /\ q.eligible = IF Wanted(all[k + 1], terms, TRUE)
                      THEN Append(r.eligible, all[k + 1]) ELSE r.eligible
      /\ q.excluded = IF Wanted(all[k + 1], terms, FALSE)
                      THEN Append(r.excluded, all[k + 1]) ELSE r.excluded
  BY DEF Listed, Wanted
<1> HIDE DEF q
<1>2. k + 1 \in 1..n /\ k \in Nat /\ all[k + 1] \in M
  OBVIOUS
<1>3. q.eligible \in Seq(M) /\ Picks(q.eligible, all, terms, k + 1, TRUE)
  <2>1. r.eligible \in Seq(M) /\ Picks(r.eligible, all, terms, k, TRUE)
    BY DEF ListedUpTo
  <2> QED BY <1>1, <2>1, PicksMore
<1>4. q.excluded \in Seq(M) /\ Picks(q.excluded, all, terms, k + 1, FALSE)
  <2>1. r.excluded \in Seq(M) /\ Picks(r.excluded, all, terms, k, FALSE)
    BY DEF ListedUpTo
  <2> QED BY <1>1, <2>1, PicksMore
<1>5. /\ q.all \in Seq(M) /\ Len(q.all) = k + 1
      /\ \A i \in 1..(k + 1) : q.all[i] = all[i]
  <2>1. r.all \in Seq(M) /\ Len(r.all) = k /\ \A i \in 1..k : r.all[i] = all[i]
    BY DEF ListedUpTo
  <2>2. q.all \in Seq(M) /\ Len(q.all) = k + 1 /\ q.all[k + 1] = all[k + 1]
        /\ \A i \in 1..k : q.all[i] = r.all[i]
    BY <1>1, <1>2, <2>1
  <2>3. \A i \in 1..(k + 1) : i = k + 1 \/ i \in 1..k
    BY <1>2
  <2> QED BY <2>1, <2>2, <2>3
<1> QED BY <1>3, <1>4, <1>5 DEF ListedUpTo, q

(* The second loop over all entries.                                         *)
LEMMA ListingRight ==
  ASSUME NEW Ids, NEW Names, NEW n \in Nat, NEW ps \in [1..n -> RawRecords(Ids, Names)],
         NEW terms
  PROVE  ListedUpTo(ApplyFilterRules(ps, terms), Deduplicated(ps), terms,
                    Len(Deduplicated(ps)), MapEntries(Ids, Names))
<1> DEFINE all == Deduplicated(ps)
           M == MapEntries(Ids, Names)
           l == Len(all)
<1>1. all \in Seq(M) /\ OnePerUser(all, ps, n)
  BY DeduplicatedRight
<1> HIDE DEF all, M
<1>2. l \in Nat /\ DOMAIN all = 1..l /\ all \in [1..l -> M]
      /\ \A d, e \in 1..l : all[d].id = all[e].id => d = e
  BY <1>1 DEF OnePerUser
<1> HIDE DEF l
<1>3. PICK c : /\ c[0] = Nothing
               /\ \A k \in 1..l : c[k] = Listed(terms, c[k - 1], all[k])
               /\ ApplyFilterRules(ps, terms) = c[l]
  <2>1. l \in Nat /\ DOMAIN Deduplicated(ps) = 1..l
    BY <1>2 DEF all
  <2> QED BY <2>1, ListingPrefixes DEF all
<1> DEFINE T == {k \in Nat : k <= l => ListedUpTo(c[k], all, terms, k, M)}
<1>4. 0 \in T
  <2>1. /\ Nothing.all = <<>> /\ Nothing.eligible = <<>> /\ Nothing.excluded = <<>>
        /\ <<>> \in Seq(M) /\ DOMAIN <<>> = {} /\ Len(<<>>) = 0 /\ 1..0 = {}
    BY DEF Nothing
  <2>2. Picks(<<>>, all, terms, 0, TRUE) /\ Picks(<<>>, all, terms, 0, FALSE)
    BY <2>1 DEF Picks
  <2>3. ListedUpTo(Nothing, all, terms, 0, M)
    BY <2>1, <2>2 DEF ListedUpTo
  <2> QED BY <1>3, <2>3
<1>5. ASSUME NEW k \in Nat, k \in T
      PROVE  k + 1 \in T
  <2>1. SUFFICES ASSUME k + 1 <= l
                 PROVE  ListedUpTo(c[k + 1], all, terms, k + 1, M)
    OBVIOUS
  <2>2. k \in 0..(l - 1) /\ k + 1 \in 1..l /\ k <= l /\ (k + 1) - 1 = k
    BY <1>2, <2>1
  <2>3. ListedUpTo(c[k], all, terms, k, M)
    BY <1>5, <2>2
  <2>4. c[k + 1] = Listed(terms, c[k], all[k + 1])
    BY <1>3, <2>2
  <2> QED BY <1>2, <2>2, <2>3, <2>4, ListedStep
<1> HIDE DEF T
<1>6. Nat \subseteq T
  BY <1>4, <1>5, Induction
<1>7. l \in T
  BY <1>2, <1>6
<1> QED BY <1>2, <1>3, <1>7 DEF T, all, M, l

-----------------------------------------------------------------------------
(* No reason to exclude: every test of the loop failed.                      *)
LEMMA NoReasons ==
  ASSUME NEW e, NEW terms
  PROVE  (Reasons(e, terms) = {}) <=>
           /\ ~Blacklisted(e, terms) /\ ~(terms.excludeAdmins /\ e.isAdmin)
           /\ ~(terms.requireLike /\ ~e.liked)
           /\ ~(terms.requireComment /\ MissingComment(e))
           /\ ~(terms.requireRepost /\ ~e.reposted)
           /\ ~(terms.requireSubscription /\ ~e.subscribed)
BY DEF Reasons

(* An entry has the user name of the first record of its user.               *)
LEMMA FirstName ==
  ASSUME NEW ps, NEW n \in Nat, DOMAIN ps = 1..n, NEW e, SumsUp(e, ps, n)
  PROVE  FirstOf(ps, e.id).username = e.username
<1> DEFINE First(i) == ps[i].id = e.id /\ \A j \in 1..(i - 1) : ps[j].id # e.id
<1>1. PICK i \in 1..n : ps[i].username = e.username /\ First(i)
  BY DEF SumsUp
<1>2. ASSUME NEW j \in 1..n, First(j)
      PROVE  j = i
  <2>1. ~ (j < i)
    BY <1>1, <1>2
  <2>2. ~ (i < j)
    BY <1>1, <1>2
  <2> QED BY <2>1, <2>2
<1>3. (CHOOSE j \in 1..n : First(j)) = i
  <2> HIDE DEF First
  <2> QED BY <1>1, <1>2
<1>4. FirstOf(ps, e.id) = ps[CHOOSE j \in 1..n : First(j)]
  BY DEF FirstOf
<1> QED BY <1>1, <1>3, <1>4

(* An entry has no reason to be excluded if and only if its user meets the rules.*)
LEMMA ReasonsRight ==
  ASSUME NEW Ids, NEW Names, NEW n \in Nat, NEW ps \in [1..n -> RawRecords(Ids, Names)],
         NEW terms, NEW e \in MapEntries(Ids, Names), SumsUp(e, ps, n)
  PROVE  (Reasons(e, terms) = {}) <=> MeetsRules(ps, terms, e.id)
<1>1. DOMAIN ps = 1..n /\ e.commentsCount \in Nat
  BY DEF MapEntries, RecordsOf
<1>2. ~Blacklisted(e, terms)
        <=> /\ e.id \notin terms.excludeBlacklistedIds
            /\ FirstOf(ps, e.id).username \notin terms.excludeBlacklistedIds \ {NoName}
  BY <1>1, FirstName DEF Blacklisted
<1>3. e.liked <=> Did(ps, e.id, LAMBDA p : p.liked)
  BY <1>1 DEF SumsUp, Did, Range
<1>4. e.commented <=> Did(ps, e.id, LAMBDA p : p.commented)
  BY <1>1 DEF SumsUp, Did, Range
<1>5. e.reposted <=> Did(ps, e.id, LAMBDA p : p.reposted)
  BY <1>1 DEF SumsUp, Did, Range
<1>6. e.subscribed <=> Did(ps, e.id, LAMBDA p : p.subscribed)
  BY <1>1 DEF SumsUp, Did, Range
<1>7. e.isAdmin <=> Did(ps, e.id, LAMBDA p : p.isAdmin)
  BY <1>1 DEF SumsUp, Did, Range
<1>8. ~(e.commentsCount < 1)
        <=> Did(ps, e.id, LAMBDA p :
                  IF p.commentsCount = NoCount THEN p.commented ELSE p.commentsCount > 0)
  <2>1. ~(e.commentsCount < 1) <=> \E i \in 1..n : ps[i].id = e.id /\ CommentsOf(ps[i]) > 0
    BY <1>1 DEF SumsUp
  <2>2. \A i \in 1..n : CommentsOf(ps[i]) > 0
          <=> IF ps[i].commentsCount = NoCount THEN ps[i].commented ELSE ps[i].commentsCount > 0
    BY DEF CommentsOf
  <2> QED BY <1>1, <2>1, <2>2 DEF Did, Range
<1>9. MeetsRules(ps, terms, e.id) <=>
        /\ ~Blacklisted(e, terms) /\ (terms.excludeAdmins => ~e.isAdmin)
        /\ (terms.requireLike => e.liked)
        /\ (terms.requireComment => e.commented /\ ~(e.commentsCount < 1))
        /\ (terms.requireRepost => e.reposted)
        /\ (terms.requireSubscription => e.subscribed)
  BY <1>2, <1>3, <1>4, <1>5, <1>6, <1>7, <1>8 DEF MeetsRules
<1> QED BY <1>9, NoReasons DEF MissingComment

(* When a list of entries names every user of a set once.                    *)
LEMMA ListsOnceIf ==
  ASSUME NEW M, NEW list \in Seq(M), NEW users,
         \A d, e \in DOMAIN list : list[d].id = list[e].id => d = e,
         \A e \in DOMAIN list : list[e].id \in users,
         \A u \in users : \E e \in DOMAIN list : list[e].id = u
  PROVE  ListsOnce(list, users)
BY DEF ListsOnce, IsInjective, Range

(* However the actions of a user are spread over the records of a provider,  *)
(* the user has one chance if all of them together meet the rules and none   *)
(* otherwise: for every list of records and all rules (applyFilterRules).    *)
THEOREM OneChance ==
  ASSUME NEW Ids, NEW Names, NEW n \in Nat, NEW ps \in [1..n -> RawRecords(Ids, Names)],
         NEW terms
  PROVE  AgreesWithReference(ps, terms)
<1> DEFINE all == Deduplicated(ps)
           l == Len(all)
           M == MapEntries(Ids, Names)
           r == ApplyFilterRules(ps, terms)
           users == {p.id : p \in Range(ps)}
           eligible == {u \in users : MeetsRules(ps, terms, u)}
<1>1. all \in Seq(M) /\ OnePerUser(all, ps, n)
  BY DeduplicatedRight
<1>2. ListedUpTo(r, all, terms, l, M)
  BY ListingRight
<1> HIDE DEF all, M, r
<1>3. l \in Nat /\ DOMAIN all = 1..l /\ DOMAIN ps = 1..n
      /\ \A i \in 1..l : all[i] \in M /\ SumsUp(all[i], ps, n)
      /\ \A d, e \in 1..l : all[d].id = all[e].id => d = e
  BY <1>1 DEF OnePerUser
<1> HIDE DEF l
<1>4. users = {ps[i].id : i \in 1..n}
  BY <1>3 DEF Range
<1> HIDE DEF users
<1>5. \A i \in 1..l : all[i].id \in users
  <2>1. \A i \in 1..l : \E j \in 1..n : ps[j].id = all[i].id
    BY <1>3 DEF SumsUp
  <2> QED BY <1>4, <2>1
<1>6. \A u \in users : \E i \in 1..l : all[i].id = u
  <2>1. \A j \in 1..n : \E i \in 1..l : all[i].id = ps[j].id
    BY <1>1, <1>3 DEF OnePerUser
  <2> QED BY <1>4, <2>1
<1>7. \A i \in 1..l : (Reasons(all[i], terms) = {}) <=> all[i].id \in eligible
  <2> TAKE i \in 1..l
  <2>1. (Reasons(all[i], terms) = {}) <=> MeetsRules(ps, terms, all[i].id)
    BY <1>3, ReasonsRight DEF M
  <2> QED BY <1>5, <2>1
<1> HIDE DEF eligible
<1>8. ListsOnce(r.all, users)
  <2>1. r.all \in Seq(M) /\ DOMAIN r.all = 1..l /\ \A i \in 1..l : r.all[i] = all[i]
    BY <1>2, <1>3 DEF ListedUpTo
  <2> QED BY <1>3, <1>5, <1>6, <2>1, ListsOnceIf
<1>9. eligible \subseteq users
  BY DEF eligible
<1>10. ListsOnce(r.eligible, eligible)
  <2>1. r.eligible \in Seq(M) /\ Picks(r.eligible, all, terms, l, TRUE)
    BY <1>2 DEF ListedUpTo
  <2>2. \A d, e \in DOMAIN r.eligible : r.eligible[d].id = r.eligible[e].id => d = e
    BY <2>1 DEF Picks
  <2>3. \A e \in DOMAIN r.eligible : r.eligible[e].id \in eligible
    BY <1>7, <2>1 DEF Picks, Wanted
  <2>4. ASSUME NEW u \in eligible
        PROVE  \E e \in DOMAIN r.eligible : r.eligible[e].id = u
    <3>1. PICK i \in 1..l : all[i].id = u
      BY <1>6, <1>9
    <3>2. Wanted(all[i], terms, TRUE)
      BY <1>7, <3>1 DEF Wanted
    <3> QED BY <2>1, <3>1, <3>2 DEF Picks
  <2> QED BY <2>1, <2>2, <2>3, <2>4, ListsOnceIf
<1>11. ListsOnce(r.excluded, users \ eligible)
  <2>1. r.excluded \in Seq(M) /\ Picks(r.excluded, all, terms, l, FALSE)
    BY <1>2 DEF ListedUpTo
  <2>2. \A d, e \in DOMAIN r.excluded : r.excluded[d].id = r.excluded[e].id => d = e
    BY <2>1 DEF Picks
  <2>3. \A e \in DOMAIN r.excluded : r.excluded[e].id \in users \ eligible
    BY <1>5, <1>7, <2>1 DEF Picks, Wanted
  <2>4. ASSUME NEW u \in users \ eligible
        PROVE  \E e \in DOMAIN r.excluded : r.excluded[e].id = u
    <3>1. PICK i \in 1..l : all[i].id = u
      BY <1>6
    <3>2. Wanted(all[i], terms, FALSE)
      BY <1>7, <3>1 DEF Wanted
    <3> QED BY <2>1, <3>1, <3>2 DEF Picks
  <2> QED BY <2>1, <2>2, <2>3, <2>4, ListsOnceIf
<1> QED BY <1>8, <1>10, <1>11 DEF AgreesWithReference, r, users, eligible

-----------------------------------------------------------------------------
(* The inductive invariant of an import.                                    *)

(* Who did something at some time, or all the time, by what was done.        *)
Doings == [like : SUBSET Users, comment : SUBSET Users, member : SUBSET Users]
MapValues == [liked : BOOLEAN, commented : BOOLEAN, commentsCount : Nat]

PostTypes == [likes : Seq(Users), comments : Seq(Users \cup Communities),
              members : SUBSET Users]

(* The types of what a step reads.                                           *)
Types ==
  /\ post \in PostTypes /\ rules \in RuleSets
  /\ at \in {"start", "likes", "comments", "fallback", "subscriptions", "done", "failed"}
  /\ offset \in Nat /\ likeProfiles \in Seq(Users)
  /\ DOMAIN participants \subseteq Users /\ IsFiniteSet(DOMAIN participants)
  /\ participants \in [DOMAIN participants -> MapValues]
  /\ unchecked \subseteq DOMAIN participants /\ subscribed \subseteq Users
  /\ ever \in Doings /\ always \in Doings
  /\ made \in [Users -> Nat] /\ shifted \in BOOLEAN

(* What the phase of an import says of its state.                            *)
Phases ==
  /\ at \in {"start", "likes", "comments", "fallback"} =>
       subscribed = {} /\ unchecked = {}
  /\ at = "likes" => participants = EmptyMap /\ rules.requireLike
  /\ at = "comments" => rules.requireComment
  /\ at = "subscriptions" => rules.requireSubscription /\ group
  /\ at \notin {"start", "failed"} => Supported
  /\ result = IF at = "done"
              THEN ApplyFilterRules(RawParticipants(participants, subscribed), rules)
              ELSE Nothing

(* Whatever the import holds of a user the user did.                         *)
Happened ==
  /\ Range(post.likes) \subseteq ever.like
  /\ Range(post.comments) \cap Users \subseteq ever.comment
  /\ post.members \subseteq ever.member
  /\ Range(likeProfiles) \subseteq ever.like
  /\ \A u \in DOMAIN participants :
       /\ participants[u].liked => u \in ever.like
       /\ participants[u].commented => u \in ever.comment
  /\ subscribed \subseteq ever.member

(* Comments counted and comments still to be paged are together no more than *)
(* the user ever made.                                                       *)
CommentsLeft(u) == {i \in DOMAIN post.comments : i > offset /\ post.comments[i] = u}
Counted(u) == IF u \in DOMAIN participants THEN participants[u].commentsCount ELSE 0

CountedOnce ==
  \A u \in Users :
    /\ CommentsBy(post, u) <= made[u]
    /\ Counted(u) <= made[u]
    /\ at = "comments" => Counted(u) + Cardinality(CommentsLeft(u)) <= made[u]

(* Whoever did something all the time is in what was paged or still ahead.   *)
LikeAhead(u) == \A i \in DOMAIN post.likes : post.likes[i] = u => i > offset
CommentAhead(u) == \A i \in DOMAIN post.comments : post.comments[i] = u => i > offset
HasLiked(u) == u \in DOMAIN participants /\ participants[u].liked
HasCommented(u) ==
  u \in DOMAIN participants /\ participants[u].commented /\ participants[u].commentsCount > 0

Ahead ==
  /\ at = "likes" => \A u \in always.like : u \in Range(likeProfiles) \/ LikeAhead(u)
  /\ at \in {"comments", "subscriptions", "done"} =>
       (rules.requireLike => \A u \in always.like : HasLiked(u))
  /\ at = "comments" => \A u \in always.comment : HasCommented(u) \/ CommentAhead(u)
  /\ at = "comments" => offset <= Len(post.comments)
  /\ at \in {"subscriptions", "done"} =>
       (rules.requireComment => \A u \in always.comment : HasCommented(u))
  /\ at = "subscriptions" =>
        always.member \cap DOMAIN participants \subseteq unchecked \cup subscribed
  /\ at = "done" => (rules.requireSubscription /\ group =>
                       always.member \cap DOMAIN participants \subseteq subscribed)

(* What somebody did all the time still holds at VK.                         *)
Still ==
  /\ always.like \subseteq Range(post.likes)
  /\ always.comment \subseteq Range(post.comments)
  /\ always.member \subseteq post.members

Inv == Types /\ Phases /\ Happened /\ CountedOnce /\ Still /\ (~shifted => Ahead)

-----------------------------------------------------------------------------

(* Min of two numbers.                                                       *)
LEMMA MinOfTwo ==
  ASSUME NEW a \in Nat, NEW b \in Nat
  PROVE  Min({a, b}) \in Nat /\ Min({a, b}) = IF a <= b THEN a ELSE b
<1>1. \E x \in {a, b} : \A y \in {a, b} : x =< y
  OBVIOUS
<1>2. Min({a, b}) \in {a, b} /\ \A y \in {a, b} : Min({a, b}) =< y
  BY <1>1 DEF Min
<1> QED BY <1>2

(* A page is a part of the list that begins where the last one ended.        *)
LEMMA PageIsNextPart ==
  ASSUME NEW S, NEW list \in Seq(S), offset \in Nat
  PROVE  LET items == PageOf(list)
         IN /\ items \in Seq(S)
            /\ \A k \in 1..Len(items) : /\ offset + k \in 1..Len(list)
                                        /\ items[k] = list[offset + k]
            /\ Len(items) < PageSize => \A j \in 1..Len(list) : j <= offset + Len(items)
<1> DEFINE last == Min({offset + PageSize, Len(list)})
           items == PageOf(list)
<1>1. PageSize \in Nat /\ PageSize > 0 /\ Len(list) \in Nat
  BY ImportAssumption
<1>2. last \in Nat /\ last = IF offset + PageSize <= Len(list) THEN offset + PageSize ELSE Len(list)
  BY <1>1, MinOfTwo
<1>3. items = SubSeq(list, offset + 1, last)
  BY DEF PageOf
<1> HIDE DEF last, items
<1>4. \A i \in (offset + 1)..last : list[i] \in S
  BY <1>1, <1>2
<1>5. /\ items \in Seq(S)
      /\ Len(items) = IF offset + 1 <= last THEN last - offset ELSE 0
      /\ \A i \in 1..(last - offset) : items[i] = list[offset + i]
  BY <1>2, <1>3, <1>4, SubSeqProperties
<1>6. \A k \in 1..Len(items) : offset + k \in 1..Len(list) /\ items[k] = list[offset + k]
  BY <1>1, <1>2, <1>5
<1>7. Len(items) < PageSize => \A j \in 1..Len(list) : j <= offset + Len(items)
  BY <1>1, <1>2, <1>5
<1> QED BY <1>5, <1>6, <1>7 DEF items

(* When the last page was read and the list was not cut off, nothing is left.*)
LEMMA PagesEnd ==
  ASSUME NEW S, NEW list \in Seq(S), offset \in Nat,
         LastPage(PageOf(list), Len(list)), ~Truncated(PageOf(list), Len(list))
  PROVE  \A j \in DOMAIN list : j <= offset + Len(PageOf(list))
<1> DEFINE items == PageOf(list)
<1>1. /\ items \in Seq(S) /\ Len(items) \in Nat /\ Len(list) \in Nat /\ DOMAIN list = 1..Len(list)
      /\ Len(items) < PageSize => \A j \in 1..Len(list) : j <= offset + Len(items)
      /\ PageSize \in Nat /\ PageSize > 0
  BY PageIsNextPart, ImportAssumption
<1> HIDE DEF items
<1>2. items = <<>> \/ offset + Len(items) >= Len(list) \/ Len(items) < PageSize
  BY DEF LastPage, Truncated, NextOffset, items
<1>3. CASE items = <<>>
  <2>1. Len(items) = 0
    BY <1>3
  <2> QED BY <1>1, <2>1 DEF items
<1>4. CASE offset + Len(items) >= Len(list)
  BY <1>1, <1>4 DEF items
<1>5. CASE Len(items) < PageSize
  BY <1>1, <1>5 DEF items
<1> QED BY <1>2, <1>3, <1>4, <1>5

(* A list with one entry removed.                                            *)
LEMMA RemoveAtRight ==
  ASSUME NEW S, NEW list \in Seq(S), NEW i \in DOMAIN list
  PROVE  /\ RemoveAt(list, i) \in Seq(S) /\ Len(RemoveAt(list, i)) = Len(list) - 1
         /\ Len(list) \in Nat /\ DOMAIN list = 1..Len(list) /\ i \in 1..Len(list)
         /\ DOMAIN RemoveAt(list, i) = 1..(Len(list) - 1)
         /\ \A j \in 1..(Len(list) - 1) :
              RemoveAt(list, i)[j] = IF j < i THEN list[j] ELSE list[j + 1]
<1> DEFINE a == SubSeq(list, 1, i - 1)
           b == SubSeq(list, i + 1, Len(list))
<1>1. Len(list) \in Nat /\ DOMAIN list = 1..Len(list) /\ i \in 1..Len(list)
  OBVIOUS
<1>2. \A j \in 1..(i - 1) : list[j] \in S
  BY <1>1
<1>3. \A j \in (i + 1)..Len(list) : list[j] \in S
  BY <1>1
<1>4. a \in Seq(S) /\ Len(a) = i - 1 /\ \A j \in 1..(i - 1) : a[j] = list[j]
  BY <1>1, <1>2, SubSeqProperties
<1>5. b \in Seq(S) /\ Len(b) = Len(list) - i /\ \A j \in 1..(Len(list) - i) : b[j] = list[i + j]
  BY <1>1, <1>3, SubSeqProperties
<1>6. RemoveAt(list, i) = a \o b
  BY DEF RemoveAt
<1> HIDE DEF a, b
<1> DEFINE n == Len(list) - 1
<1>7. Len(a) + Len(b) = n /\ n \in Nat
  BY <1>1, <1>4, <1>5
<1>8. /\ a \o b \in Seq(S) /\ Len(a \o b) = n
      /\ \A j \in 1..n : (a \o b)[j] = IF j <= Len(a) THEN a[j] ELSE b[j - Len(a)]
  <2>1. /\ a \o b \in Seq(S) /\ Len(a \o b) = Len(a) + Len(b)
        /\ \A j \in 1..(Len(a) + Len(b)) :
             (a \o b)[j] = IF j <= Len(a) THEN a[j] ELSE b[j - Len(a)]
    BY <1>4, <1>5, ConcatProperties
  <2> QED BY <1>7, <2>1
<1>9. ASSUME NEW j \in 1..n
      PROVE  (a \o b)[j] = IF j < i THEN list[j] ELSE list[j + 1]
  <2>1. CASE j < i
    <3>1. j <= Len(a) /\ j \in 1..(i - 1)
      BY <1>1, <1>4, <2>1
    <3> QED BY <1>4, <1>8, <2>1, <3>1
  <2>2. CASE ~(j < i)
    <3>1. ~(j <= Len(a)) /\ j - Len(a) \in 1..(Len(list) - i) /\ i + (j - Len(a)) = j + 1
      BY <1>1, <1>4, <2>2
    <3> QED BY <1>5, <1>8, <2>2, <3>1
  <2> QED BY <2>1, <2>2
<1>10. DOMAIN (a \o b) = 1..Len(a \o b)
  BY <1>8
<1> QED BY <1>1, <1>6, <1>8, <1>9, <1>10

(* The places of a list are finitely many.                                   *)
LEMMA FinitePlaces ==
  ASSUME NEW S, NEW list \in Seq(S), NEW P \in SUBSET DOMAIN list
  PROVE  IsFiniteSet(P) /\ Cardinality(P) \in Nat
<1>1. DOMAIN list = 1..Len(list) /\ Len(list) \in Nat
  OBVIOUS
<1>2. IsFiniteSet(1..Len(list))
  BY <1>1, FS_Interval
<1> QED BY <1>1, <1>2, FS_Subset, FS_CardinalityType

(* An injection on numbers bounds a cardinality.                             *)
LEMMA NoMoreThan ==
  ASSUME NEW P, NEW Q, IsFiniteSet(Q), NEW f \in [P -> Q],
         \A x, y \in P : f[x] = f[y] => x = y
  PROVE  IsFiniteSet(P) /\ Cardinality(P) <= Cardinality(Q)
<1>1. f \in Injection(P, Q)
  BY DEF Injection, IsInjective
<1> QED BY <1>1, FS_Injection

-----------------------------------------------------------------------------
(* The steps at VK.                                                          *)

(* What every change at VK does to the invariant, whatever changes.          *)
LEMMA BecomesKeeps ==
  ASSUME Inv, NEW p \in PostTypes, Becomes(p), made' \in [Users -> Nat],
         shifted' \in BOOLEAN, shifted => shifted', CountedOnce',
         ~shifted' /\ at = "likes" => \A u \in always.like : LikeAhead(u) => LikeAhead(u)',
         ~shifted' /\ at = "comments" =>
           /\ \A u \in always.comment : CommentAhead(u) => CommentAhead(u)'
           /\ offset <= Len(p.comments)
  PROVE  Inv'
<1> USE DEF Inv
<1>1. /\ post' = p /\ UNCHANGED <<asked, at, token, attempt, paging, participants, unchecked,
                                  subscribed, result>>
      /\ at \notin {"done", "failed"}
  BY DEF Becomes
<1>2. /\ p.likes \in Seq(Users) /\ p.comments \in Seq(Users \cup Communities)
      /\ p.members \in SUBSET Users
  BY DEF PostTypes
<1>3. ever \in Doings /\ always \in Doings
  BY DEF Types
<1>4. /\ Acts(p).like = Range(p.likes) /\ Acts(p).comment = Range(p.comments) \cap Users
      /\ Acts(p).member = p.members
  BY DEF Acts
<1>5. /\ Acts(p).like \subseteq Users /\ Acts(p).comment \subseteq Users
      /\ Acts(p).member \subseteq Users
  BY <1>2, <1>4, RangeOfSeq
<1>6. /\ ever' \in Doings /\ ever'.like = ever.like \cup Acts(p).like
      /\ ever'.comment = ever.comment \cup Acts(p).comment
      /\ ever'.member = ever.member \cup Acts(p).member
  <2>1. /\ DOMAIN ever = {"like", "comment", "member"}
        /\ ever' = [a \in DOMAIN ever |-> ever[a] \cup Acts(p)[a]]
    BY <1>3 DEF Becomes, Doings
  <2>2. /\ ever'.like = ever.like \cup Acts(p).like
        /\ ever'.comment = ever.comment \cup Acts(p).comment
        /\ ever'.member = ever.member \cup Acts(p).member
    BY <2>1
  <2>3. ever' \in Doings
    BY <1>3, <1>5, <2>1, <2>2 DEF Doings
  <2> QED BY <2>2, <2>3
<1>7. /\ always' \in Doings /\ always'.like = always.like \cap Acts(p).like
      /\ always'.comment = always.comment \cap Acts(p).comment
      /\ always'.member = always.member \cap Acts(p).member
  <2>1. /\ DOMAIN always = {"like", "comment", "member"}
        /\ always' = [a \in DOMAIN always |-> always[a] \cap Acts(p)[a]]
    BY <1>3 DEF Becomes, Doings
  <2>2. /\ always'.like = always.like \cap Acts(p).like
        /\ always'.comment = always.comment \cap Acts(p).comment
        /\ always'.member = always.member \cap Acts(p).member
    BY <2>1
  <2>3. always' \in Doings
    BY <1>3, <1>5, <2>1, <2>2 DEF Doings
  <2> QED BY <2>2, <2>3
<1>8. Types'
  BY <1>1, <1>6, <1>7 DEF Types, asked, paging
<1>9. Phases'
  BY <1>1 DEF Phases, asked, paging, Supported
<1>10. Happened'
  BY <1>1, <1>4, <1>6 DEF Happened, paging
<1>11. Still'
  BY <1>1, <1>4, <1>7 DEF Still
<1>12. ASSUME ~shifted' PROVE Ahead'
  <2>1. Ahead
    BY <1>12
  <2>2. /\ always'.like \subseteq always.like /\ always'.comment \subseteq always.comment
        /\ always'.member \subseteq always.member
    BY <1>7
  <2>3. \A u : HasLiked(u)' = HasLiked(u) /\ HasCommented(u)' = HasCommented(u)
    BY <1>1 DEF HasLiked, HasCommented
  <2>4. at' = at /\ rules' = rules /\ group' = group /\ unchecked' = unchecked
        /\ subscribed' = subscribed /\ participants' = participants
        /\ likeProfiles' = likeProfiles /\ offset' = offset
    BY <1>1 DEF asked, paging
  <2>5. (at = "likes" => \A u \in always.like : u \in Range(likeProfiles) \/ LikeAhead(u))'
    BY <1>12, <2>1, <2>2, <2>4 DEF Ahead
  <2>6. (at = "comments" => \A u \in always.comment : HasCommented(u) \/ CommentAhead(u))'
    BY <1>12, <2>1, <2>2, <2>3, <2>4 DEF Ahead
  <2>7. (at \in {"comments", "subscriptions", "done"} =>
           (rules.requireLike => \A u \in always.like : HasLiked(u)))'
    BY <2>1, <2>2, <2>3, <2>4 DEF Ahead
  <2>8. (at \in {"subscriptions", "done"} =>
           (rules.requireComment => \A u \in always.comment : HasCommented(u)))'
    BY <2>1, <2>2, <2>3, <2>4 DEF Ahead
  <2>9. (at = "comments" => offset <= Len(post.comments))'
    BY <1>1, <1>12, <2>4
  <2>10. (at = "subscriptions" =>
            always.member \cap DOMAIN participants \subseteq unchecked \cup subscribed)'
    BY <2>1, <2>2, <2>4 DEF Ahead
  <2> QED BY <1>1, <2>4, <2>5, <2>6, <2>7, <2>8, <2>9, <2>10 DEF Ahead
<1> QED BY <1>8, <1>9, <1>10, <1>11, <1>12

(* The comments are the same, and so is what was counted of them.            *)
LEMMA CountsStay ==
  ASSUME CountedOnce, NEW p, Becomes(p), p.comments = post.comments, made' = made
  PROVE  CountedOnce'
<1>1. post'.comments = post.comments /\ at' = at /\ offset' = offset /\ participants' = participants
  BY DEF Becomes, paging
<1>2. \A u : CommentsBy(post', u) = CommentsBy(post, u) /\ CommentsLeft(u)' = CommentsLeft(u)
             /\ Counted(u)' = Counted(u)
  BY <1>1 DEF CommentsBy, CommentsLeft, Counted
<1> QED BY <1>1, <1>2 DEF CountedOnce

(* A new like comes first: whoever was ahead still is.                       *)
LEMMA LikeStep ==
  ASSUME Inv, Like PROVE Inv'
<1>1. PICK u \in Users \ Range(post.likes) :
        /\ Becomes([post EXCEPT !.likes = <<u>> \o @]) /\ UNCHANGED <<made, shifted>>
  BY DEF Like
<1> DEFINE p == [post EXCEPT !.likes = <<u>> \o @]
           l == <<u>> \o post.likes
<1>2. post \in PostTypes /\ post.likes \in Seq(Users)
  BY DEF Inv, Types, PostTypes
<1>3. <<u>> \in Seq(Users) /\ Len(<<u>>) = 1 /\ <<u>>[1] = u
  OBVIOUS
<1>4. /\ l \in Seq(Users) /\ Len(l) = 1 + Len(post.likes) /\ Len(post.likes) \in Nat
      /\ \A i \in 1..(1 + Len(post.likes)) : l[i] = IF i <= 1 THEN u ELSE post.likes[i - 1]
  BY <1>2, <1>3, ConcatProperties
<1> HIDE DEF l
<1>5. p \in PostTypes /\ p.likes = l /\ p.comments = post.comments
  BY <1>2, <1>4 DEF PostTypes, l
<1>6. made' \in [Users -> Nat] /\ made' = made /\ shifted' = shifted /\ shifted' \in BOOLEAN
  BY <1>1 DEF Inv, Types
<1>7. Becomes(p)
  BY <1>1
<1> HIDE DEF p
<1>8. CountedOnce'
  BY <1>5, <1>6, <1>7, CountsStay DEF Inv
<1>9. post' = p /\ offset' = offset /\ offset \in Nat
  BY <1>7 DEF Becomes, paging, Inv, Types
<1>10. ASSUME NEW w \in always.like, LikeAhead(w)
       PROVE  LikeAhead(w)'
  <2>1. w # u
    BY DEF Inv, Still
  <2> SUFFICES ASSUME NEW i \in DOMAIN l, l[i] = w
               PROVE  i > offset
    BY <1>5, <1>9 DEF LikeAhead
  <2>2. i \in 1..(1 + Len(post.likes))
    BY <1>4
  <2>3. i - 1 \in DOMAIN post.likes /\ post.likes[i - 1] = w
    BY <1>2, <1>4, <2>1, <2>2
  <2>4. i - 1 > offset
    BY <2>3, <1>10 DEF LikeAhead
  <2> QED BY <1>9, <2>2, <2>4
<1>11. /\ \A w \in always.comment : CommentAhead(w) => CommentAhead(w)'
       /\ ~shifted /\ at = "comments" => offset <= Len(p.comments)
  BY <1>5, <1>9 DEF CommentAhead, Inv, Ahead
<1> QED BY <1>5, <1>6, <1>7, <1>8, <1>10, <1>11, BecomesKeeps

(* Memberships do not matter to what is paged.                               *)
LEMMA JoinOrLeaveStep ==
  ASSUME Inv, JoinOrLeave PROVE Inv'
<1>1. PICK u \in Users :
        /\ Becomes([post EXCEPT !.members = SymDiff(@, {u})]) /\ UNCHANGED <<made, shifted>>
  BY DEF JoinOrLeave
<1> DEFINE p == [post EXCEPT !.members = SymDiff(@, {u})]
<1>2. post \in PostTypes /\ post.members \in SUBSET Users
  BY DEF Inv, Types, PostTypes
<1>3. SymDiff(post.members, {u}) \in SUBSET Users
  BY <1>2 DEF SymDiff
<1>4. p \in PostTypes /\ p.likes = post.likes /\ p.comments = post.comments
  BY <1>2, <1>3 DEF PostTypes
<1>5. made' \in [Users -> Nat] /\ made' = made /\ shifted' = shifted /\ shifted' \in BOOLEAN
  BY <1>1 DEF Inv, Types
<1>6. Becomes(p)
  BY <1>1
<1> HIDE DEF p
<1>7. CountedOnce'
  BY <1>4, <1>5, <1>6, CountsStay DEF Inv
<1>8. post' = p /\ offset' = offset
  BY <1>6 DEF Becomes, paging
<1>9. /\ \A w \in always.like : LikeAhead(w) => LikeAhead(w)'
      /\ \A w \in always.comment : CommentAhead(w) => CommentAhead(w)'
      /\ ~shifted /\ at = "comments" => offset <= Len(p.comments)
  BY <1>4, <1>8 DEF LikeAhead, CommentAhead, Inv, Ahead
<1> QED BY <1>4, <1>5, <1>6, <1>7, <1>9, BecomesKeeps

(* A like removed among those not paged yet shifts nobody past the offset.   *)
LEMMA UnlikeStep ==
  ASSUME Inv, Unlike PROVE Inv'
<1>1. PICK i \in DOMAIN post.likes :
        /\ Becomes([post EXCEPT !.likes = RemoveAt(@, i)])
        /\ Removing("likes", i) /\ UNCHANGED made
  BY DEF Unlike
<1> DEFINE l == RemoveAt(post.likes, i)
           p == [post EXCEPT !.likes = l]
<1>2. post \in PostTypes /\ post.likes \in Seq(Users)
  BY DEF Inv, Types, PostTypes
<1>3. /\ l \in Seq(Users) /\ DOMAIN l = 1..(Len(post.likes) - 1) /\ Len(post.likes) \in Nat
      /\ DOMAIN post.likes = 1..Len(post.likes) /\ i \in 1..Len(post.likes)
      /\ \A j \in 1..(Len(post.likes) - 1) :
           l[j] = IF j < i THEN post.likes[j] ELSE post.likes[j + 1]
  BY <1>2, RemoveAtRight
<1> HIDE DEF l
<1>4. p \in PostTypes /\ p.likes = l /\ p.comments = post.comments
  BY <1>2, <1>3 DEF PostTypes
<1>5. made' \in [Users -> Nat] /\ made' = made
  BY <1>1 DEF Inv, Types
<1>6. /\ shifted' \in BOOLEAN /\ (shifted => shifted')
      /\ at = "likes" /\ i <= offset => shifted'
  BY <1>1 DEF Removing, Inv, Types
<1>7. Becomes(p)
  BY <1>1 DEF l
<1> HIDE DEF p
<1>8. CountedOnce'
  BY <1>4, <1>5, <1>7, CountsStay DEF Inv
<1>9. post' = p /\ offset' = offset /\ offset \in Nat
  BY <1>7 DEF Becomes, paging, Inv, Types
<1>10. ASSUME ~shifted', at = "likes", NEW w \in always.like, LikeAhead(w)
       PROVE  LikeAhead(w)'
  <2> SUFFICES ASSUME NEW j \in DOMAIN l, l[j] = w
               PROVE  j > offset
    BY <1>4, <1>9 DEF LikeAhead
  <2>1. i > offset
    BY <1>3, <1>6, <1>9, <1>10
  <2>2. CASE j < i
    <3>1. j \in DOMAIN post.likes /\ post.likes[j] = w
      BY <1>3, <2>2
    <3> QED BY <3>1, <1>10 DEF LikeAhead
  <2>3. CASE ~(j < i)
    BY <1>3, <1>9, <2>1, <2>3
  <2> QED BY <2>2, <2>3
<1>11. /\ \A w \in always.comment : CommentAhead(w) => CommentAhead(w)'
       /\ ~shifted' /\ at = "comments" => offset <= Len(p.comments)
  BY <1>4, <1>6, <1>9 DEF CommentAhead, Inv, Ahead
<1> QED BY <1>4, <1>5, <1>6, <1>7, <1>8, <1>10, <1>11, BecomesKeeps

(* A new comment comes last, and is counted among those made.                *)
LEMMA CommentStep ==
  ASSUME Inv, Comment PROVE Inv'
<1>1. PICK a \in Users \cup Communities :
        /\ Becomes([post EXCEPT !.comments = Append(@, a)])
        /\ made' = [u \in Users |-> made[u] + (IF u = a THEN 1 ELSE 0)]
        /\ UNCHANGED shifted
  BY DEF Comment
<1> DEFINE old == post.comments
           l == Append(post.comments, a)
           p == [post EXCEPT !.comments = l]
           n == Len(old)
<1>2. post \in PostTypes /\ old \in Seq(Users \cup Communities)
  BY DEF Inv, Types, PostTypes
<1>3. /\ l \in Seq(Users \cup Communities) /\ DOMAIN l = 1..(n + 1) /\ n \in Nat /\ Len(l) = n + 1
      /\ DOMAIN old = 1..n /\ l[n + 1] = a /\ \A i \in 1..n : l[i] = old[i]
  BY <1>2
<1> HIDE DEF l
<1>4. p \in PostTypes /\ p.likes = post.likes /\ p.comments = l
  BY <1>2, <1>3 DEF PostTypes
<1>5. made \in [Users -> Nat] /\ made' \in [Users -> Nat]
  BY <1>1 DEF Inv, Types
<1>6. shifted' = shifted /\ shifted' \in BOOLEAN
  BY <1>1 DEF Inv, Types
<1>7. Becomes(p)
  BY <1>1 DEF l
<1> HIDE DEF p
<1>8. post' = p /\ offset' = offset /\ at' = at /\ participants' = participants /\ offset \in Nat
  BY <1>7 DEF Becomes, paging, Inv, Types
<1> HIDE DEF n
<1>9. CountedOnce'
  <2> SUFFICES ASSUME NEW u \in Users
               PROVE  /\ CommentsBy(p, u) <= made'[u]
                      /\ Counted(u) <= made'[u]
                      /\ at = "comments" => Counted(u) + Cardinality(CommentsLeft(u)') <= made'[u]
    BY <1>8 DEF CountedOnce, Counted
  <2> DEFINE By == {i \in DOMAIN old : old[i] = u}
             Byp == {i \in DOMAIN l : l[i] = u}
             Left == CommentsLeft(u)
             Leftp == {i \in DOMAIN l : i > offset /\ l[i] = u}
             more == IF u = a THEN 1 ELSE 0
  <2>1. CommentsBy(p, u) = Cardinality(Byp) /\ CommentsLeft(u)' = Leftp
        /\ Left = {i \in DOMAIN old : i > offset /\ old[i] = u}
    BY <1>4, <1>8 DEF CommentsBy, CommentsLeft
  <2>2. /\ Cardinality(By) <= made[u] /\ Counted(u) <= made[u]
        /\ at = "comments" => Counted(u) + Cardinality(Left) <= made[u]
    BY DEF Inv, CountedOnce, CommentsBy
  <2>3. Counted(u) \in Nat
    BY DEF Counted, Inv, Types, MapValues
  <2>4. /\ IsFiniteSet(By) /\ Cardinality(By) \in Nat
        /\ IsFiniteSet(Left) /\ Cardinality(Left) \in Nat
    BY <1>2, <2>1, FinitePlaces
  <2>5. made'[u] = made[u] + more /\ made[u] \in Nat
    BY <1>1, <1>5
  <2>6. CASE u = a
    <3>1. Byp = By \cup {n + 1} /\ n + 1 \notin By
      BY <1>3, <2>6
    <3>2. Cardinality(Byp) = Cardinality(By) + 1
      BY <2>4, <3>1, FS_AddElement
    <3>3. Leftp \subseteq Left \cup {n + 1}
      BY <1>3, <2>1
    <3>4. Cardinality(Leftp) <= Cardinality(Left) + 1 /\ Cardinality(Leftp) \in Nat
      <4>1. IsFiniteSet(Left \cup {n + 1}) /\ Cardinality(Left \cup {n + 1}) \in Nat
            /\ Cardinality(Left \cup {n + 1}) <= Cardinality(Left) + 1
        <5> HIDE DEF Left
        <5>1. /\ IsFiniteSet(Left \cup {n + 1})
              /\ Cardinality(Left \cup {n + 1})
                   = IF n + 1 \in Left THEN Cardinality(Left) ELSE Cardinality(Left) + 1
          BY <2>4, FS_AddElement
        <5> QED BY <2>4, <5>1
      <4>2. IsFiniteSet(Leftp) /\ Cardinality(Leftp) <= Cardinality(Left \cup {n + 1})
        BY <3>3, <4>1, FS_Subset
      <4> QED BY <2>4, <4>1, <4>2, FS_CardinalityType
    <3> HIDE DEF By, Byp, Left, Leftp
    <3> QED BY <2>1, <2>2, <2>3, <2>4, <2>5, <2>6, <3>2, <3>4
  <2>7. CASE u # a
    <3>1. Byp = By /\ Leftp = Left
      BY <1>3, <2>1, <2>7
    <3> HIDE DEF By, Byp, Left, Leftp
    <3> QED BY <2>1, <2>2, <2>5, <2>7, <3>1
  <2> QED BY <2>6, <2>7
<1>10. \A w \in always.like : LikeAhead(w) => LikeAhead(w)'
  BY <1>4, <1>8 DEF LikeAhead
<1>11. ASSUME ~shifted', at = "comments"
       PROVE  /\ \A w \in always.comment : CommentAhead(w) => CommentAhead(w)'
              /\ offset <= Len(p.comments)
  <2>1. offset <= n
    BY <1>6, <1>11 DEF Inv, Ahead, n
  <2>2. \A i \in 1..(n + 1) : i \in 1..n \/ (i = n + 1 /\ i > offset)
    BY <1>3, <1>8, <2>1
  <2>3. offset <= Len(p.comments)
    BY <1>3, <1>4, <1>8, <2>1
  <2>4. ASSUME NEW w, CommentAhead(w)
        PROVE  CommentAhead(w)'
    BY <1>3, <1>4, <1>8, <2>2, <2>4 DEF CommentAhead
  <2> QED BY <2>3, <2>4
<1> QED BY <1>4, <1>5, <1>6, <1>7, <1>9, <1>10, <1>11, BecomesKeeps

(* A comment removed leaves no more to count.                                *)
LEMMA DeleteCommentStep ==
  ASSUME Inv, DeleteComment PROVE Inv'
<1>1. PICK i \in DOMAIN post.comments :
        /\ Becomes([post EXCEPT !.comments = RemoveAt(@, i)])
        /\ Removing("comments", i) /\ UNCHANGED made
  BY DEF DeleteComment
<1> DEFINE old == post.comments
           l == RemoveAt(old, i)
           p == [post EXCEPT !.comments = l]
           n == Len(old)
           Authors == Users \cup Communities
<1>2. post \in PostTypes /\ old \in Seq(Authors)
  BY DEF Inv, Types, PostTypes
<1> HIDE DEF Authors
<1>3. /\ l \in Seq(Authors) /\ DOMAIN l = 1..(n - 1) /\ n \in Nat /\ Len(l) = n - 1
      /\ DOMAIN old = 1..n /\ i \in 1..n
      /\ \A j \in 1..(n - 1) : l[j] = IF j < i THEN old[j] ELSE old[j + 1]
  BY <1>2, RemoveAtRight
<1> HIDE DEF l
<1>4. p \in PostTypes /\ p.likes = post.likes /\ p.comments = l
  BY <1>2, <1>3 DEF PostTypes, Authors
<1>5. made \in [Users -> Nat] /\ made' \in [Users -> Nat] /\ made' = made
  BY <1>1 DEF Inv, Types
<1>6. /\ shifted' \in BOOLEAN /\ (shifted => shifted')
      /\ at = "comments" /\ i <= offset => shifted'
  BY <1>1 DEF Removing, Inv, Types
<1>7. Becomes(p)
  BY <1>1 DEF l
<1> HIDE DEF p
<1>8. post' = p /\ offset' = offset /\ at' = at /\ participants' = participants /\ offset \in Nat
  BY <1>7 DEF Becomes, paging, Inv, Types
<1> HIDE DEF n
<1> DEFINE Old(j) == IF j < i THEN j ELSE j + 1
<1>9. \A j \in 1..(n - 1) : Old(j) \in 1..n /\ Old(j) >= j /\ l[j] = old[Old(j)]
  BY <1>3
<1>10. \A j, k \in 1..(n - 1) : Old(j) = Old(k) => j = k
  BY <1>3
<1>11. CountedOnce'
  <2> SUFFICES ASSUME NEW u \in Users
               PROVE  /\ CommentsBy(p, u) <= made[u]
                      /\ Counted(u) <= made[u]
                      /\ at = "comments" => Counted(u) + Cardinality(CommentsLeft(u)') <= made[u]
    BY <1>5, <1>8 DEF CountedOnce, Counted
  <2> DEFINE By == {j \in DOMAIN old : old[j] = u}
             Byp == {j \in DOMAIN l : l[j] = u}
             Left == CommentsLeft(u)
             Leftp == {j \in DOMAIN l : j > offset /\ l[j] = u}
  <2>1. CommentsBy(p, u) = Cardinality(Byp) /\ CommentsLeft(u)' = Leftp
        /\ Left = {j \in DOMAIN old : j > offset /\ old[j] = u}
    BY <1>4, <1>8 DEF CommentsBy, CommentsLeft
  <2>2. /\ Cardinality(By) <= made[u] /\ Counted(u) <= made[u]
        /\ at = "comments" => Counted(u) + Cardinality(Left) <= made[u]
    BY DEF Inv, CountedOnce, CommentsBy
  <2>3. Counted(u) \in Nat /\ made[u] \in Nat
    BY <1>5 DEF Counted, Inv, Types, MapValues
  <2>4. /\ IsFiniteSet(By) /\ Cardinality(By) \in Nat
        /\ IsFiniteSet(Left) /\ Cardinality(Left) \in Nat
        /\ Cardinality(Byp) \in Nat /\ Cardinality(Leftp) \in Nat
    BY <1>2, <1>3, <2>1, FinitePlaces
  <2>5. Cardinality(Byp) <= Cardinality(By)
    <3> DEFINE f == [j \in Byp |-> Old(j)]
    <3>1. f \in [Byp -> By] /\ \A x, y \in Byp : f[x] = f[y] => x = y
      BY <1>3, <1>9, <1>10
    <3> HIDE DEF f, By, Byp
    <3> QED BY <2>4, <3>1, NoMoreThan
  <2>6. Cardinality(Leftp) <= Cardinality(Left)
    <3> DEFINE f == [j \in Leftp |-> Old(j)]
    <3>1. \A j \in Leftp : Old(j) \in Left
      BY <1>3, <1>8, <1>9, <2>1
    <3>2. \A x, y \in Leftp : Old(x) = Old(y) => x = y
      BY <1>3, <1>10
    <3> HIDE DEF Left, Leftp
    <3>3. f \in [Leftp -> Left] /\ \A x, y \in Leftp : f[x] = f[y] => x = y
      BY <3>1, <3>2
    <3> HIDE DEF f
    <3> QED BY <2>4, <3>3, NoMoreThan
  <2> HIDE DEF By, Byp, Left, Leftp
  <2> QED BY <2>1, <2>2, <2>3, <2>4, <2>5, <2>6
<1>12. \A w \in always.like : LikeAhead(w) => LikeAhead(w)'
  BY <1>4, <1>8 DEF LikeAhead
<1>13. ASSUME ~shifted', at = "comments"
       PROVE  /\ \A w \in always.comment : CommentAhead(w) => CommentAhead(w)'
              /\ offset <= Len(p.comments)
  <2>1. i > offset
    BY <1>3, <1>6, <1>8, <1>13
  <2>2. offset <= Len(p.comments)
    BY <1>3, <1>4, <1>8, <2>1
  <2>3. ASSUME NEW w, CommentAhead(w)
        PROVE  CommentAhead(w)'
    <3> SUFFICES ASSUME NEW j \in DOMAIN l, l[j] = w
                 PROVE  j > offset
      BY <1>4, <1>8 DEF CommentAhead
    <3>1. CASE j < i
      <4>1. j \in DOMAIN post.comments /\ post.comments[j] = w
        BY <1>3, <3>1
      <4> QED BY <2>3, <4>1 DEF CommentAhead
    <3>2. CASE ~(j < i)
      BY <1>3, <1>8, <2>1, <3>2
    <3> QED BY <3>1, <3>2
  <2> QED BY <2>2, <2>3
<1> QED BY <1>4, <1>5, <1>6, <1>7, <1>11, <1>12, <1>13, BecomesKeeps

-----------------------------------------------------------------------------
(* The steps of the import.                                                  *)

(* What a list contains is finite.                                           *)
LEMMA RangeFinite ==
  ASSUME NEW S, NEW list \in Seq(S)
  PROVE  IsFiniteSet(Range(list))
<1>1. Len(list) \in Nat /\ DOMAIN list = 1..Len(list) /\ list \in [1..Len(list) -> Range(list)]
  BY DEF Range
<1>2. list \in Surjection(1..Len(list), Range(list))
  BY <1>1 DEF Surjection, Range
<1>3. IsFiniteSet(1..Len(list))
  BY <1>1, FS_Interval
<1> QED BY <1>2, <1>3, FS_Surjection

(* A map of what users did, with nothing in it that they did not do.         *)
TrueMap(map) ==
  /\ DOMAIN map \subseteq Users /\ IsFiniteSet(DOMAIN map) /\ map \in [DOMAIN map -> MapValues]
  /\ \A u \in DOMAIN map : /\ map[u].liked => u \in ever.like
                           /\ map[u].commented => u \in ever.comment
                           /\ map[u].commentsCount <= made[u]

(* An import starts with nothing.                                            *)
LEMMA EmptyMapIsTrue == TrueMap(EmptyMap) /\ DOMAIN EmptyMap = {}
<1>1. EmptyMap \in Seq(MapValues) /\ Len(EmptyMap) = 0 /\ DOMAIN EmptyMap = {}
  BY DEF EmptyMap
<1>2. EmptyMap \in [{} -> MapValues]
  BY <1>1
<1> QED BY <1>1, <1>2, FS_EmptySet DEF TrueMap

(* What a step of the import leaves as it is.                                *)
LEMMA PostStays ==
  ASSUME UNCHANGED <<atVk, asked>>
  PROVE  /\ post' = post /\ ever' = ever /\ always' = always /\ made' = made
         /\ rules' = rules /\ group' = group /\ (Still => Still') /\ (Supported <=> Supported')
         /\ \A u : CommentsBy(post, u)' = CommentsBy(post, u)
BY DEF atVk, asked, Still, CommentsBy, Supported

(* An import that fails reports nothing.                                     *)
LEMMA FailStep ==
  ASSUME Inv, at # "done", UNCHANGED <<atVk, asked>>, Fail, shifted' = shifted
  PROVE  Inv'
<1>1. /\ post' = post /\ ever' = ever /\ always' = always /\ made' = made
      /\ rules' = rules /\ group' = group /\ Still'
      /\ \A u : CommentsBy(post, u)' = CommentsBy(post, u)
  BY PostStays DEF Inv
<1>2. at' = "failed" /\ UNCHANGED <<token, paging, participants, unchecked, subscribed, result>>
  BY DEF Fail
<1>3. Types'
  BY <1>1, <1>2 DEF Inv, Types, paging
<1>4. Phases'
  BY <1>1, <1>2 DEF Inv, Phases
<1>5. Happened'
  BY <1>1, <1>2 DEF Inv, Happened, paging
<1>6. CountedOnce'
  BY <1>1, <1>2 DEF Inv, CountedOnce, Counted
<1>7. Ahead'
  BY <1>2 DEF Ahead
<1> QED BY <1>1, <1>3, <1>4, <1>5, <1>6, <1>7 DEF Inv

(* All pages were read: what the map says is reported, or completed with the *)
(* memberships.                                                              *)
LEMMA EndFetchStep ==
  ASSUME Inv, UNCHANGED <<atVk, asked>>, NEW map, TrueMap(map), EndFetch(map), Supported,
         subscribed = {}, unchecked = {}, result = Nothing,
         offset' \in Nat, likeProfiles' = <<>>, shifted' \in BOOLEAN,
         ~shifted' =>
           /\ rules.requireLike => \A u \in always.like : u \in DOMAIN map /\ map[u].liked
           /\ rules.requireComment =>
                \A u \in always.comment : /\ u \in DOMAIN map /\ map[u].commented
                                          /\ map[u].commentsCount > 0
  PROVE  Inv'
<1>1. /\ post' = post /\ ever' = ever /\ always' = always /\ made' = made
      /\ rules' = rules /\ group' = group /\ Still' /\ Supported'
      /\ \A u : CommentsBy(post, u)' = CommentsBy(post, u)
  BY PostStays DEF Inv
<1>2. participants' = map /\ subscribed' = {}
  BY DEF EndFetch
<1>3. \/ /\ rules.requireSubscription /\ group /\ at' = "subscriptions"
         /\ unchecked' = DOMAIN map /\ result' = result
      \/ /\ ~(rules.requireSubscription /\ group /\ DOMAIN map # {})
         /\ Report(map, {}) /\ unchecked' = {}
  BY DEF EndFetch
<1>4. at' \in {"subscriptions", "done"} /\ unchecked' \subseteq DOMAIN map
  BY <1>3 DEF Report
<1>5. Types'
  <2>1. <<>> \in Seq(Users)
    OBVIOUS
  <2> QED BY <1>1, <1>2, <1>4, <2>1 DEF Inv, Types, TrueMap
<1>6. Phases'
  BY <1>1, <1>2, <1>3 DEF Phases, Report
<1>7. Happened'
  <2>1. Range(<<>>) = {}
    BY DEF Range
  <2> QED BY <1>1, <1>2, <2>1 DEF Inv, Happened, TrueMap
<1>8. CountedOnce'
  <2> SUFFICES ASSUME NEW u \in Users
               PROVE  CommentsBy(post, u) <= made[u] /\ Counted(u)' <= made[u]
    BY <1>1, <1>4 DEF CountedOnce
  <2>1. CommentsBy(post, u) <= made[u] /\ made[u] \in Nat
    BY DEF Inv, Types, CountedOnce
  <2> QED BY <1>2, <2>1 DEF Counted, TrueMap
<1>9. ASSUME ~shifted' PROVE Ahead'
  <2>1. /\ rules.requireLike => \A u \in always.like : HasLiked(u)'
        /\ rules.requireComment => \A u \in always.comment : HasCommented(u)'
    BY <1>2, <1>9 DEF HasLiked, HasCommented
  <2>2. at' = "subscriptions" => unchecked' = DOMAIN map
    BY <1>3 DEF Report
  <2>3. at' = "done" => (rules.requireSubscription /\ group => DOMAIN map = {})
    BY <1>3 DEF Report
  <2> QED BY <1>1, <1>2, <1>4, <2>1, <2>2, <2>3 DEF Ahead
<1> QED BY <1>1, <1>5, <1>6, <1>7, <1>8, <1>9 DEF Inv

(* An import starts, or starts over, with an empty map and the first page.   *)
LEMMA StartFetchStep ==
  ASSUME Inv, UNCHANGED <<atVk, asked>>, at \in {"start", "fallback"}, Supported,
         NEW as, StartFetch(as)
  PROVE  Inv'
<1>1. /\ post' = post /\ ever' = ever /\ always' = always /\ made' = made
      /\ rules' = rules /\ group' = group /\ Still' /\ Supported'
      /\ \A u : CommentsBy(post, u)' = CommentsBy(post, u)
  BY PostStays DEF Inv
<1>2. offset' = 0 /\ likeProfiles' = <<>> /\ shifted' = FALSE
  BY DEF StartFetch, StartPaging
<1>3. subscribed = {} /\ unchecked = {} /\ result = Nothing
  BY DEF Inv, Phases
<1>4. <<>> \in Seq(Users) /\ Range(<<>>) = {}
  BY DEF Range
<1>5. CASE rules.requireLike \/ rules.requireComment
  <2>1. /\ at' = IF rules.requireLike THEN "likes" ELSE "comments"
        /\ participants' = EmptyMap
        /\ UNCHANGED <<unchecked, subscribed, result>>
    BY <1>5 DEF StartFetch
  <2>2. at' \in {"likes", "comments"}
    BY <2>1
  <2>3. Types'
    BY <1>1, <1>2, <1>3, <1>4, <2>1, <2>2, EmptyMapIsTrue DEF Inv, Types, TrueMap
  <2>4. Phases'
    BY <1>1, <1>3, <1>5, <2>1, <2>2 DEF Phases
  <2>5. Happened'
    BY <1>1, <1>2, <1>4, <2>1, EmptyMapIsTrue DEF Inv, Happened
  <2>6. CountedOnce'
    <3> SUFFICES ASSUME NEW u \in Users
                 PROVE  /\ CommentsBy(post, u) <= made[u] /\ Counted(u)' <= made[u]
                        /\ Counted(u)' + Cardinality(CommentsLeft(u)') <= made[u]
      BY <1>1 DEF CountedOnce
    <3>1. CommentsBy(post, u) <= made[u] /\ made[u] \in Nat
      BY DEF Inv, Types, CountedOnce
    <3>2. Counted(u)' = 0
      BY <2>1, EmptyMapIsTrue DEF Counted
    <3>3. CommentsLeft(u)' = {i \in DOMAIN post.comments : post.comments[i] = u}
      <4>1. DOMAIN post.comments = 1..Len(post.comments)
        BY DEF Inv, Types, PostTypes
      <4> QED BY <1>1, <1>2, <4>1 DEF CommentsLeft
    <3>4. CommentsLeft(u)' \in SUBSET DOMAIN post.comments
      BY <3>3
    <3>5. Cardinality(CommentsLeft(u)') \in Nat
      BY <3>4, FinitePlaces DEF Inv, Types, PostTypes
    <3>6. Cardinality(CommentsLeft(u)') <= made[u]
      BY <3>1, <3>3 DEF CommentsBy
    <3> QED BY <3>1, <3>2, <3>5, <3>6
  <2>7. Ahead'
    <3>1. /\ DOMAIN post.likes = 1..Len(post.likes)
          /\ DOMAIN post.comments = 1..Len(post.comments) /\ Len(post.comments) \in Nat
      BY DEF Inv, Types, PostTypes
    <3>2. \A u : LikeAhead(u)' /\ CommentAhead(u)'
      BY <1>1, <1>2, <3>1 DEF LikeAhead, CommentAhead
    <3>3. at' = "comments" => ~rules.requireLike
      BY <2>1
    <3> QED BY <1>1, <1>2, <2>2, <3>1, <3>2, <3>3 DEF Ahead
  <2> QED BY <1>1, <2>3, <2>4, <2>5, <2>6, <2>7 DEF Inv
<1>6. CASE ~(rules.requireLike \/ rules.requireComment)
  <2>1. EndFetch(EmptyMap)
    BY <1>6 DEF StartFetch
  <2> QED BY <1>2, <1>3, <1>6, <2>1, EmptyMapIsTrue, EndFetchStep
<1> QED BY <1>5, <1>6

(* A page of likes leaves nobody who likes all the time behind.              *)
LEMMA LikesLoaded ==
  ASSUME Inv, at = "likes"
  PROVE  LET items == PageOf(post.likes)
             loaded == likeProfiles \o items
         IN /\ items \in Seq(Users) /\ loaded \in Seq(Users) /\ Range(loaded) \subseteq ever.like
            /\ ~shifted => \A u \in always.like :
                 u \in Range(loaded)
                   \/ \A i \in DOMAIN post.likes : post.likes[i] = u => i > offset + Len(items)
<1> DEFINE items == PageOf(post.likes)
           loaded == likeProfiles \o items
           l == post.likes
<1>1. /\ l \in Seq(Users) /\ offset \in Nat /\ likeProfiles \in Seq(Users)
      /\ DOMAIN l = 1..Len(l) /\ Len(l) \in Nat
  BY DEF Inv, Types, PostTypes
<1>2. /\ items \in Seq(Users) /\ Len(items) \in Nat /\ DOMAIN items = 1..Len(items)
      /\ \A k \in 1..Len(items) : offset + k \in 1..Len(l) /\ items[k] = l[offset + k]
  BY <1>1, PageIsNextPart
<1> HIDE DEF items
<1>3. loaded \in Seq(Users) /\ Range(loaded) = Range(likeProfiles) \cup Range(items)
  BY <1>1, <1>2, ConcatProperties, RangeConcatenation
<1>4. Range(items) \subseteq Range(l)
  BY <1>1, <1>2 DEF Range
<1>5. Range(loaded) \subseteq ever.like
  BY <1>3, <1>4 DEF Inv, Happened
<1> HIDE DEF loaded
<1>6. ASSUME ~shifted, NEW u \in always.like, u \notin Range(loaded),
             NEW i \in DOMAIN l, l[i] = u
      PROVE  i > offset + Len(items)
  <2>1. u \notin Range(likeProfiles) /\ u \notin Range(items)
    BY <1>3, <1>6
  <2>2. i > offset
    BY <1>6, <2>1 DEF Inv, Ahead, LikeAhead
  <2>3. ASSUME i <= offset + Len(items)
        PROVE  FALSE
    <3>1. i - offset \in 1..Len(items) /\ offset + (i - offset) = i
      BY <1>1, <1>2, <2>2, <2>3
    <3>2. items[i - offset] = u
      BY <1>2, <1>6, <3>1
    <3> QED BY <1>2, <2>1, <3>1, <3>2 DEF Range
  <2> QED BY <1>1, <1>2, <2>3
<1> QED BY <1>2, <1>3, <1>5, <1>6 DEF items, loaded

(* The map made of the likes.                                                *)
LEMMA FromLikesIsTrue ==
  ASSUME Inv, NEW list \in Seq(Users), Range(list) \subseteq ever.like
  PROVE  /\ TrueMap(FromLikes(list)) /\ DOMAIN FromLikes(list) = Range(list)
         /\ \A u \in Range(list) : FromLikes(list)[u].liked /\ FromLikes(list)[u].commentsCount = 0
<1>1. /\ DOMAIN FromLikes(list) = Range(list)
      /\ \A u \in Range(list) : FromLikes(list)[u] = FromLike(u)
  BY DEF FromLikes
<1>2. \A u : FromLike(u) \in MapValues /\ FromLike(u).liked /\ ~FromLike(u).commented
             /\ FromLike(u).commentsCount = 0
  BY DEF FromLike, MapValues
<1>3. IsFiniteSet(Range(list)) /\ Range(list) \subseteq Users
  BY RangeFinite, RangeOfSeq
<1>4. FromLikes(list) \in [Range(list) -> MapValues]
  BY <1>2 DEF FromLikes
<1>5. \A u \in Range(list) : 0 <= made[u]
  BY <1>3 DEF Inv, Types
<1> QED BY <1>1, <1>2, <1>3, <1>4, <1>5 DEF TrueMap

(* A page of likes: the next one, the end of the list, or the ceiling.       *)
LEMMA LikesPageStep ==
  ASSUME Inv, LikesPage PROVE Inv'
<1> DEFINE items == PageOf(post.likes)
           loaded == likeProfiles \o items
           total == Len(post.likes)
           map == FromLikes(loaded)
<1>1. at = "likes" /\ UNCHANGED <<atVk, asked>> /\ shifted' = shifted
  BY DEF LikesPage
<1>2. /\ post' = post /\ ever' = ever /\ always' = always /\ made' = made
      /\ rules' = rules /\ group' = group /\ Still' /\ Supported'
      /\ \A u : CommentsBy(post, u)' = CommentsBy(post, u)
  BY <1>1, PostStays DEF Inv, Phases
<1>3. /\ items \in Seq(Users) /\ loaded \in Seq(Users) /\ Range(loaded) \subseteq ever.like
      /\ ~shifted => \A u \in always.like :
           u \in Range(loaded)
             \/ \A i \in DOMAIN post.likes : post.likes[i] = u => i > offset + Len(items)
  BY <1>1, LikesLoaded
<1>4. CASE ~LastPage(items, total)
  <2>1. /\ offset' = offset + Len(items) /\ likeProfiles' = loaded
        /\ UNCHANGED <<at, token, participants, unchecked, subscribed, result>>
    BY <1>4 DEF LikesPage, NextOffset
  <2> HIDE DEF items, loaded
  <2>2. Types'
    <3>1. offset' \in Nat
      BY <1>3, <2>1 DEF Inv, Types
    <3> QED BY <1>1, <1>2, <1>3, <2>1, <3>1 DEF Inv, Types
  <2>3. Phases'
    BY <1>2, <2>1 DEF Inv, Phases
  <2>4. Happened'
    BY <1>2, <1>3, <2>1 DEF Inv, Happened
  <2>5. CountedOnce'
    BY <1>1, <1>2, <2>1 DEF Inv, CountedOnce, Counted
  <2>6. ASSUME ~shifted' PROVE Ahead'
    <3>1. \A u \in always.like : u \in Range(loaded) \/ LikeAhead(u)'
      BY <1>1, <1>2, <1>3, <2>1, <2>6 DEF LikeAhead
    <3> QED BY <1>1, <1>2, <2>1, <3>1 DEF Ahead
  <2> QED BY <1>2, <2>2, <2>3, <2>4, <2>5, <2>6 DEF Inv
<1>5. CASE LastPage(items, total) /\ Truncated(items, total)
  <2>1. Fail
    BY <1>5 DEF LikesPage
  <2> QED BY <1>1, <2>1, FailStep
<1>6. CASE LastPage(items, total) /\ ~Truncated(items, total)
  <2>1. StartPaging /\ EndLikes(map)
    BY <1>6 DEF LikesPage
  <2>2. offset' = 0 /\ likeProfiles' = <<>>
    BY <2>1 DEF StartPaging
  <2>3. \A i \in DOMAIN post.likes : i <= offset + Len(items)
    BY <1>6, PagesEnd DEF Inv, Types, PostTypes
  <2>4. ~shifted => \A u \in always.like : u \in Range(loaded)
    <3> SUFFICES ASSUME ~shifted, NEW u \in always.like
                 PROVE  u \in Range(loaded)
      OBVIOUS
    <3>1. PICK i \in DOMAIN post.likes : post.likes[i] = u
      BY DEF Inv, Still, Range
    <3>2. i \in Nat /\ offset + Len(items) \in Nat /\ i <= offset + Len(items)
      BY <1>3, <2>3 DEF Inv, Types, PostTypes
    <3> QED BY <1>3, <3>1, <3>2
  <2> HIDE DEF items, loaded
  <2>5. /\ TrueMap(map) /\ DOMAIN map = Range(loaded)
        /\ \A u \in Range(loaded) : map[u].liked /\ map[u].commentsCount = 0
    BY <1>3, FromLikesIsTrue
  <2> HIDE DEF map
  <2>6. subscribed = {} /\ unchecked = {} /\ result = Nothing /\ Supported
    BY <1>1 DEF Inv, Phases
  <2>7. CASE ~rules.requireComment
    <3>1. EndFetch(map)
      BY <2>1, <2>7 DEF EndLikes
    <3>2. shifted' \in BOOLEAN
      BY <1>1 DEF Inv, Types
    <3> QED BY <1>1, <2>2, <2>4, <2>5, <2>6, <2>7, <3>1, <3>2, EndFetchStep
  <2>8. CASE rules.requireComment
    <3>1. at' = "comments" /\ participants' = map
          /\ UNCHANGED <<token, unchecked, subscribed, result>>
      BY <2>1, <2>8 DEF EndLikes
    <3>2. <<>> \in Seq(Users) /\ Range(<<>>) = {}
      BY DEF Range
    <3>3. Types'
      BY <1>1, <1>2, <2>2, <2>5, <2>6, <3>1, <3>2 DEF Inv, Types, TrueMap
    <3>4. Phases'
      BY <1>2, <2>6, <2>8, <3>1 DEF Phases
    <3>5. Happened'
      BY <1>2, <2>2, <2>5, <3>1, <3>2 DEF Inv, Happened, TrueMap
    <3>6. CountedOnce'
      <4> SUFFICES ASSUME NEW u \in Users
                   PROVE  /\ CommentsBy(post, u) <= made[u] /\ Counted(u)' <= made[u]
                          /\ Counted(u)' + Cardinality(CommentsLeft(u)') <= made[u]
        BY <1>2 DEF CountedOnce
      <4>1. CommentsBy(post, u) <= made[u] /\ made[u] \in Nat
        BY DEF Inv, Types, CountedOnce
      <4>2. Counted(u)' = 0
        BY <2>5, <3>1 DEF Counted
      <4>3. CommentsLeft(u)' = {i \in DOMAIN post.comments : post.comments[i] = u}
        <5>1. DOMAIN post.comments = 1..Len(post.comments)
          BY DEF Inv, Types, PostTypes
        <5> QED BY <1>2, <2>2, <5>1 DEF CommentsLeft
      <4>4. CommentsLeft(u)' \in SUBSET DOMAIN post.comments
        BY <4>3
      <4>5. Cardinality(CommentsLeft(u)') \in Nat
        BY <4>4, FinitePlaces DEF Inv, Types, PostTypes
      <4>6. Cardinality(CommentsLeft(u)') <= made[u]
        BY <4>1, <4>3 DEF CommentsBy
      <4> QED BY <4>1, <4>2, <4>5, <4>6
    <3>7. ASSUME ~shifted' PROVE Ahead'
      <4>1. DOMAIN post.comments = 1..Len(post.comments) /\ Len(post.comments) \in Nat
        BY DEF Inv, Types, PostTypes
      <4>2. \A u : CommentAhead(u)'
        BY <1>2, <2>2, <4>1 DEF CommentAhead
      <4>3. \A u \in always.like : HasLiked(u)'
        BY <1>1, <2>4, <2>5, <3>1, <3>7 DEF HasLiked
      <4> QED BY <1>2, <2>2, <3>1, <4>1, <4>2, <4>3 DEF Ahead
    <3> QED BY <1>2, <3>3, <3>4, <3>5, <3>6, <3>7 DEF Inv
  <2> QED BY <2>7, <2>8
<1> QED BY <1>4, <1>5, <1>6

(* The places of a page with comments of u.                                  *)
By(items, u) == {i \in DOMAIN items : items[i] = u}

(* What a page of comments adds to the value of one user.                    *)
LEMMA WithCommentsValue ==
  ASSUME NEW old \in MapValues, NEW n \in Nat,
         NEW new, new = [old EXCEPT !.commented = @ \/ n > 0, !.commentsCount = @ + n]
  PROVE  /\ new \in MapValues /\ (new.liked <=> old.liked)
         /\ (new.commented <=> old.commented \/ n > 0)
         /\ new.commentsCount = old.commentsCount + n
<1>1. DOMAIN old = {"liked", "commented", "commentsCount"} /\ old.commentsCount \in Nat
      /\ old.liked \in BOOLEAN
  BY DEF MapValues
<1>2. new.liked = old.liked
  BY <1>1
<1>3. new.commented = (old.commented \/ n > 0)
  BY <1>1
<1>4. new.commentsCount = old.commentsCount + n
  BY <1>1
<1>5. new = [f \in {"liked", "commented", "commentsCount"} |-> new[f]]
  BY <1>1
<1>6. new.commented \in BOOLEAN /\ new.commentsCount \in Nat
  BY <1>1, <1>3, <1>4
<1>7. new \in MapValues
  BY <1>1, <1>2, <1>5, <1>6 DEF MapValues
<1> QED BY <1>2, <1>3, <1>4, <1>7

(* What a page of comments adds to the map.                                  *)
LEMMA WithCommentsAdds ==
  ASSUME NEW S, NEW map, map \in [DOMAIN map -> MapValues], NEW items \in Seq(S)
  PROVE  LET new == WithComments(map, items)
         IN /\ DOMAIN new = DOMAIN map \cup (Range(items) \cap Users)
            /\ \A u \in DOMAIN new :
                 /\ new[u] \in MapValues /\ Existing(map, u) \in MapValues
                 /\ new[u].liked <=> Existing(map, u).liked
                 /\ new[u].commented <=> Existing(map, u).commented \/ u \in Range(items)
                 /\ new[u].commentsCount
                      = Existing(map, u).commentsCount + Cardinality(By(items, u))
                 /\ u \in Range(items) => Cardinality(By(items, u)) > 0
<1> DEFINE new == WithComments(map, items)
<1>1. DOMAIN new = DOMAIN map \cup (Range(items) \cap Users)
  BY DEF WithComments
<1>2. ASSUME NEW u \in DOMAIN new
      PROVE  /\ new[u] \in MapValues /\ Existing(map, u) \in MapValues
             /\ new[u].liked <=> Existing(map, u).liked
             /\ new[u].commented <=> Existing(map, u).commented \/ u \in Range(items)
             /\ new[u].commentsCount
                  = Existing(map, u).commentsCount + Cardinality(By(items, u))
             /\ u \in Range(items) => Cardinality(By(items, u)) > 0
  <2> DEFINE n == Cardinality(By(items, u))
             old == Existing(map, u)
  <2>1. new[u] = [old EXCEPT !.commented = @ \/ n > 0, !.commentsCount = @ + n]
    BY <1>1 DEF WithComments, By
  <2>2. old \in MapValues
    BY DEF Existing, NotInMap, MapValues
  <2>3. IsFiniteSet(By(items, u)) /\ n \in Nat
    BY FinitePlaces DEF By
  <2>4. n > 0 <=> By(items, u) # {}
    <3>1. n = 0 <=> By(items, u) = {}
      BY <2>3, FS_EmptySet
    <3> QED BY <2>3, <3>1
  <2>5. By(items, u) # {} <=> u \in Range(items)
    BY DEF By, Range
  <2> HIDE DEF new, old, n
  <2>6. /\ new[u] \in MapValues /\ (new[u].liked <=> old.liked)
        /\ (new[u].commented <=> old.commented \/ n > 0)
        /\ new[u].commentsCount = old.commentsCount + n
    BY <2>1, <2>2, <2>3, WithCommentsValue
  <2> QED BY <2>2, <2>4, <2>5, <2>6 DEF old, n
<1> QED BY <1>1, <1>2

(* A page of comments is counted once, and leaves nobody behind.             *)
LEMMA CommentsLoaded ==
  ASSUME Inv, at = "comments"
  PROVE  LET items == PageOf(post.comments)
             map == WithComments(participants, items)
             end == offset + Len(items)
             Left(u) == {i \in DOMAIN post.comments : i > end /\ post.comments[i] = u}
         IN /\ end \in Nat /\ (end <= Len(post.comments) \/ shifted)
            /\ TrueMap(map)
            /\ \A u \in DOMAIN map : map[u].commentsCount + Cardinality(Left(u)) <= made[u]
            /\ \A u \in Users \ DOMAIN map : Cardinality(Left(u)) <= made[u]
            /\ \A u : HasLiked(u) => u \in DOMAIN map /\ map[u].liked
            /\ ~shifted => \A u \in always.comment :
                 \/ u \in DOMAIN map /\ map[u].commented /\ map[u].commentsCount > 0
                 \/ \A i \in DOMAIN post.comments : post.comments[i] = u => i > end
<1> DEFINE items == PageOf(post.comments)
           l == post.comments
           map == WithComments(participants, items)
           end == offset + Len(items)
           Left(u) == {i \in DOMAIN l : i > end /\ l[i] = u}
           Authors == Users \cup Communities
<1> HIDE DEF Authors
<1>1. /\ l \in Seq(Authors) /\ offset \in Nat /\ DOMAIN l = 1..Len(l) /\ Len(l) \in Nat
      /\ DOMAIN participants \subseteq Users /\ IsFiniteSet(DOMAIN participants)
      /\ participants \in [DOMAIN participants -> MapValues]
      /\ made \in [Users -> Nat]
  BY DEF Inv, Types, PostTypes, Authors
<1>2. /\ items \in Seq(Authors) /\ Len(items) \in Nat /\ DOMAIN items = 1..Len(items)
      /\ \A k \in 1..Len(items) : offset + k \in 1..Len(l) /\ items[k] = l[offset + k]
  BY <1>1, PageIsNextPart
<1> HIDE DEF items
<1>3. /\ DOMAIN map = DOMAIN participants \cup (Range(items) \cap Users)
      /\ \A u \in DOMAIN map :
           /\ map[u] \in MapValues /\ Existing(participants, u) \in MapValues
           /\ map[u].liked <=> Existing(participants, u).liked
           /\ map[u].commented <=> Existing(participants, u).commented \/ u \in Range(items)
           /\ map[u].commentsCount
                = Existing(participants, u).commentsCount + Cardinality(By(items, u))
           /\ u \in Range(items) => Cardinality(By(items, u)) > 0
  BY <1>1, <1>2, WithCommentsAdds
<1>4. map \in [DOMAIN map -> MapValues]
  <2>1. map = [u \in DOMAIN map |-> map[u]]
    BY DEF WithComments
  <2> HIDE DEF map
  <2> QED BY <1>3, <2>1
<1> HIDE DEF map
<1>5. /\ IsFiniteSet(DOMAIN map) /\ DOMAIN map \subseteq Users
  <2> DEFINE R == Range(items) \cap Users
  <2>1. IsFiniteSet(R)
    BY <1>2, RangeFinite, FS_Intersection
  <2>2. DOMAIN map = DOMAIN participants \cup R /\ R \subseteq Users
    BY <1>3
  <2> HIDE DEF R
  <2> QED BY <1>1, <2>1, <2>2, FS_Union
<1>6. Range(items) \subseteq Range(l)
  BY <1>1, <1>2 DEF Range
<1>7. \A u : Existing(participants, u) =
            IF u \in DOMAIN participants THEN participants[u] ELSE NotInMap
  BY DEF Existing
<1>8. ~NotInMap.liked /\ ~NotInMap.commented /\ NotInMap.commentsCount = 0
  BY DEF NotInMap
<1>9. \A u \in DOMAIN map : /\ map[u].liked => u \in ever.like
                            /\ map[u].commented => u \in ever.comment
  <2> TAKE u \in DOMAIN map
  <2>1. u \in Range(items) => u \in ever.comment
    BY <1>5, <1>6 DEF Inv, Happened
  <2>2. /\ Existing(participants, u).liked => u \in ever.like
        /\ Existing(participants, u).commented => u \in ever.comment
    BY <1>7, <1>8 DEF Inv, Happened
  <2> QED BY <1>3, <2>1, <2>2
<1>10. \A u \in Users : /\ Counted(u) + Cardinality(CommentsLeft(u)) <= made[u]
                        /\ Counted(u) \in Nat /\ made[u] \in Nat
                        /\ Cardinality(CommentsLeft(u)) \in Nat /\ IsFiniteSet(CommentsLeft(u))
  <2> TAKE u \in Users
  <2>1. CommentsLeft(u) \in SUBSET DOMAIN l
    BY DEF CommentsLeft
  <2>2. Counted(u) \in Nat
    BY DEF Counted, Inv, Types, MapValues
  <2> QED BY <1>1, <2>1, <2>2, FinitePlaces DEF Inv, CountedOnce
<1>11. ASSUME NEW u \in Users
       PROVE  /\ Cardinality(By(items, u)) + Cardinality(Left(u)) <= Cardinality(CommentsLeft(u))
              /\ Cardinality(By(items, u)) \in Nat /\ Cardinality(Left(u)) \in Nat
  <2> DEFINE B == By(items, u)
             N == {i \in CommentsLeft(u) : i <= end}
             L == Left(u)
             C == CommentsLeft(u)
  <2>1. C = {i \in DOMAIN l : i > offset /\ l[i] = u}
    BY DEF CommentsLeft
  <2>2. IsFiniteSet(C) /\ Cardinality(C) \in Nat
    BY <1>10
  <2>3. /\ N \cup L = C /\ N \cap L = {} /\ N \in SUBSET C /\ L \in SUBSET C
    <3>1. \A i \in DOMAIN l : i \in Nat /\ (i > end => i > offset) /\ (i <= end <=> ~(i > end))
      BY <1>1, <1>2
    <3> QED BY <2>1, <3>1
  <2>4. B \in SUBSET DOMAIN items
    BY DEF By
  <2>5. IsFiniteSet(B) /\ Cardinality(B) \in Nat
    BY <1>2, <2>4, FinitePlaces
  <2>6. \A k \in B : offset + k \in N
    BY <1>1, <1>2, <2>1 DEF By
  <2>7. \A j, k \in B : offset + j = offset + k => j = k
    BY <1>1, <1>2 DEF By
  <2> HIDE DEF B, N, L, C
  <2>8. /\ IsFiniteSet(N) /\ IsFiniteSet(L) /\ Cardinality(N) \in Nat /\ Cardinality(L) \in Nat
    BY <2>2, <2>3, FS_Subset, FS_CardinalityType
  <2>9. Cardinality(B) <= Cardinality(N)
    <3> DEFINE f == [k \in B |-> offset + k]
    <3>1. f \in [B -> N] /\ \A x, y \in B : f[x] = f[y] => x = y
      BY <2>6, <2>7
    <3> HIDE DEF f
    <3> QED BY <2>8, <3>1, NoMoreThan
  <2>10. Cardinality(C) = Cardinality(N) + Cardinality(L)
    <3>1. Cardinality(N \cup L) = Cardinality(N) + Cardinality(L) - Cardinality(N \cap L)
      BY <2>8, FS_Union
    <3>2. Cardinality({}) = 0
      BY FS_EmptySet
    <3>3. Cardinality(C) = Cardinality(N) + Cardinality(L) - 0
      BY <2>3, <3>1, <3>2
    <3> QED BY <2>8, <3>3
  <2>11. Cardinality(B) + Cardinality(L) <= Cardinality(C)
    BY <2>2, <2>5, <2>8, <2>9, <2>10
  <2> QED BY <2>5, <2>8, <2>11 DEF B, L, C
<1>12. \A u \in DOMAIN map : /\ map[u].commentsCount + Cardinality(Left(u)) <= made[u]
                             /\ map[u].commentsCount \in Nat
  <2> TAKE u \in DOMAIN map
  <2>1. Existing(participants, u).commentsCount = Counted(u)
    BY <1>7, <1>8 DEF Counted
  <2>2. map[u].commentsCount = Counted(u) + Cardinality(By(items, u)) /\ u \in Users
    BY <1>3, <1>5, <2>1
  <2> HIDE DEF Left
  <2> QED BY <1>10, <1>11, <2>2
<1>13. TrueMap(map)
  <2>1. \A u \in DOMAIN map : map[u].commentsCount <= made[u]
    <3> TAKE u \in DOMAIN map
    <3>1. u \in Users
      BY <1>5
    <3> HIDE DEF Left
    <3> QED BY <1>10, <1>11, <1>12, <3>1
  <2> QED BY <1>4, <1>5, <1>9, <2>1 DEF TrueMap
<1>14. \A u \in Users \ DOMAIN map : Cardinality(Left(u)) <= made[u]
  <2> TAKE u \in Users \ DOMAIN map
  <2> HIDE DEF Left
  <2> QED BY <1>10, <1>11
<1>15. \A u : HasLiked(u) => u \in DOMAIN map /\ map[u].liked
  BY <1>3, <1>7 DEF HasLiked
<1>16. end \in Nat /\ (end <= Len(l) \/ shifted)
  <2>1. offset <= Len(l) \/ shifted
    BY DEF Inv, Ahead
  <2>2. CASE Len(items) = 0
    BY <1>1, <1>2, <2>1, <2>2
  <2>3. CASE Len(items) # 0
    <3>1. Len(items) \in 1..Len(items)
      BY <1>2, <2>3
    <3> QED BY <1>1, <1>2, <3>1
  <2> QED BY <2>2, <2>3
<1>17. ASSUME ~shifted, NEW u \in always.comment
       PROVE  \/ u \in DOMAIN map /\ map[u].commented /\ map[u].commentsCount > 0
              \/ \A i \in DOMAIN l : l[i] = u => i > end
  <2>1. u \in Users
    BY DEF Inv, Types, Doings
  <2>0. Cardinality(By(items, u)) \in Nat
    <3> HIDE DEF Left
    <3> QED BY <1>11, <2>1
  <2>2. CASE HasCommented(u)
    <3>1. u \in DOMAIN map /\ Existing(participants, u) = participants[u]
          /\ participants[u].commentsCount \in Nat /\ participants[u].commentsCount > 0
      BY <1>3, <1>7, <2>2 DEF HasCommented, Inv, Types, MapValues
    <3>2. map[u].commentsCount = participants[u].commentsCount + Cardinality(By(items, u))
      BY <1>3, <3>1
    <3>3. map[u].commentsCount > 0
      BY <2>0, <3>1, <3>2
    <3>4. map[u].commented
      BY <1>3, <2>2, <3>1 DEF HasCommented
    <3> QED BY <3>1, <3>3, <3>4
  <2>3. CASE u \in Range(items)
    <3>1. u \in DOMAIN map /\ Existing(participants, u).commentsCount \in Nat
      BY <1>3, <2>1, <2>3 DEF MapValues
    <3>2. /\ map[u].commentsCount
               = Existing(participants, u).commentsCount + Cardinality(By(items, u))
          /\ Cardinality(By(items, u)) > 0
      BY <1>3, <2>3, <3>1
    <3>3. map[u].commentsCount > 0
      BY <2>0, <3>1, <3>2
    <3> QED BY <1>3, <2>3, <3>1, <3>3
  <2>4. CASE ~HasCommented(u) /\ u \notin Range(items)
    <3> SUFFICES ASSUME NEW i \in DOMAIN l, l[i] = u
                 PROVE  i > end
      OBVIOUS
    <3>1. i > offset
      BY <1>17, <2>4 DEF Inv, Ahead, CommentAhead
    <3>2. ASSUME i <= end
          PROVE  FALSE
      <4>1. i - offset \in 1..Len(items) /\ offset + (i - offset) = i
        BY <1>1, <1>2, <3>1, <3>2
      <4>2. items[i - offset] = u
        BY <1>2, <4>1
      <4> QED BY <1>2, <2>4, <4>1, <4>2 DEF Range
    <3> QED BY <1>1, <1>2, <3>2
  <2> QED BY <2>2, <2>3, <2>4
<1> HIDE DEF end, Left
<1> QED BY <1>12, <1>13, <1>14, <1>15, <1>16, <1>17 DEF items, map, end, Left

(* A page of comments: the next one, the end of the list, or the ceiling.    *)
LEMMA CommentsPageStep ==
  ASSUME Inv, CommentsPage PROVE Inv'
<1> DEFINE items == PageOf(post.comments)
           map == WithComments(participants, items)
           total == Len(post.comments)
           end == offset + Len(items)
           Left(u) == {i \in DOMAIN post.comments : i > end /\ post.comments[i] = u}
<1>1. at = "comments" /\ UNCHANGED <<atVk, asked>> /\ shifted' = shifted
  BY DEF CommentsPage
<1>2. /\ post' = post /\ ever' = ever /\ always' = always /\ made' = made
      /\ rules' = rules /\ group' = group /\ Still' /\ Supported'
      /\ \A u : CommentsBy(post, u)' = CommentsBy(post, u)
  BY <1>1, PostStays DEF Inv, Phases
<1>3. /\ end \in Nat /\ (end <= Len(post.comments) \/ shifted)
      /\ TrueMap(map)
      /\ \A u \in DOMAIN map : map[u].commentsCount + Cardinality(Left(u)) <= made[u]
      /\ \A u \in Users \ DOMAIN map : Cardinality(Left(u)) <= made[u]
      /\ \A u : HasLiked(u) => u \in DOMAIN map /\ map[u].liked
      /\ ~shifted => \A u \in always.comment :
           \/ u \in DOMAIN map /\ map[u].commented /\ map[u].commentsCount > 0
           \/ \A i \in DOMAIN post.comments : post.comments[i] = u => i > end
  BY <1>1, CommentsLoaded
<1>4. subscribed = {} /\ unchecked = {} /\ result = Nothing /\ Supported /\ rules.requireComment
  BY <1>1 DEF Inv, Phases
<1>5. ~shifted => (rules.requireLike => \A u \in always.like : u \in DOMAIN map /\ map[u].liked)
  BY <1>1, <1>3 DEF Inv, Ahead
<1>6. CASE ~LastPage(items, total)
  <2>1. /\ offset' = end /\ participants' = map
        /\ UNCHANGED <<at, token, likeProfiles, unchecked, subscribed, result>>
    BY <1>6 DEF CommentsPage, NextOffset
  <2>2. \A u : CommentsLeft(u)' = Left(u)
    BY <1>2, <2>1 DEF CommentsLeft
  <2>3. \A u : (\A i \in DOMAIN post.comments : post.comments[i] = u => i > end) => CommentAhead(u)'
    BY <1>2, <2>1 DEF CommentAhead
  <2> HIDE DEF items, map, end, Left
  <2>4. Types'
    BY <1>1, <1>2, <1>3, <1>4, <2>1 DEF Inv, Types, TrueMap
  <2>5. Phases'
    BY <1>1, <1>2, <1>4, <2>1 DEF Inv, Phases
  <2>6. Happened'
    BY <1>2, <1>3, <2>1 DEF Inv, Happened, TrueMap
  <2>7. CountedOnce'
    <3> SUFFICES ASSUME NEW u \in Users
                 PROVE  /\ CommentsBy(post, u) <= made[u] /\ Counted(u)' <= made[u]
                        /\ Counted(u)' + Cardinality(Left(u)) <= made[u]
      BY <1>2, <2>2 DEF CountedOnce
    <3>1. CommentsBy(post, u) <= made[u] /\ made[u] \in Nat
      BY DEF Inv, Types, CountedOnce
    <3>2. CASE u \in DOMAIN map
      BY <1>3, <2>1, <3>1, <3>2 DEF Counted, TrueMap
    <3>3. CASE u \notin DOMAIN map
      <4>1. Counted(u)' = 0
        BY <2>1, <3>3 DEF Counted
      <4>2. Left(u) \in SUBSET DOMAIN post.comments
        BY DEF Left
      <4>3. Cardinality(Left(u)) \in Nat
        BY <4>2, FinitePlaces DEF Inv, Types, PostTypes
      <4> QED BY <1>3, <3>1, <3>3, <4>1, <4>3
    <3> QED BY <3>2, <3>3
  <2>8. ASSUME ~shifted' PROVE Ahead'
    <3>1. \A u : HasCommented(u)' <=>
            u \in DOMAIN map /\ map[u].commented /\ map[u].commentsCount > 0
      BY <2>1 DEF HasCommented
    <3>2. \A u : HasLiked(u)' <=> u \in DOMAIN map /\ map[u].liked
      BY <2>1 DEF HasLiked
    <3>3. \A u \in always.comment : HasCommented(u)' \/ CommentAhead(u)'
      BY <1>1, <1>3, <2>3, <2>8, <3>1
    <3>4. rules.requireLike => \A u \in always.like : HasLiked(u)'
      BY <1>1, <1>5, <2>8, <3>2
    <3>5. offset' <= Len(post.comments)
      BY <1>1, <1>3, <2>1, <2>8
    <3> QED BY <1>1, <1>2, <2>1, <3>3, <3>4, <3>5 DEF Ahead
  <2> QED BY <1>2, <2>4, <2>5, <2>6, <2>7, <2>8 DEF Inv
<1>7. CASE LastPage(items, total) /\ Truncated(items, total)
  <2>1. Fail
    BY <1>7 DEF CommentsPage
  <2> QED BY <1>1, <2>1, FailStep
<1>8. CASE LastPage(items, total) /\ ~Truncated(items, total)
  <2>1. StartPaging /\ EndFetch(map)
    BY <1>8 DEF CommentsPage
  <2>2. offset' \in Nat /\ likeProfiles' = <<>> /\ shifted' \in BOOLEAN
    BY <1>1, <2>1 DEF StartPaging, Inv, Types
  <2>3. \A i \in DOMAIN post.comments : i <= end
    <3> DEFINE Authors == Users \cup Communities
    <3>1. post.comments \in Seq(Authors) /\ offset \in Nat
      BY DEF Inv, Types, PostTypes
    <3> HIDE DEF Authors
    <3> QED BY <1>8, <3>1, PagesEnd
  <2>4. ~shifted => \A u \in always.comment :
          u \in DOMAIN map /\ map[u].commented /\ map[u].commentsCount > 0
    <3> SUFFICES ASSUME ~shifted, NEW u \in always.comment
                 PROVE  u \in DOMAIN map /\ map[u].commented /\ map[u].commentsCount > 0
      OBVIOUS
    <3>1. PICK i \in DOMAIN post.comments : post.comments[i] = u
      BY DEF Inv, Still, Range
    <3>2. i \in Nat /\ i <= end
      BY <2>3 DEF Inv, Types, PostTypes
    <3> HIDE DEF end, map, Left
    <3> QED BY <1>3, <3>1, <3>2
  <2> HIDE DEF map, end, Left
  <2> QED BY <1>1, <1>3, <1>4, <1>5, <2>1, <2>2, <2>4, EndFetchStep
<1> QED BY <1>6, <1>7, <1>8

(* A chunk of memberships: whoever is a member is called one or still to be asked.*)
LEMMA MembersChunkStep ==
  ASSUME Inv, MembersChunk PROVE Inv'
<1>1. /\ at = "subscriptions" /\ UNCHANGED <<atVk, asked>> /\ shifted' = shifted
      /\ UNCHANGED <<token, paging, participants>>
  BY DEF MembersChunk
<1>2. /\ post' = post /\ ever' = ever /\ always' = always /\ made' = made
      /\ rules' = rules /\ group' = group /\ Still' /\ Supported'
      /\ \A u : CommentsBy(post, u)' = CommentsBy(post, u)
  BY <1>1, PostStays DEF Inv, Phases
<1>3. PICK chunk \in SUBSET unchecked :
        /\ unchecked' = unchecked \ chunk
        /\ subscribed' = subscribed \cup (chunk \cap post.members)
  BY DEF MembersChunk, kSubset
<1>4. \/ unchecked' = {} /\ Report(participants, subscribed')
      \/ unchecked' # {} /\ UNCHANGED <<at, result>>
  BY DEF MembersChunk
<1>5. at' \in {"subscriptions", "done"}
  BY <1>1, <1>4 DEF Report
<1>6. Types'
  BY <1>1, <1>2, <1>3, <1>5 DEF Inv, Types, PostTypes, paging
<1>7. Phases'
  BY <1>1, <1>2, <1>4, <1>5 DEF Inv, Phases, Report
<1>8. Happened'
  BY <1>1, <1>2, <1>3 DEF Inv, Happened, paging
<1>9. CountedOnce'
  BY <1>1, <1>2, <1>5 DEF Inv, CountedOnce, Counted
<1>10. ASSUME ~shifted' PROVE Ahead'
  <2>1. \A u : HasLiked(u)' = HasLiked(u) /\ HasCommented(u)' = HasCommented(u)
    BY <1>1 DEF HasLiked, HasCommented
  <2>2. always.member \cap DOMAIN participants \subseteq unchecked' \cup subscribed'
    BY <1>1, <1>3, <1>10 DEF Inv, Ahead, Still
  <2>3. at' = "done" => unchecked' = {}
    BY <1>1, <1>4
  <2> QED BY <1>1, <1>2, <1>5, <1>10, <2>1, <2>2, <2>3 DEF Inv, Ahead
<1> QED BY <1>2, <1>6, <1>7, <1>8, <1>9, <1>10 DEF Inv

(* A call fails: again, over again with the other token, or for good.        *)
LEMMA CallFailsStep ==
  ASSUME Inv, NEW error \in Categories, CallFails(error) PROVE Inv'
<1>1. /\ Calling /\ UNCHANGED <<atVk, asked>> /\ shifted' = shifted
  BY DEF CallFails
<1>2. /\ post' = post /\ ever' = ever /\ always' = always /\ made' = made
      /\ rules' = rules /\ group' = group /\ Still' /\ (Supported <=> Supported')
      /\ \A u : CommentsBy(post, u)' = CommentsBy(post, u)
  BY <1>1, PostStays DEF Inv
<1>3. at \in {"likes", "comments", "subscriptions"}
  BY <1>1 DEF Calling
<1>4. CASE MayRetry(error)
  <2>1. UNCHANGED <<at, token, paging, participants, unchecked, subscribed, result>>
    BY <1>4 DEF CallFails
  <2>2. Types'
    BY <1>1, <1>2, <2>1 DEF Inv, Types, paging
  <2>3. Phases'
    BY <1>2, <2>1 DEF Inv, Phases
  <2>4. Happened'
    BY <1>2, <2>1 DEF Inv, Happened, paging
  <2>5. CountedOnce'
    BY <1>2, <2>1 DEF Inv, CountedOnce, Counted, CommentsLeft, paging
  <2>6. Ahead => Ahead'
    BY <1>2, <2>1 DEF Ahead, HasLiked, HasCommented, LikeAhead, CommentAhead, paging
  <2> QED BY <1>1, <1>2, <2>2, <2>3, <2>4, <2>5, <2>6 DEF Inv
<1>5. CASE ~MayRetry(error) /\ MayFallBack(error)
  <2>1. /\ at' = "fallback" /\ at \in {"likes", "comments"}
        /\ UNCHANGED <<paging, participants, unchecked, subscribed, result>>
    BY <1>5 DEF CallFails, MayFallBack
  <2>2. Types'
    BY <1>1, <1>2, <2>1 DEF Inv, Types, paging
  <2>3. Phases'
    BY <1>2, <2>1 DEF Inv, Phases
  <2>4. Happened'
    BY <1>2, <2>1 DEF Inv, Happened, paging
  <2>5. CountedOnce'
    BY <1>2, <2>1 DEF Inv, CountedOnce, Counted
  <2>6. Ahead'
    BY <2>1 DEF Ahead
  <2> QED BY <1>2, <2>2, <2>3, <2>4, <2>5, <2>6 DEF Inv
<1>6. CASE ~MayRetry(error) /\ ~MayFallBack(error)
  <2>1. Fail
    BY <1>6 DEF CallFails
  <2> QED BY <1>1, <1>3, <2>1, FailStep
<1> QED BY <1>4, <1>5, <1>6

(* Every step keeps the invariant.                                           *)
LEMMA StepKeepsInv == ASSUME Inv, [Next]_vars PROVE Inv'
<1>1. CASE Like
  BY <1>1, LikeStep
<1>2. CASE Unlike
  BY <1>2, UnlikeStep
<1>3. CASE Comment
  BY <1>3, CommentStep
<1>4. CASE DeleteComment
  BY <1>4, DeleteCommentStep
<1>5. CASE JoinOrLeave
  BY <1>5, JoinOrLeaveStep
<1>6. CASE Start
  <2>1. at = "start" /\ UNCHANGED <<atVk, asked>>
    BY <1>6 DEF Start
  <2>2. CASE Supported
    BY <1>6, <2>1, <2>2, StartFetchStep DEF Start
  <2>3. CASE ~Supported
    <3>1. Fail /\ shifted' = shifted
      BY <1>6, <2>3 DEF Start
    <3> QED BY <2>1, <3>1, FailStep
  <2> QED BY <2>2, <2>3
<1>7. CASE Fallback
  <2>1. at = "fallback" /\ UNCHANGED <<atVk, asked>> /\ StartFetch("USER")
    BY <1>7 DEF Fallback
  <2>2. Supported
    BY <2>1 DEF Inv, Phases
  <2> QED BY <2>1, <2>2, StartFetchStep
<1>8. CASE NoFallback
  BY <1>8, FailStep DEF NoFallback
<1>9. CASE \E error \in Categories : CallFails(error)
  BY <1>9, CallFailsStep
<1>10. CASE LikesPage
  BY <1>10, LikesPageStep
<1>11. CASE CommentsPage
  BY <1>11, CommentsPageStep
<1>12. CASE MembersChunk
  BY <1>12, MembersChunkStep
<1>13. CASE UNCHANGED vars
  <2>1. /\ post' = post /\ ever' = ever /\ always' = always /\ made' = made
        /\ rules' = rules /\ group' = group /\ at' = at /\ offset' = offset
        /\ likeProfiles' = likeProfiles /\ participants' = participants
        /\ unchecked' = unchecked /\ subscribed' = subscribed /\ result' = result
        /\ shifted' = shifted
    BY <1>13 DEF vars, atVk, asked, paging
  <2>2. Types' /\ Phases' /\ Happened' /\ Still'
    BY <2>1 DEF Inv, Types, Phases, Happened, Still, Supported
  <2>3. CountedOnce'
    BY <2>1 DEF Inv, CountedOnce, Counted, CommentsLeft, CommentsBy
  <2>4. Ahead => Ahead'
    BY <2>1 DEF Ahead, HasLiked, HasCommented, LikeAhead, CommentAhead
  <2> QED BY <2>1, <2>2, <2>3, <2>4 DEF Inv
<1> QED
  BY <1>1, <1>2, <1>3, <1>4, <1>5, <1>6, <1>7, <1>8, <1>9, <1>10, <1>11, <1>12, <1>13
  DEF Next, AtVk, Import

(* An import begins where the invariant holds.                               *)
LEMMA InitInv == ASSUME Init PROVE Inv
<1> USE DEF Init
<1>1. post \in PostTypes /\ rules \in RuleSets
  BY ImportAssumption DEF PostTypes
<1>2. post.likes \in Seq(Users) /\ post.comments \in Seq(Users \cup Communities)
      /\ post.members \in SUBSET Users
  BY <1>1 DEF PostTypes
<1>3. /\ ever.like = Range(post.likes) /\ ever.comment = Range(post.comments) \cap Users
      /\ ever.member = post.members /\ ever \in Doings /\ always = ever
  <2>1. Range(post.likes) \subseteq Users
    BY <1>2, RangeOfSeq
  <2> QED BY <1>2, <2>1 DEF Acts, Doings
<1>4. \A u \in Users : CommentsBy(post, u) \in Nat
  <2> TAKE u \in Users
  <2>1. {i \in DOMAIN post.comments : post.comments[i] = u} \in SUBSET DOMAIN post.comments
    OBVIOUS
  <2> QED BY <1>2, <2>1, FinitePlaces DEF CommentsBy
<1>5. made \in [Users -> Nat] /\ \A u \in Users : made[u] = CommentsBy(post, u)
  BY <1>4
<1>6. <<>> \in Seq(Users) /\ Range(<<>>) = {} /\ participants = EmptyMap
  BY DEF Range, EmptyMap
<1>7. Types
  BY <1>1, <1>3, <1>5, <1>6, EmptyMapIsTrue DEF Types, TrueMap
<1>8. Phases
  BY DEF Phases
<1>9. Happened
  BY <1>3, <1>6, EmptyMapIsTrue DEF Happened
<1>10. CountedOnce
  BY <1>4, <1>5, <1>6, EmptyMapIsTrue DEF CountedOnce, Counted
<1>11. Still
  BY <1>3 DEF Still
<1>12. Ahead
  BY DEF Ahead
<1> QED BY <1>7, <1>8, <1>9, <1>10, <1>11, <1>12 DEF Inv

(* The invariant holds in every state of every import (fetchParticipants).   *)
THEOREM Invariance == Spec => []Inv
<1>1. Init => Inv
  BY InitInv
<1>2. Inv /\ [Next]_vars => Inv'
  BY StepKeepsInv
<1> QED BY <1>1, <1>2, PTL DEF Spec

-----------------------------------------------------------------------------
(* What the filter engine is given.                                          *)
Imported == RawParticipants(participants, subscribed)

(* The records of an import: one for every user in the map.                  *)
LEMMA ImportedRecords ==
  ASSUME Types, NEW Names, NoName \in Names
  PROVE  LET n == Cardinality(DOMAIN participants)
         IN /\ n \in Nat /\ Imported \in [1..n -> RawRecords(Users, Names)]
            /\ \A i \in 1..n : /\ Imported[i].id \in DOMAIN participants
                               /\ Imported[i] =
                                     RawParticipant(participants, subscribed, Imported[i].id)
            /\ \A u \in DOMAIN participants : \E i \in 1..n : Imported[i].id = u
<1> DEFINE D == DOMAIN participants
           n == Cardinality(D)
           ids == SetToSeq(D)
<1>1. IsFiniteSet(D) /\ n \in Nat /\ D \subseteq Users /\ participants \in [D -> MapValues]
  BY FS_CardinalityType DEF Types
<1>2. \E f \in [1..n -> D] : IsInjective(f)
  <2>1. ExistsBijection(1..n, D)
    BY <1>1, FS_CardinalityType
  <2> QED BY <2>1 DEF ExistsBijection, Bijection, Injection
<1>3. ids \in [1..n -> D] /\ IsInjective(ids)
  BY <1>2 DEF SetToSeq
<1> HIDE DEF ids
<1>4. ids \in Surjection(1..n, D)
  <2>1. ids \in Injection(1..n, D)
    BY <1>3 DEF Injection
  <2>2. Cardinality(1..n) = n
    BY <1>1, FS_Interval
  <2> QED BY <1>1, <2>1, <2>2, FS_Injection
<1>5. Imported = [i \in 1..n |-> RawParticipant(participants, subscribed, ids[i])]
  <2>1. DOMAIN ids = 1..n
    BY <1>3
  <2> QED BY <2>1 DEF Imported, RawParticipants, ids
<1> HIDE DEF n
<1>6. ASSUME NEW u \in D
      PROVE  /\ RawParticipant(participants, subscribed, u) \in RawRecords(Users, Names)
             /\ RawParticipant(participants, subscribed, u).id = u
  <2>1. participants[u] \in MapValues /\ u \in Users
    BY <1>1
  <2>2. IsSubscribed(subscribed, u) \in BOOLEAN
    BY DEF IsSubscribed
  <2> QED BY <2>1, <2>2 DEF RawParticipant, RawRecords, RecordsOf, MapValues
<1>7. \A i \in 1..n : ids[i] \in D /\ Imported[i] = RawParticipant(participants, subscribed, ids[i])
                      /\ Imported[i].id = ids[i]
  BY <1>3, <1>5, <1>6
<1>8. Imported \in [1..n -> RawRecords(Users, Names)]
  BY <1>3, <1>5, <1>6
<1>9. \A u \in D : \E i \in 1..n : Imported[i].id = u
  BY <1>4, <1>7 DEF Surjection
<1> QED BY <1>1, <1>7, <1>8, <1>9 DEF n

(* Of what was imported, the rules are met by those in the map who did it.   *)
LEMMA ImportedMeets ==
  ASSUME Types, NEW u \in DOMAIN participants
  PROVE  /\ Did(Imported, u, LAMBDA p : p.liked) <=> participants[u].liked
         /\ Did(Imported, u, LAMBDA p : p.commented) <=> participants[u].commented
         /\ Did(Imported, u, LAMBDA p : p.subscribed) <=> u \in subscribed
         /\ Did(Imported, u, LAMBDA p : IF p.commentsCount = NoCount THEN p.commented
                                        ELSE p.commentsCount > 0)
              <=> participants[u].commentsCount > 0
         /\ FirstOf(Imported, u).username = NoName
         /\ u \in {p.id : p \in Range(Imported)}
<1> DEFINE n == Cardinality(DOMAIN participants)
<1>1. /\ n \in Nat /\ DOMAIN Imported = 1..n
      /\ \A i \in 1..n : /\ Imported[i].id \in DOMAIN participants
                         /\ Imported[i] = RawParticipant(participants, subscribed, Imported[i].id)
      /\ \E i \in 1..n : Imported[i].id = u
  BY ImportedRecords
<1> HIDE DEF n
<1>2. \A w : /\ RawParticipant(participants, subscribed, w).liked = participants[w].liked
             /\ RawParticipant(participants, subscribed, w).commented = participants[w].commented
             /\ RawParticipant(participants, subscribed, w).commentsCount
                  = participants[w].commentsCount
             /\ RawParticipant(participants, subscribed, w).subscribed = (w \in subscribed)
             /\ RawParticipant(participants, subscribed, w).username = NoName
  BY DEF RawParticipant, IsSubscribed
<1>3. participants[u].commentsCount \in Nat
  BY DEF Types, MapValues
<1>4. Did(Imported, u, LAMBDA p : p.liked) <=> participants[u].liked
  BY <1>1, <1>2 DEF Did, Range
<1>5. Did(Imported, u, LAMBDA p : p.commented) <=> participants[u].commented
  BY <1>1, <1>2 DEF Did, Range
<1>6. Did(Imported, u, LAMBDA p : p.subscribed) <=> u \in subscribed
  BY <1>1, <1>2 DEF Did, Range
<1>7. Did(Imported, u, LAMBDA p : IF p.commentsCount = NoCount THEN p.commented
                                  ELSE p.commentsCount > 0)
        <=> participants[u].commentsCount > 0
  BY <1>1, <1>2, <1>3, FilterAssumption DEF Did, Range
<1>8. \A i \in 1..n : Imported[i].username = NoName
  BY <1>1, <1>2
<1>9. FirstOf(Imported, u).username = NoName
  <2> DEFINE First(i) == Imported[i].id = u /\ \A j \in 1..(i - 1) : Imported[j].id # u
             T == {i \in 1..n : Imported[i].id = u}
  <2>1. T \subseteq Nat /\ T # {}
    BY <1>1
  <2>2. PICK i \in T : \A j \in T : i <= j
    BY <2>1, LeastNumber
  <2>3. i \in 1..n /\ First(i)
    <3>1. \A j \in 1..(i - 1) : j \in 1..n /\ ~(i <= j)
      BY <1>1, <2>2
    <3> QED BY <2>2, <3>1
  <2> HIDE DEF First, T
  <2>4. (CHOOSE k \in 1..n : First(k)) \in 1..n
    BY <2>3
  <2>5. FirstOf(Imported, u) = Imported[CHOOSE k \in 1..n : First(k)]
    BY <1>1 DEF FirstOf, First
  <2> QED BY <1>8, <2>4, <2>5
<1>10. u \in {p.id : p \in Range(Imported)}
  BY <1>1 DEF Range
<1> QED BY <1>4, <1>5, <1>6, <1>7, <1>9, <1>10

(* The invariant implies the three properties.                               *)
LEMMA InvOneChance == Inv => OneChanceEach
<1> SUFFICES ASSUME Inv PROVE OneChanceEach
  OBVIOUS
<1> DEFINE Names == {NoName} \cup rules.excludeBlacklistedIds
           n == Cardinality(DOMAIN participants)
<1>1. NoName \in Names /\ \A b \in rules.excludeBlacklistedIds : b \in Names
  OBVIOUS
<1>2. FurtherRecords \subseteq RawRecords(Users, Names)
  <2> DEFINE Counts == {0, 1, NoCount}
             AllCounts == Nat \cup {NoCount}
  <2>1. Counts \subseteq AllCounts /\ {FALSE} \subseteq BOOLEAN
    OBVIOUS
  <2>2. FurtherRecords = [id : Users, username : Names, liked : BOOLEAN, commented : BOOLEAN,
                          commentsCount : Counts, reposted : {FALSE}, subscribed : BOOLEAN,
                          isAdmin : {FALSE}]
    BY DEF FurtherRecords
  <2>3. RawRecords(Users, Names) = RecordsOf(Users, Names, AllCounts)
    BY DEF RawRecords
  <2> HIDE DEF Counts, AllCounts, Names
  <2> QED BY <2>1, <2>2, <2>3 DEF RecordsOf
<1> HIDE DEF Names
<1>3. n \in Nat /\ Imported \in [1..n -> RawRecords(Users, Names)]
  BY <1>1, ImportedRecords DEF Inv
<1> HIDE DEF n
<1>4. AgreesWithReference(Imported, rules)
  BY <1>3, OneChance
<1>5. ASSUME NEW p \in FurtherRecords
      PROVE  AgreesWithReference(Append(Imported, p), rules)
  <2>1. p \in RawRecords(Users, Names) /\ Imported \in Seq(RawRecords(Users, Names))
        /\ Len(Imported) = n
    BY <1>2, <1>3
  <2> DEFINE R == RawRecords(Users, Names)
             more == Append(Imported, p)
  <2> HIDE DEF R
  <2>3. more \in Seq(R) /\ Len(more) = n + 1
    BY <2>1, AppendProperties DEF R
  <2> HIDE DEF more
  <2>2. n + 1 \in Nat /\ more \in [1..(n + 1) -> R]
    BY <1>3, <2>3
  <2> USE DEF R, more
  <2> QED BY <2>2, OneChance
<1> QED BY <1>4, <1>5 DEF OneChanceEach, Imported

(* Who is eligible: those in the map who meet the rules.                     *)
LEMMA EligibleWho ==
  ASSUME Inv, at = "done"
  PROVE  \A u : (\E p \in Range(result.eligible) : p.id = u)
                   <=> u \in DOMAIN participants /\ MeetsRules(Imported, rules, u)
<1> DEFINE users == {p.id : p \in Range(Imported)}
           list == result.eligible
           n == Cardinality(DOMAIN participants)
<1>1. result = ApplyFilterRules(Imported, rules)
  BY DEF Inv, Phases, Imported
<1>2. AgreesWithReference(Imported, rules)
  BY InvOneChance DEF OneChanceEach, Imported
<1>3. ListsOnce(list, {u \in users : MeetsRules(Imported, rules, u)})
  BY <1>1, <1>2 DEF AgreesWithReference
<1>4. \A u : u \in users <=> u \in DOMAIN participants
  <2>1. \A u \in DOMAIN participants : u \in users
    BY ImportedMeets DEF Inv
  <2>2. DOMAIN Imported = 1..n /\ \A i \in 1..n : Imported[i].id \in DOMAIN participants
    <3>1. NoName \in {NoName}
      OBVIOUS
    <3> QED BY <3>1, ImportedRecords DEF Inv
  <2> QED BY <2>1, <2>2 DEF Range
<1>5. {u \in users : MeetsRules(Imported, rules, u)} = {list[i].id : i \in DOMAIN list}
  BY <1>3 DEF ListsOnce, Range
<1>6. \A u : (\E p \in Range(list) : p.id = u) <=> u \in {list[i].id : i \in DOMAIN list}
  BY DEF Range
<1> HIDE DEF users, list
<1> QED BY <1>4, <1>5, <1>6 DEF list

LEMMA InvEarned == Inv => EligibleEarnedIt
<1> SUFFICES ASSUME Inv PROVE EligibleEarnedIt
  OBVIOUS
<1>1. \A u \in DOMAIN participants : participants[u].commentsCount <= made[u]
  BY DEF Inv, Types, CountedOnce, Counted
<1>2. ASSUME NEW p \in Range(result.eligible)
      PROVE  /\ rules.requireLike => p.id \in ever.like
             /\ rules.requireComment => p.id \in ever.comment
             /\ rules.requireSubscription => p.id \in ever.member
             /\ p.id \notin rules.excludeBlacklistedIds
  <2>1. at = "done"
    <3> SUFFICES ASSUME at # "done" PROVE FALSE
      OBVIOUS
    <3>1. result.eligible = <<>>
      BY DEF Inv, Phases, Nothing
    <3> QED BY <1>2, <3>1 DEF Range
  <2>2. p.id \in DOMAIN participants /\ MeetsRules(Imported, rules, p.id)
    BY <2>1, EligibleWho
  <2>3. /\ rules.requireLike => participants[p.id].liked
        /\ rules.requireComment => participants[p.id].commented
        /\ rules.requireSubscription => p.id \in subscribed
        /\ p.id \notin rules.excludeBlacklistedIds
    BY <2>2, ImportedMeets DEF MeetsRules, Inv
  <2> QED BY <2>2, <2>3 DEF Inv, Happened
<1> QED BY <1>1, <1>2 DEF EligibleEarnedIt

LEMMA InvMissed == Inv => NobodyMissed
<1> SUFFICES ASSUME Inv, at = "done", ~shifted, NEW u \in Users, MetRulesThroughout(u)
             PROVE  \E p \in Range(result.eligible) : p.id = u
  BY DEF NobodyMissed
<1>1. /\ rules.requireLike => HasLiked(u)
      /\ rules.requireComment => HasCommented(u)
      /\ rules.requireSubscription => group /\ u \in always.member
      /\ rules.requireLike \/ rules.requireComment
      /\ u \notin rules.excludeBlacklistedIds
  BY DEF Inv, Ahead, MetRulesThroughout
<1>2. u \in DOMAIN participants
  BY <1>1 DEF HasLiked, HasCommented
<1>3. rules.requireSubscription => u \in subscribed
  BY <1>1, <1>2 DEF Inv, Ahead
<1>4. ~rules.requireRepost /\ ~rules.excludeAdmins
  BY DEF Inv, Phases, Supported
<1>5. MeetsRules(Imported, rules, u)
  BY <1>1, <1>2, <1>3, <1>4, ImportedMeets DEF MeetsRules, HasLiked, HasCommented, Inv
<1> QED BY <1>2, <1>5, EligibleWho

(* Whoever is eligible did at some time all that the rules require, and no comment*)
(* is counted twice, whatever failed, was retried or started over, for all posts,*)
(* rules, page sizes and ceilings (executeFetchParticipants, checkSubscription).*)
THEOREM EarnedTheirChance == Spec => []EligibleEarnedIt
BY Invariance, InvEarned, PTL

(* An import that succeeds missed nobody who met the rules while it ran, unless*)
(* something was removed from pages already read (fetchPaginatedVk).         *)
THEOREM NobodyIsMissed == Spec => []NobodyMissed
BY Invariance, InvMissed, PTL

(* Of every import, and with any further record, each user has one chance if the*)
(* records together meet the rules and none otherwise (applyFilterRules).    *)
THEOREM OneChancePerUser == Spec => []OneChanceEach
BY Invariance, InvOneChance, PTL
==============================================================================
