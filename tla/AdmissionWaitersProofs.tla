------------------------- MODULE AdmissionWaitersProofs -------------------------
(***************************************************************************)
(* Theorems about the remembered refusals, for every number of connections, *)
(* spaces and principals and every limit.                                  *)
(*                                                                         *)
(* What a loop of the class does is known from what one of its rounds does  *)
(* by induction on the rounds: were some round the first to break a fact,   *)
(* the round before it would not have.                                     *)
(***************************************************************************)
EXTENDS AdmissionWaiters, TLAPS, WellFoundedInduction, FiniteSetTheorems

-----------------------------------------------------------------------------
(* The inductive invariant                                                 *)

Edits == [adds : BOOLEAN, key : Keys, entry : Pairs]

\* The indexes hold the same entries, each once, and no more than the limit.
Sound(w) ==
  /\ w = [byConnection |-> w.byConnection, bySpace |-> w.bySpace]
  /\ w.byConnection \in [Keys -> Seq(Pairs)]
  /\ w.bySpace \in [Spaces -> [Keys -> SUBSET Principals]]
  /\ \A k \in Keys :
       /\ IsInjective(w.byConnection[k])
       /\ Len(w.byConnection[k]) <= Limit
       /\ \A s \in Spaces, p \in Principals :
            Entry(s, p) \in EntriesOf(w, k) <=> p \in w.bySpace[s][k]

Typed ==
  /\ Sound(waiters)
  /\ up \subseteq Connections /\ stale \subseteq Spaces
  /\ auth \in [Connections -> SUBSET Principals]
  /\ sessions \in [Connections -> SUBSET Pairs]
  /\ lapsed \in [Connections -> SUBSET Pairs]
  /\ granted \in [Spaces -> SUBSET Principals]
  /\ notice \subseteq Connections \X Spaces \X Principals

ClosedEmpty == \A c \in Connections \ up : EntriesOf(waiters, c) = {} /\ Registered(c) = {}

\* Only a principal its space does not admit waits, until the list is stale.
Unadmitted ==
  \A k \in Keys, s \in Spaces, p \in Principals :
    Entry(s, p) \in EntriesOf(waiters, k) /\ s \notin stale => p \notin granted[s]

IInv == Typed /\ ClosedEmpty /\ Unadmitted

-----------------------------------------------------------------------------
(* Sequences and finite sets                                               *)

\* Membership in a sequence, by index.
LEMMA RangeIs ==
  ASSUME NEW S, NEW s \in Seq(S), NEW x
  PROVE  x \in Range(s) <=> \E i \in 1..Len(s) : s[i] = x
BY DEF Range

\* Appending.
LEMMA AppendIs ==
  ASSUME NEW S, NEW s \in Seq(S), NEW x \in S
  PROVE  /\ Append(s, x) \in Seq(S) /\ Len(Append(s, x)) = Len(s) + 1
         /\ \A i \in 1..Len(s) : Append(s, x)[i] = s[i]
         /\ Append(s, x)[Len(s) + 1] = x
         /\ Range(Append(s, x)) = Range(s) \cup {x}
<1>1. /\ Append(s, x) \in Seq(S) /\ Len(Append(s, x)) = Len(s) + 1
      /\ \A i \in 1..Len(s) : Append(s, x)[i] = s[i]
      /\ Append(s, x)[Len(s) + 1] = x
  OBVIOUS
<1> DEFINE t == Append(s, x)
<1>2. /\ t \in Seq(S) /\ Len(t) = Len(s) + 1 /\ Len(s) \in Nat
      /\ \A i \in 1..Len(s) : t[i] = s[i]
      /\ t[Len(s) + 1] = x
  BY <1>1
<1> HIDE DEF t
<1>3. ASSUME NEW z PROVE z \in Range(t) <=> z \in Range(s) \cup {x}
  <2>1. z \in Range(t) <=> \E i \in 1..(Len(s) + 1) : t[i] = z
    BY <1>2, RangeIs
  <2>2. z \in Range(s) <=> \E i \in 1..Len(s) : s[i] = z
    BY RangeIs
  <2> QED
    BY <1>2, <2>1, <2>2
<1> QED
  BY <1>1, <1>3 DEF t

\* A sequence without one of its elements: the others keep their places in line.
LEMMA WithoutIs ==
  ASSUME NEW S, NEW s \in Seq(S), NEW z
  PROVE  /\ Without(s, z) \in Seq(S)
         /\ Range(Without(s, z)) \subseteq Range(s)
         /\ Range(s) \subseteq Range(Without(s, z)) \cup {z}
         /\ \/ Without(s, z) = s /\ z \notin Range(s)
            \/ \E k \in 1..Len(s) :
                 /\ s[k] = z /\ Len(Without(s, z)) = Len(s) - 1
                 /\ \A i \in 1..(Len(s) - 1) :
                      Without(s, z)[i] = IF i < k THEN s[i] ELSE s[i + 1]
<1>1. CASE z \notin Range(s)
  BY <1>1 DEF Without
<1>2. CASE z \in Range(s)
  <2> DEFINE k == CHOOSE i \in DOMAIN s : s[i] = z
             u == SubSeq(s, 1, k - 1)
             v == SubSeq(s, k + 1, Len(s))
             t == u \o v
  <2>1. k \in 1..Len(s) /\ s[k] = z /\ Len(s) \in Nat
    BY <1>2 DEF Range
  <2>2. Without(s, z) = t
    BY <1>2 DEF Without, RemoveAt
  <2> HIDE DEF k
  <2>3. u \in Seq(S) /\ Len(u) = k - 1 /\ \A i \in 1..(k - 1) : u[i] = s[i]
    BY <2>1
  <2>4. v \in Seq(S) /\ Len(v) = Len(s) - k /\ \A i \in 1..(Len(s) - k) : v[i] = s[k + i]
    <3>1. v \in Seq(S)
      BY <2>1
    <3>2. Len(v) = Len(s) - k
      BY <2>1
    <3>3. \A i \in 1..(Len(s) - k) : v[i] = s[(k + 1) + i - 1]
      BY <2>1
    <3>4. \A i \in 1..(Len(s) - k) : (k + 1) + i - 1 = k + i
      BY <2>1
    <3> QED
      BY <3>1, <3>2, <3>3, <3>4
  <2> HIDE DEF u, v
  <2>5. /\ t \in Seq(S) /\ Len(t) = Len(u) + Len(v)
        /\ \A i \in 1..Len(t) : t[i] = IF i <= Len(u) THEN u[i] ELSE v[i - Len(u)]
    <3>1. u \in Seq(S) /\ v \in Seq(S)
      BY <2>3, <2>4
    <3> QED
      BY <3>1
  <2>6. Len(t) = Len(s) - 1
    BY <2>1, <2>3, <2>4, <2>5
  <2> HIDE DEF t
  <2>7. ASSUME NEW i \in 1..(Len(s) - 1) PROVE t[i] = IF i < k THEN s[i] ELSE s[i + 1]
    <3>1. CASE i < k
      BY <2>1, <2>3, <2>5, <2>6, <3>1
    <3>2. CASE ~ (i < k)
      <4>1. i - (k - 1) \in 1..(Len(s) - k) /\ k + (i - (k - 1)) = i + 1 /\ ~ (i <= k - 1)
        BY <2>1, <3>2
      <4>2. v[i - (k - 1)] = s[i + 1]
        BY <2>4, <4>1
      <4>3. t[i] = v[i - (k - 1)]
        BY <2>3, <2>5, <2>6, <4>1
      <4> QED
        BY <3>2, <4>2, <4>3
    <3> QED
      BY <3>1, <3>2
  <2>8. Range(t) \subseteq Range(s)
    <3>1. ASSUME NEW x \in Range(t) PROVE x \in Range(s)
      <4>1. PICK i \in 1..(Len(s) - 1) : t[i] = x
        BY <2>5, <2>6, RangeIs
      <4>2. (i \in 1..Len(s) /\ s[i] = x) \/ (i + 1 \in 1..Len(s) /\ s[i + 1] = x)
        BY <2>1, <2>7, <4>1
      <4> QED
        BY <4>2, RangeIs
    <3> QED
      BY <3>1
  <2>9. Range(s) \subseteq Range(t) \cup {z}
    <3>1. ASSUME NEW x \in Range(s), x # z PROVE x \in Range(t)
      <4>1. PICK i \in 1..Len(s) : s[i] = x
        BY RangeIs
      <4>2. i # k
        BY <2>1, <3>1, <4>1
      <4>3. CASE i < k
        <5>1. i \in 1..(Len(s) - 1) /\ t[i] = x
          BY <2>1, <2>7, <4>1, <4>3
        <5> QED
          BY <2>5, <2>6, <5>1, RangeIs
      <4>4. CASE i > k
        <5>1. i - 1 \in 1..(Len(s) - 1) /\ ~ (i - 1 < k) /\ (i - 1) + 1 = i
          BY <2>1, <4>1, <4>4
        <5>2. t[i - 1] = x
          BY <2>7, <4>1, <5>1
        <5> QED
          BY <2>5, <2>6, <5>1, <5>2, RangeIs
      <4> QED
        BY <2>1, <4>1, <4>2, <4>3, <4>4
    <3> QED
      BY <3>1
  <2> QED
    BY <2>1, <2>2, <2>5, <2>6, <2>7, <2>8, <2>9
<1> QED
  BY <1>1, <1>2

\* Taking the head off.
LEMMA TailIs ==
  ASSUME NEW S, NEW s \in Seq(S), s # <<>>
  PROVE  /\ Head(s) \in S /\ Tail(s) \in Seq(S)
         /\ Range(s) = {Head(s)} \cup Range(Tail(s))
         /\ IsInjective(s) => IsInjective(Tail(s)) /\ Head(s) \notin Range(Tail(s))
<1> DEFINE t == Tail(s)
           h == Head(s)
<1>1. /\ Len(s) \in Nat /\ Len(s) > 0 /\ Len(t) = Len(s) - 1 /\ t \in Seq(S) /\ h \in S
      /\ \A i \in 1..(Len(s) - 1) : t[i] = s[i + 1]
      /\ h = s[1]
  OBVIOUS
<1>2. DOMAIN t = 1..(Len(s) - 1) /\ DOMAIN s = 1..Len(s)
  BY <1>1
<1> HIDE DEF t, h
<1>3. \A z : z \in Range(s) <=> \E i \in 1..Len(s) : s[i] = z
  BY RangeIs
<1>4. \A z : z \in Range(t) <=> \E i \in 1..(Len(s) - 1) : t[i] = z
  BY <1>1, RangeIs
<1>5. ASSUME NEW z PROVE z \in Range(s) <=> z = h \/ z \in Range(t)
  <2>1. ASSUME z \in Range(s), z # h PROVE z \in Range(t)
    <3>1. PICK i \in 1..Len(s) : s[i] = z
      BY <1>3, <2>1
    <3>2. i - 1 \in 1..(Len(s) - 1) /\ (i - 1) + 1 = i
      BY <1>1, <2>1, <3>1
    <3>3. t[i - 1] = z
      BY <1>1, <3>1, <3>2
    <3> QED
      BY <1>4, <3>2, <3>3
  <2>2. ASSUME z \in Range(t) PROVE z \in Range(s)
    <3>1. PICK i \in 1..(Len(s) - 1) : t[i] = z
      BY <1>4, <2>2
    <3>2. i + 1 \in 1..Len(s) /\ s[i + 1] = z
      BY <1>1, <3>1
    <3> QED
      BY <1>3, <3>2
  <2>3. h \in Range(s)
    BY <1>1, <1>3
  <2> QED
    BY <2>1, <2>2, <2>3
<1>6. ASSUME IsInjective(s) PROVE IsInjective(t) /\ h \notin Range(t)
  <2>1. ASSUME NEW i \in 1..(Len(s) - 1), NEW j \in 1..(Len(s) - 1), t[i] = t[j] PROVE i = j
    <3>1. i + 1 \in 1..Len(s) /\ j + 1 \in 1..Len(s) /\ s[i + 1] = s[j + 1]
      BY <1>1, <2>1
    <3>2. i + 1 = j + 1
      BY <1>2, <1>6, <3>1 DEF IsInjective
    <3> QED
      BY <3>2
  <2>2. ASSUME NEW i \in 1..(Len(s) - 1), t[i] = h PROVE FALSE
    <3>1. i + 1 \in 1..Len(s) /\ 1 \in 1..Len(s) /\ s[i + 1] = s[1]
      BY <1>1, <2>2
    <3>2. i + 1 = 1
      BY <1>2, <1>6, <3>1 DEF IsInjective
    <3> QED
      BY <3>2
  <2> QED
    BY <1>2, <1>4, <2>1, <2>2 DEF IsInjective
<1> QED
  BY <1>1, <1>5, <1>6 DEF t, h

\* Appending what is not there yet keeps a sequence free of repetition.
LEMMA OnceAppend ==
  ASSUME NEW S, NEW s \in Seq(S), NEW z \in S, IsInjective(s), z \notin Range(s)
  PROVE  IsInjective(Append(s, z))
<1> DEFINE t == Append(s, z)
<1>1. /\ t \in Seq(S) /\ Len(t) = Len(s) + 1 /\ Len(s) \in Nat
      /\ \A i \in 1..Len(s) : t[i] = s[i]
      /\ t[Len(s) + 1] = z
  BY AppendIs
<1>2. DOMAIN t = 1..(Len(s) + 1) /\ DOMAIN s = 1..Len(s)
  BY <1>1
<1>3. \A i \in 1..Len(s) : s[i] # z
  BY RangeIs
<1> HIDE DEF t
<1>4. ASSUME NEW i \in 1..(Len(s) + 1), NEW j \in 1..(Len(s) + 1), t[i] = t[j] PROVE i = j
  <2>1. CASE i = Len(s) + 1 /\ j # Len(s) + 1
    BY <1>1, <1>3, <1>4, <2>1
  <2>2. CASE j = Len(s) + 1 /\ i # Len(s) + 1
    BY <1>1, <1>3, <1>4, <2>2
  <2>3. CASE i # Len(s) + 1 /\ j # Len(s) + 1
    <3>1. i \in 1..Len(s) /\ j \in 1..Len(s) /\ s[i] = s[j]
      BY <1>1, <1>4, <2>3
    <3> QED
      BY <1>2, <3>1 DEF IsInjective
  <2> QED
    BY <2>1, <2>2, <2>3
<1>5. IsInjective(t)
  BY <1>2, <1>4 DEF IsInjective
<1>6. IsInjective(Append(s, z))
  BY <1>5 DEF t
<1> QED
  BY <1>6

\* Taking an element out of a sequence free of repetition.
LEMMA OnceWithout ==
  ASSUME NEW S, NEW s \in Seq(S), NEW z, IsInjective(s)
  PROVE  IsInjective(Without(s, z)) /\ z \notin Range(Without(s, z))
<1> DEFINE t == Without(s, z)
<1>1. /\ t \in Seq(S) /\ Len(s) \in Nat
      /\ \/ t = s /\ z \notin Range(s)
         \/ \E k \in 1..Len(s) :
              /\ s[k] = z /\ Len(t) = Len(s) - 1
              /\ \A i \in 1..(Len(s) - 1) : t[i] = IF i < k THEN s[i] ELSE s[i + 1]
  BY WithoutIs
<1>2. DOMAIN s = 1..Len(s) /\ DOMAIN t = 1..Len(t)
  BY <1>1
<1>3. CASE t = s /\ z \notin Range(s)
  BY <1>3
<1>4. CASE ~ (t = s /\ z \notin Range(s))
  <2>5. PICK m \in 1..Len(s) :
          /\ s[m] = z /\ Len(t) = Len(s) - 1
          /\ \A i \in 1..(Len(s) - 1) : t[i] = IF i < m THEN s[i] ELSE s[i + 1]
    BY <1>1, <1>4
  <2> HIDE DEF t
  <2> DEFINE at(i) == IF i < m THEN i ELSE i + 1
  <2>6. \A i \in 1..(Len(s) - 1) : at(i) \in 1..Len(s) /\ at(i) # m /\ t[i] = s[at(i)]
    BY <1>1, <2>5
  <2>7. \A i, j \in 1..(Len(s) - 1) : at(i) = at(j) => i = j
    BY <1>1
  <2> HIDE DEF at
  <2>8. \A i, j \in 1..(Len(s) - 1) : t[i] = t[j] => i = j
    BY <1>2, <2>6, <2>7 DEF IsInjective
  <2>9. \A i \in 1..(Len(s) - 1) : t[i] # z
    BY <1>2, <2>5, <2>6 DEF IsInjective
  <2>10. IsInjective(t)
    BY <1>2, <2>5, <2>8 DEF IsInjective
  <2>11. z \notin Range(t)
    BY <1>1, <2>5, <2>9, RangeIs
  <2> QED
    BY <2>10, <2>11 DEF t
<1> QED
  BY <1>3, <1>4

\* A nonempty set of naturals has a least element.
LEMMA LeastOf ==
  ASSUME NEW T \in SUBSET Nat, T # {}
  PROVE  \E x \in T : \A y \in T : x <= y
<1> DEFINE R == OpToRel(<, Nat)
<1>1. IsWellFoundedOn(R, Nat)
  BY NatLessThanWellFounded
<1>2. \A x, y \in Nat : y < x => <<y, x>> \in R
  BY DEF OpToRel
<1> HIDE DEF R
<1>3. PICK x \in T : \A y \in T : ~ (<<y, x>> \in R)
  BY <1>1, WFMin
<1>4. \A y \in T : ~ (y < x)
  BY <1>2, <1>3, Zenon
<1> QED
  BY <1>4

\* A finite set's elements in some order.
LEMMA OrderIs ==
  ASSUME NEW S, IsFiniteSet(S)
  PROVE  SetToSeq(S) \in Seq(S) /\ Range(SetToSeq(S)) = S
<1> DEFINE n == Cardinality(S)
           f == SetToSeq(S)
<1>1. n \in Nat /\ ExistsBijection(1..n, S)
  BY FS_CardinalityType
<1>2. \E g \in [1..n -> S] : IsInjective(g)
  BY <1>1 DEF ExistsBijection, Bijection, Injection, IsInjective
<1>3. f \in [1..n -> S] /\ IsInjective(f)
  BY <1>2 DEF SetToSeq
<1> HIDE DEF f
<1>4. f \in Injection(1..n, S)
  BY <1>3 DEF Injection, IsInjective
<1>5. IsFiniteSet(1..n) /\ Cardinality(1..n) = n
  BY <1>1, FS_Interval
<1>6. f \in Surjection(1..n, S)
  BY <1>4, <1>5, FS_Injection
<1>7. f \in Seq(S)
  BY <1>1, <1>3
<1>8. Range(f) = S
  BY <1>3, <1>6 DEF Range, Surjection
<1> QED
  BY <1>7, <1>8 DEF f

\* A sequence without repetition has as many elements as places.
LEMMA OnceCount ==
  ASSUME NEW S, NEW s \in Seq(S)
  PROVE  /\ IsFiniteSet(Range(s))
         /\ IsInjective(s) => Cardinality(Range(s)) = Len(s)
<1> DEFINE n == Len(s)
<1>1. n \in Nat /\ DOMAIN s = 1..n
  OBVIOUS
<1>2. IsFiniteSet(1..n) /\ Cardinality(1..n) = n
  BY <1>1, FS_Interval
<1>3. s \in Surjection(1..n, Range(s))
  BY <1>1 DEF Surjection, Range
<1>4. IsFiniteSet(Range(s))
  BY <1>2, <1>3, FS_Surjection
<1>5. ASSUME IsInjective(s) PROVE Cardinality(Range(s)) = n
  <2>1. s \in Injection(1..n, Range(s))
    BY <1>1, <1>3, <1>5 DEF Injection, Surjection, IsInjective
  <2> QED
    BY <1>2, <1>3, <2>1, FS_Surjection
<1> QED
  BY <1>4, <1>5

\* The map of a function on a finite set.
LEMMA RemovalsFinite ==
  ASSUME NEW gone \in SUBSET (Keys \X Pairs)
  PROVE  /\ IsFiniteSet({Removal(t[1], t[2]) : t \in gone})
         /\ {Removal(t[1], t[2]) : t \in gone} \subseteq Edits
<1> DEFINE T == {Removal(t[1], t[2]) : t \in gone}
           f == [t \in gone |-> Removal(t[1], t[2])]
<1>1. IsFiniteSet(Keys)
  BY WaitersAssumption, FS_Union DEF Keys
<1>2. IsFiniteSet(Pairs)
  BY WaitersAssumption, FS_Product DEF Pairs
<1>3. IsFiniteSet(gone)
  BY <1>1, <1>2, FS_Product, FS_Subset
<1>4. f \in Surjection(gone, T)
  BY DEF Surjection
<1>5. IsFiniteSet(T)
  BY <1>3, <1>4, FS_Surjection
<1>6. ASSUME NEW t \in gone PROVE Removal(t[1], t[2]) \in Edits
  <2>1. t[1] \in Keys /\ t[2] \in Pairs
    OBVIOUS
  <2> QED
    BY <2>1 DEF Removal, Edits
<1> QED
  BY <1>5, <1>6

-----------------------------------------------------------------------------
(* One round                                                               *)

\* Changing one cell of a table.
LEMMA CellIs ==
  ASSUME NEW A, NEW B, NEW C, NEW f \in [A -> [B -> C]], NEW a \in A, NEW b \in B, NEW v,
         NEW g, g = [f EXCEPT ![a][b] = v]
  PROVE  \A x \in A, y \in B : g[x][y] = IF x = a /\ y = b THEN v ELSE f[x][y]
OBVIOUS

\* An entry and its two halves.
LEMMA EntryIs ==
  /\ \A s \in Spaces, p \in Principals : Entry(s, p) \in Pairs
  /\ \A s, p, t, q : Entry(s, p) = Entry(t, q) <=> s = t /\ p = q
  /\ \A e \in Pairs : e[1] \in Spaces /\ e[2] \in Principals /\ e = Entry(e[1], e[2])
BY DEF Entry, Pairs

\* The indexes z are w without the entry e of k's.
Shrunk(w, k, e, z) ==
  /\ Sound(z)
  /\ EntriesOf(z, k) = EntriesOf(w, k) \ {e}
  /\ \A j \in Keys : j # k => z.byConnection[j] = w.byConnection[j]

\* The indexes z are w with the entry e of k's; if another one went, k had no
\* room.
Grown(w, k, e, z) ==
  /\ Sound(z)
  /\ e \in EntriesOf(z, k)
  /\ EntriesOf(z, k) \subseteq EntriesOf(w, k) \cup {e}
  /\ \A j \in Keys : j # k => z.byConnection[j] = w.byConnection[j]
  /\ Len(w.byConnection[k]) = Limit => Len(z.byConnection[k]) = Limit
  /\ \/ EntriesOf(w, k) \subseteq EntriesOf(z, k)
     \/ /\ e \notin EntriesOf(w, k)
        /\ Len(w.byConnection[k]) = Limit /\ Len(z.byConnection[k]) = Limit

\* Removing: the entry goes, the others stay.
LEMMA RemoveIs ==
  ASSUME NEW w, Sound(w), NEW k \in Keys, NEW s \in Spaces, NEW p \in Principals
  PROVE  Shrunk(w, k, Entry(s, p), RemoveEntry(w, k, s, p))
<1>0. PICK z : z = RemoveEntry(w, k, s, p)
  OBVIOUS
<1> SUFFICES Shrunk(w, k, Entry(s, p), z)
  BY <1>0
<1> DEFINE e == Entry(s, p)
           old == w.byConnection[k]
           new == Without(old, e)
<1>1. CASE e \notin EntriesOf(w, k)
  BY <1>0, <1>1 DEF RemoveEntry, Shrunk
<1>2. CASE e \in EntriesOf(w, k)
  <2>1. /\ w = [byConnection |-> w.byConnection, bySpace |-> w.bySpace]
        /\ w.byConnection \in [Keys -> Seq(Pairs)]
        /\ w.bySpace \in [Spaces -> [Keys -> SUBSET Principals]]
    BY DEF Sound
  <2>2. old \in Seq(Pairs) /\ IsInjective(old) /\ Len(old) <= Limit
    BY <2>1 DEF Sound
  <2>3. /\ z.byConnection = [w.byConnection EXCEPT ![k] = new]
        /\ z.bySpace = [w.bySpace EXCEPT ![s][k] = @ \ {p}]
        /\ z = [byConnection |-> z.byConnection, bySpace |-> z.bySpace]
    <3>1. z = [w EXCEPT !.byConnection[k] = new, !.bySpace[s][k] = @ \ {p}]
      BY <1>0, <1>2 DEF RemoveEntry
    <3> HIDE DEF new
    <3> QED
      BY <2>1, <3>1
  <2>4. /\ new \in Seq(Pairs)
        /\ Range(new) \subseteq Range(old) /\ Range(old) \subseteq Range(new) \cup {e}
        /\ Len(new) <= Len(old)
    <3>1. /\ new \in Seq(Pairs)
          /\ Range(new) \subseteq Range(old) /\ Range(old) \subseteq Range(new) \cup {e}
          /\ new = old \/ Len(new) = Len(old) - 1
      BY <2>2, WithoutIs
    <3>2. Len(old) \in Nat /\ Len(new) \in Nat
      BY <2>2, <3>1
    <3> QED
      BY <3>1, <3>2
  <2>5. IsInjective(new) /\ e \notin Range(new)
    BY <2>2, OnceWithout
  <2>6. Len(new) <= Limit
    BY <2>2, <2>4, WaitersAssumption
  <2> HIDE DEF new
  <2>7. z.byConnection \in [Keys -> Seq(Pairs)] /\ z.bySpace \in [Spaces -> [Keys -> SUBSET Principals]]
    BY <2>1, <2>3, <2>4
  <2>8. z.byConnection[k] = new /\ \A j \in Keys : j # k => z.byConnection[j] = w.byConnection[j]
    BY <2>1, <2>3
  <2>9. Range(new) = Range(old) \ {e}
    BY <2>4, <2>5
  <2>10. EntriesOf(z, k) = EntriesOf(w, k) \ {e}
    BY <2>8, <2>9 DEF EntriesOf
  <2>11. ASSUME NEW j \in Keys, NEW t \in Spaces, NEW q \in Principals
         PROVE  Entry(t, q) \in EntriesOf(z, j) <=> q \in z.bySpace[t][j]
    <3>1. Entry(t, q) \in EntriesOf(w, j) <=> q \in w.bySpace[t][j]
      BY DEF Sound
    <3>2. z.bySpace[t][j] = IF t = s /\ j = k THEN w.bySpace[t][j] \ {p} ELSE w.bySpace[t][j]
      <4> DEFINE f == w.bySpace
                 g == z.bySpace
                 v == f[s][k] \ {p}
      <4>1. f \in [Spaces -> [Keys -> SUBSET Principals]]
        BY <2>1
      <4>2. g = [f EXCEPT ![s][k] = v]
        BY <2>3
      <4> HIDE DEF f, g, v
      <4>3. g[t][j] = IF t = s /\ j = k THEN v ELSE f[t][j]
        BY <4>1, <4>2, CellIs
      <4> QED
        BY <4>3 DEF f, g, v
    <3>3. CASE j = k
      <4>1. Entry(t, q) = e <=> t = s /\ q = p
        BY EntryIs
      <4> QED
        BY <2>10, <3>1, <3>2, <3>3, <4>1
    <3>4. CASE j # k
      <4>1. EntriesOf(z, j) = EntriesOf(w, j)
        BY <2>8, <3>4 DEF EntriesOf
      <4> QED
        BY <3>1, <3>2, <3>4, <4>1
    <3> QED
      BY <3>3, <3>4
  <2>12. \A j \in Keys : IsInjective(z.byConnection[j]) /\ Len(z.byConnection[j]) <= Limit
    <3>1. \A j \in Keys : IsInjective(w.byConnection[j]) /\ Len(w.byConnection[j]) <= Limit
      BY DEF Sound
    <3> QED
      BY <2>5, <2>6, <2>8, <3>1
  <2>13. Sound(z)
    BY <2>3, <2>7, <2>11, <2>12 DEF Sound
  <2> QED
    BY <2>8, <2>10, <2>13 DEF Shrunk
<1> QED
  BY <1>1, <1>2

\* Adding: the entry is there, and if another one goes the set was full.
LEMMA AddIs ==
  ASSUME NEW w, Sound(w), NEW k \in Keys, NEW s \in Spaces, NEW p \in Principals
  PROVE  Grown(w, k, Entry(s, p), AddEntry(w, k, s, p))
<1>0. PICK z : z = AddEntry(w, k, s, p)
  OBVIOUS
<1> SUFFICES Grown(w, k, Entry(s, p), z)
  BY <1>0
<1> DEFINE e == Entry(s, p)
           old == w.byConnection[k]
<1>a. /\ w = [byConnection |-> w.byConnection, bySpace |-> w.bySpace]
      /\ w.byConnection \in [Keys -> Seq(Pairs)]
      /\ w.bySpace \in [Spaces -> [Keys -> SUBSET Principals]]
  BY DEF Sound
<1>b. old \in Seq(Pairs) /\ IsInjective(old) /\ Len(old) <= Limit /\ Len(old) \in Nat
  BY <1>a DEF Sound
<1>c. Limit \in Nat /\ Limit > 0
  BY WaitersAssumption
<1>1. CASE e \in EntriesOf(w, k)
  BY <1>0, <1>1 DEF AddEntry, Grown
<1>2. CASE e \notin EntriesOf(w, k)
  <2> DEFINE full == Len(old) >= Limit
             h == Head(old)
             room == IF full THEN RemoveEntry(w, k, h[1], h[2]) ELSE w
             kept == room.byConnection[k]
             new == Append(kept, e)
  <2>1. /\ Sound(room)
        /\ \A j \in Keys : j # k => room.byConnection[j] = w.byConnection[j]
        /\ EntriesOf(room, k) = IF full THEN EntriesOf(w, k) \ {h} ELSE EntriesOf(w, k)
        /\ full => Len(kept) = Limit - 1 /\ Len(old) = Limit
        /\ ~ full => kept = old
    <3>1. CASE ~ full
      BY <3>1
    <3>2. CASE full
      <4>1. old # <<>> /\ Len(old) = Limit
        BY <1>b, <1>c, <3>2
      <4>2. h \in Pairs /\ h \in Range(old)
        BY <1>b, <4>1, TailIs
      <4>3. h[1] \in Spaces /\ h[2] \in Principals /\ h = Entry(h[1], h[2])
        BY <4>2, EntryIs
      <4>4. room = RemoveEntry(w, k, h[1], h[2])
        BY <3>2
      <4> HIDE DEF room, h
      <4>5. /\ Sound(room)
            /\ EntriesOf(room, k) = EntriesOf(w, k) \ {h}
            /\ \A j \in Keys : j # k => room.byConnection[j] = w.byConnection[j]
        <5>1. Shrunk(w, k, Entry(h[1], h[2]), room)
          BY <4>3, <4>4, RemoveIs
        <5> QED
          BY <4>3, <5>1 DEF Shrunk
      <4>6. kept \in Seq(Pairs) /\ IsInjective(kept)
        BY <4>5 DEF Sound
      <4>7. Cardinality(Range(old)) = Len(old) /\ IsFiniteSet(Range(old))
        BY <1>b, OnceCount
      <4>8. Cardinality(Range(kept)) = Len(kept)
        BY <4>6, OnceCount
      <4>9. Range(kept) = Range(old) \ {h}
        BY <4>5 DEF EntriesOf
      <4>10. Cardinality(Range(kept)) = Cardinality(Range(old)) - 1
        BY <4>2, <4>7, <4>9, FS_RemoveElement
      <4> QED
        BY <3>2, <4>1, <4>5, <4>7, <4>8, <4>10
    <3> QED
      BY <3>1, <3>2
  <2>2. z = [room EXCEPT !.byConnection[k] = Append(@, e), !.bySpace[s][k] = @ \cup {p}]
    BY <1>0, <1>2 DEF AddEntry
  <2> HIDE DEF room
  <2>3. /\ room = [byConnection |-> room.byConnection, bySpace |-> room.bySpace]
        /\ room.byConnection \in [Keys -> Seq(Pairs)]
        /\ room.bySpace \in [Spaces -> [Keys -> SUBSET Principals]]
    BY <2>1 DEF Sound
  <2>4. kept \in Seq(Pairs) /\ IsInjective(kept) /\ Len(kept) \in Nat
    BY <2>1, <2>3 DEF Sound
  <2>5. /\ z.byConnection = [room.byConnection EXCEPT ![k] = new]
        /\ z.bySpace = [room.bySpace EXCEPT ![s][k] = @ \cup {p}]
        /\ z = [byConnection |-> z.byConnection, bySpace |-> z.bySpace]
    BY <2>2, <2>3
  <2>6. e \in Pairs /\ e \notin Range(kept)
    BY <1>2, <2>1, EntryIs DEF EntriesOf
  <2>7. new \in Seq(Pairs) /\ Len(new) = Len(kept) + 1 /\ Range(new) = Range(kept) \cup {e}
    BY <2>4, <2>6, AppendIs
  <2>8. IsInjective(new)
    BY <2>4, <2>6, OnceAppend
  <2>9. Len(new) <= Limit /\ (full => Len(new) = Limit)
    BY <1>b, <1>c, <2>1, <2>4, <2>7
  <2> HIDE DEF new
  <2>10. z.byConnection \in [Keys -> Seq(Pairs)] /\ z.bySpace \in [Spaces -> [Keys -> SUBSET Principals]]
    BY <2>3, <2>5, <2>7
  <2>11. z.byConnection[k] = new /\ \A j \in Keys : j # k => z.byConnection[j] = room.byConnection[j]
    BY <2>3, <2>5
  <2>12. EntriesOf(z, k) = EntriesOf(room, k) \cup {e}
    BY <2>7, <2>11 DEF EntriesOf
  <2>13. ASSUME NEW j \in Keys, NEW t \in Spaces, NEW q \in Principals
         PROVE  Entry(t, q) \in EntriesOf(z, j) <=> q \in z.bySpace[t][j]
    <3>1. Entry(t, q) \in EntriesOf(room, j) <=> q \in room.bySpace[t][j]
      BY <2>1 DEF Sound
    <3>2. z.bySpace[t][j] = IF t = s /\ j = k THEN room.bySpace[t][j] \cup {p} ELSE room.bySpace[t][j]
      <4> DEFINE f == room.bySpace
                 g == z.bySpace
                 v == f[s][k] \cup {p}
      <4>1. f \in [Spaces -> [Keys -> SUBSET Principals]]
        BY <2>3
      <4>2. g = [f EXCEPT ![s][k] = v]
        BY <2>5
      <4> HIDE DEF f, g, v
      <4>3. g[t][j] = IF t = s /\ j = k THEN v ELSE f[t][j]
        BY <4>1, <4>2, CellIs
      <4> QED
        BY <4>3 DEF f, g, v
    <3>3. CASE j = k
      <4>1. Entry(t, q) = e <=> t = s /\ q = p
        BY EntryIs
      <4> QED
        BY <2>12, <3>1, <3>2, <3>3, <4>1
    <3>4. CASE j # k
      <4>1. EntriesOf(z, j) = EntriesOf(room, j)
        BY <2>11, <3>4 DEF EntriesOf
      <4> QED
        BY <3>1, <3>2, <3>4, <4>1
    <3> QED
      BY <3>3, <3>4
  <2>14. \A j \in Keys : IsInjective(z.byConnection[j]) /\ Len(z.byConnection[j]) <= Limit
    <3>1. \A j \in Keys : IsInjective(room.byConnection[j]) /\ Len(room.byConnection[j]) <= Limit
      BY <2>1 DEF Sound
    <3> QED
      BY <2>8, <2>9, <2>11, <3>1
  <2>15. Sound(z)
    BY <2>5, <2>10, <2>13, <2>14 DEF Sound
  <2>16. Len(old) = Limit => full /\ Len(z.byConnection[k]) = Limit
    BY <1>b, <1>c, <2>9, <2>11
  <2>17. \A j \in Keys : j # k => z.byConnection[j] = w.byConnection[j]
    BY <2>1, <2>11
  <2>18. full => Len(old) = Limit /\ Len(z.byConnection[k]) = Limit
    BY <2>1, <2>9, <2>11
  <2>19. \/ EntriesOf(w, k) \subseteq EntriesOf(z, k)
         \/ Len(old) = Limit /\ Len(z.byConnection[k]) = Limit
    BY <2>1, <2>12, <2>18
  <2>20. EntriesOf(room, k) \subseteq EntriesOf(w, k)
    BY <2>1
  <2> HIDE DEF full
  <2> QED
    BY <1>2, <2>12, <2>15, <2>16, <2>17, <2>19, <2>20 DEF Grown
<1> QED
  BY <1>1, <1>2

\* A round of a loop.
LEMMA EditIs ==
  ASSUME NEW w, Sound(w), NEW x \in Edits
  PROVE  IF x.adds THEN Grown(w, x.key, x.entry, Edit(w, x))
                   ELSE Shrunk(w, x.key, x.entry, Edit(w, x))
<1>1. x.key \in Keys /\ x.entry \in Pairs /\ x.adds \in BOOLEAN
  BY DEF Edits
<1>2. /\ x.entry[1] \in Spaces /\ x.entry[2] \in Principals
      /\ x.entry = Entry(x.entry[1], x.entry[2])
  BY <1>1, EntryIs
<1>3. CASE x.adds
  <2>1. Grown(w, x.key, Entry(x.entry[1], x.entry[2]), AddEntry(w, x.key, x.entry[1], x.entry[2]))
    BY <1>1, <1>2, AddIs
  <2> QED
    BY <1>2, <1>3, <2>1 DEF Edit
<1>4. CASE ~ x.adds
  <2>1. Shrunk(w, x.key, Entry(x.entry[1], x.entry[2]), RemoveEntry(w, x.key, x.entry[1], x.entry[2]))
    BY <1>1, <1>2, RemoveIs
  <2> QED
    BY <1>2, <1>4, <2>1 DEF Edit
<1> QED
  BY <1>1, <1>3, <1>4

-----------------------------------------------------------------------------
(* Loops                                                                   *)

\* The indexes after each round of a loop.
Rounds(w, xs, after) ==
  /\ DOMAIN after = 0..Len(xs)
  /\ after[0] = w
  /\ \A i \in 1..Len(xs) : after[i] = Edit(after[i - 1], xs[i])

\* The loop ends with what its rounds have left.
LEMMA RoundsOf ==
  ASSUME NEW w, NEW xs \in Seq(Edits)
  PROVE  \E after : Rounds(w, xs, after) /\ EditAll(w, xs) = after[Len(xs)]
<1> DEFINE Body(f, n) == [i \in 0..n |-> IF i = 0 THEN w ELSE Edit(f[i - 1], xs[i])]
           T == {n \in Nat : ~ \E f : f = Body(f, n)}
<1>0. Len(xs) \in Nat
  OBVIOUS
<1>1. \A n \in Nat : \E f : f = Body(f, n)
  <2> SUFFICES ASSUME T # {} PROVE FALSE
    OBVIOUS
  <2>1. PICK n \in T : \A m \in T : n <= m
    BY LeastOf
  <2> HIDE DEF T
  <2>2. CASE n = 0
    <3> DEFINE g == [i \in 0..0 |-> w]
    <3>1. g = Body(g, 0)
      OBVIOUS
    <3> QED
      BY <2>1, <2>2, <3>1 DEF T
  <2>3. CASE n # 0
    <3>0. n \in Nat
      BY <2>1 DEF T
    <3>1. n \in Nat /\ n - 1 \in Nat /\ n - 1 \notin T
      BY <2>1, <2>3, <3>0
    <3>2. PICK f : f = Body(f, n - 1)
      BY <3>1 DEF T
    <3> DEFINE g == [i \in 0..n |-> IF i = n THEN Edit(f[n - 1], xs[n]) ELSE f[i]]
    <3>3. \A i \in 0..(n - 1) : f[i] = IF i = 0 THEN w ELSE Edit(f[i - 1], xs[i])
      BY <3>2
    <3>4. ASSUME NEW i \in 0..n PROVE g[i] = IF i = 0 THEN w ELSE Edit(g[i - 1], xs[i])
      <4>1. CASE i = n
        <5>1. n - 1 \in 0..n /\ n - 1 # n
          BY <3>1
        <5>2. g[n - 1] = f[n - 1]
          BY <5>1
        <5> QED
          BY <2>3, <4>1, <5>2
      <4>2. CASE i # n
        <5>1. i \in 0..(n - 1)
          BY <3>1, <4>2
        <5>2. i # 0 => i - 1 \in 0..n /\ i - 1 # n /\ i - 1 \in 0..(n - 1)
          BY <3>1, <5>1
        <5>3. i # 0 => g[i - 1] = f[i - 1]
          BY <5>2
        <5>4. g[i] = f[i]
          BY <4>2
        <5> QED
          BY <3>3, <5>1, <5>3, <5>4
      <4> QED
        BY <4>1, <4>2
    <3>5. g = Body(g, n)
      BY <3>4
    <3> QED
      BY <2>1, <3>5 DEF T
  <2> QED
    BY <2>2, <2>3
<1> DEFINE after == CHOOSE f : f = Body(f, Len(xs))
<1>2. after = Body(after, Len(xs))
  BY <1>0, <1>1
<1>3. EditAll(w, xs) = after[Len(xs)]
  BY DEF EditAll
<1> HIDE DEF after
<1>4. \A i \in 0..Len(xs) : after[i] = IF i = 0 THEN w ELSE Edit(after[i - 1], xs[i])
  BY <1>2
<1>5. DOMAIN after = 0..Len(xs)
  BY <1>2
<1>6. Rounds(w, xs, after)
  BY <1>0, <1>4, <1>5 DEF Rounds
<1> QED
  BY <1>3, <1>6

\* The entries that edits add to k's.
Added(A, k) == {e \in Pairs : Addition(k, e) \in A}

\* How the indexes z relate to the indexes w they come from by the edits A.
Edited(w, z, A) ==
  /\ Sound(z)
  /\ \A k \in Keys :
       /\ EntriesOf(z, k) \subseteq EntriesOf(w, k) \cup Added(A, k)
       /\ Added(A, k) = {} =>
            EntriesOf(z, k) = {e \in EntriesOf(w, k) : Removal(k, e) \notin A}
       /\ (\A e \in Pairs : Removal(k, e) \notin A) =>
            /\ \/ EntriesOf(w, k) \cup Added(A, k) \subseteq EntriesOf(z, k)
               \/ Len(z.byConnection[k]) = Limit
            /\ \/ EntriesOf(w, k) \subseteq EntriesOf(z, k)
               \/ Cardinality(EntriesOf(w, k) \cup Added(A, k)) > Limit

\* A key's entries are as many as its map is long.
LEMMA EntriesIn ==
  ASSUME NEW w, Sound(w), NEW k \in Keys
  PROVE  /\ EntriesOf(w, k) \subseteq Pairs
         /\ Cardinality(EntriesOf(w, k)) = Len(w.byConnection[k])
         /\ Len(w.byConnection[k]) \in Nat
<1>1. w.byConnection[k] \in Seq(Pairs) /\ IsInjective(w.byConnection[k])
  BY DEF Sound
<1>2. Range(w.byConnection[k]) \subseteq Pairs
  BY <1>1, RangeIs
<1> QED
  BY <1>1, <1>2, OnceCount DEF EntriesOf

\* Sets of entries are finite.
LEMMA PairsFinite ==
  ASSUME NEW S \in SUBSET Pairs
  PROVE  IsFiniteSet(S) /\ Cardinality(S) \in Nat
<1>1. IsFiniteSet(Pairs)
  BY WaitersAssumption, FS_Product DEF Pairs
<1>2. IsFiniteSet(S)
  BY <1>1, FS_Subset
<1> QED
  BY <1>2, FS_CardinalityType

\* Additions and removals are different edits, each of one key and entry.
LEMMA EditKinds ==
  /\ \A x \in Edits : \/ x.adds /\ x = Addition(x.key, x.entry)
                      \/ ~ x.adds /\ x = Removal(x.key, x.entry)
  /\ \A j, e, k, f : Addition(j, e) # Removal(k, f)
  /\ \A j, e, k, f : Addition(j, e) = Addition(k, f) => j = k /\ e = f
  /\ \A j, e, k, f : Removal(j, e) = Removal(k, f) => j = k /\ e = f
  /\ \A k \in Keys, e \in Pairs : Addition(k, e) \in Edits /\ Removal(k, e) \in Edits
<1>1. ASSUME NEW x \in Edits
      PROVE  (x.adds /\ x = Addition(x.key, x.entry)) \/ (~ x.adds /\ x = Removal(x.key, x.entry))
  <2>1. x = [adds |-> x.adds, key |-> x.key, entry |-> x.entry] /\ x.adds \in BOOLEAN
    BY DEF Edits
  <2>2. CASE x.adds = TRUE
    BY <2>1, <2>2 DEF Addition
  <2>3. CASE x.adds = FALSE
    BY <2>1, <2>3 DEF Removal
  <2> QED
    BY <2>1, <2>2, <2>3
<1>2. \A j, e : /\ Addition(j, e).adds = TRUE /\ Addition(j, e).key = j /\ Addition(j, e).entry = e
                /\ Removal(j, e).adds = FALSE /\ Removal(j, e).key = j /\ Removal(j, e).entry = e
  BY DEF Addition, Removal
<1>3. \A k \in Keys, e \in Pairs : Addition(k, e) \in Edits /\ Removal(k, e) \in Edits
  BY DEF Addition, Removal, Edits
<1>4. ASSUME NEW j, NEW e, NEW k, NEW f
      PROVE  /\ Addition(j, e) # Removal(k, f)
             /\ Addition(j, e) = Addition(k, f) => j = k /\ e = f
             /\ Removal(j, e) = Removal(k, f) => j = k /\ e = f
  <2>1. /\ Addition(j, e).adds = TRUE /\ Addition(j, e).key = j /\ Addition(j, e).entry = e
        /\ Removal(j, e).adds = FALSE /\ Removal(j, e).key = j /\ Removal(j, e).entry = e
        /\ Addition(k, f).key = k /\ Addition(k, f).entry = f
        /\ Removal(k, f).adds = FALSE /\ Removal(k, f).key = k /\ Removal(k, f).entry = f
    BY <1>2
  <2> QED
    BY <2>1
<1> QED
  BY <1>1, <1>3, <1>4

\* One round more.
LEMMA EditedMore ==
  ASSUME NEW w, Sound(w), NEW A \in SUBSET Edits, NEW z, Edited(w, z, A),
         NEW x \in Edits, NEW y, y = Edit(z, x)
  PROVE  Edited(w, y, A \cup {x})
<1> DEFINE B == A \cup {x}
<1>1. Sound(z)
  BY DEF Edited
<1>2. /\ x.adds => Grown(z, x.key, x.entry, y)
      /\ ~ x.adds => Shrunk(z, x.key, x.entry, y)
  BY <1>1, EditIs
<1>3. x.key \in Keys /\ x.entry \in Pairs /\ x.adds \in BOOLEAN
  BY DEF Edits
<1>4. Limit \in Nat
  BY WaitersAssumption
<1> SUFFICES ASSUME NEW k \in Keys
             PROVE  /\ EntriesOf(y, k) \subseteq EntriesOf(w, k) \cup Added(B, k)
                    /\ Added(B, k) = {} =>
                         EntriesOf(y, k) = {e \in EntriesOf(w, k) : Removal(k, e) \notin B}
                    /\ (\A e \in Pairs : Removal(k, e) \notin B) =>
                         /\ \/ EntriesOf(w, k) \cup Added(B, k) \subseteq EntriesOf(y, k)
                            \/ Len(y.byConnection[k]) = Limit
                         /\ \/ EntriesOf(w, k) \subseteq EntriesOf(y, k)
                            \/ Cardinality(EntriesOf(w, k) \cup Added(B, k)) > Limit
  BY <1>2 DEF Edited, Grown, Shrunk
<1>5. /\ EntriesOf(z, k) \subseteq EntriesOf(w, k) \cup Added(A, k)
      /\ Added(A, k) = {} =>
           EntriesOf(z, k) = {e \in EntriesOf(w, k) : Removal(k, e) \notin A}
      /\ (\A e \in Pairs : Removal(k, e) \notin A) =>
           /\ \/ EntriesOf(w, k) \cup Added(A, k) \subseteq EntriesOf(z, k)
              \/ Len(z.byConnection[k]) = Limit
           /\ \/ EntriesOf(w, k) \subseteq EntriesOf(z, k)
              \/ Cardinality(EntriesOf(w, k) \cup Added(A, k)) > Limit
  BY DEF Edited
<1>6. Added(A, k) \subseteq Added(B, k) /\ (\A e \in Pairs : Removal(k, e) \notin B => Removal(k, e) \notin A)
  BY DEF Added
<1>7. CASE x.key # k
  <2>1. y.byConnection[k] = z.byConnection[k] /\ EntriesOf(y, k) = EntriesOf(z, k)
    BY <1>2, <1>7 DEF EntriesOf, Grown, Shrunk
  <2>2. ASSUME NEW e PROVE x # Addition(k, e) /\ x # Removal(k, e)
    BY <1>7 DEF Addition, Removal
  <2>3. Added(B, k) = Added(A, k) /\ \A e \in Pairs : Removal(k, e) \in B <=> Removal(k, e) \in A
    BY <2>2 DEF Added
  <2>4. EntriesOf(w, k) \subseteq Pairs
    BY EntriesIn
  <2>5. {e \in EntriesOf(w, k) : Removal(k, e) \notin B} = {e \in EntriesOf(w, k) : Removal(k, e) \notin A}
    BY <2>3, <2>4
  <2> HIDE DEF B
  <2> QED
    BY <1>5, <2>1, <2>3, <2>5
<1>8. CASE x.key = k /\ ~ x.adds
  <2>1. x = Removal(k, x.entry)
    BY <1>8, EditKinds
  <2>2. Added(B, k) = Added(A, k)
    BY <2>1, EditKinds DEF Added
  <2>3. \A e : Removal(k, e) \in B <=> Removal(k, e) \in A \/ e = x.entry
    BY <2>1, EditKinds
  <2>4. EntriesOf(y, k) = EntriesOf(z, k) \ {x.entry}
    BY <1>2, <1>8 DEF Shrunk
  <2> HIDE DEF B
  <2>5. ~ \A e \in Pairs : Removal(k, e) \notin B
    BY <1>3, <2>3
  <2>6. ASSUME Added(B, k) = {}
        PROVE  EntriesOf(y, k) = {e \in EntriesOf(w, k) : Removal(k, e) \notin B}
    BY <1>5, <2>2, <2>3, <2>4, <2>6
  <2>7. EntriesOf(y, k) \subseteq EntriesOf(w, k) \cup Added(B, k)
    BY <1>5, <2>2, <2>4
  <2> QED
    BY <2>5, <2>6, <2>7
<1>9. CASE x.key = k /\ x.adds
  <2>1. x = Addition(k, x.entry)
    BY <1>9, EditKinds
  <2>2. Added(B, k) = Added(A, k) \cup {x.entry}
    BY <1>3, <2>1, EditKinds DEF Added
  <2> DEFINE Old == EntriesOf(w, k) \cup Added(A, k)
             New == EntriesOf(w, k) \cup Added(B, k)
  <2>3. New = Old \cup {x.entry} /\ Old \subseteq New /\ New \in SUBSET Pairs
    BY <1>3, <2>2, EntriesIn DEF Added
  <2>4. /\ x.entry \in EntriesOf(y, k)
        /\ EntriesOf(y, k) \subseteq EntriesOf(z, k) \cup {x.entry}
        /\ Len(z.byConnection[k]) = Limit => Len(y.byConnection[k]) = Limit
        /\ \/ EntriesOf(z, k) \subseteq EntriesOf(y, k)
           \/ /\ x.entry \notin EntriesOf(z, k)
              /\ Len(z.byConnection[k]) = Limit /\ Len(y.byConnection[k]) = Limit
    BY <1>2, <1>9 DEF Grown
  <2>5. EntriesOf(z, k) \subseteq Old
    BY <1>5
  <2>6. Cardinality(Old) <= Cardinality(New) /\ Cardinality(Old) \in Nat /\ Cardinality(New) \in Nat
    BY <2>3, PairsFinite, FS_Subset
  <2>7. ASSUME x.entry \notin EntriesOf(z, k), Len(z.byConnection[k]) = Limit
        PROVE  Cardinality(New) > Limit
    <3>1. EntriesOf(z, k) \subseteq Pairs /\ Cardinality(EntriesOf(z, k)) = Limit
      BY <1>1, <2>7, EntriesIn
    <3>2. IsFiniteSet(EntriesOf(z, k))
      BY <3>1, PairsFinite
    <3>3. Cardinality(EntriesOf(z, k) \cup {x.entry}) = Limit + 1
      BY <2>7, <3>1, <3>2, FS_AddElement
    <3>4. EntriesOf(z, k) \cup {x.entry} \in SUBSET New
      BY <2>3, <2>5
    <3>5. IsFiniteSet(New)
      BY <2>3, PairsFinite
    <3> HIDE DEF New, Old
    <3>6. Cardinality(EntriesOf(z, k) \cup {x.entry}) <= Cardinality(New)
      BY <3>4, <3>5, FS_Subset
    <3> QED
      BY <1>4, <2>6, <3>3, <3>6
  <2>8. Added(B, k) # {}
    BY <2>2
  <2>9. EntriesOf(y, k) \subseteq New
    BY <2>3, <2>4, <2>5
  <2>10. ASSUME \A e \in Pairs : Removal(k, e) \notin B
         PROVE  /\ New \subseteq EntriesOf(y, k) \/ Len(y.byConnection[k]) = Limit
                /\ EntriesOf(w, k) \subseteq EntriesOf(y, k) \/ Cardinality(New) > Limit
    <3>1. /\ Old \subseteq EntriesOf(z, k) \/ Len(z.byConnection[k]) = Limit
          /\ EntriesOf(w, k) \subseteq EntriesOf(z, k) \/ Cardinality(Old) > Limit
      BY <1>5, <1>6, <2>10
    <3> HIDE DEF New, Old
    <3>2. New \subseteq EntriesOf(y, k) \/ Len(y.byConnection[k]) = Limit
      BY <2>3, <2>4, <3>1
    <3>3. Cardinality(Old) > Limit => Cardinality(New) > Limit
      BY <1>4, <2>6
    <3>4. EntriesOf(w, k) \subseteq EntriesOf(y, k) \/ Cardinality(New) > Limit
      BY <2>4, <2>7, <3>1, <3>3
    <3> QED
      BY <3>2, <3>4
  <2> QED
    BY <2>8, <2>9, <2>10
<1> QED
  BY <1>3, <1>7, <1>8, <1>9

\* What a loop leaves.
LEMMA EditAllIs ==
  ASSUME NEW w, Sound(w), NEW xs \in Seq(Edits)
  PROVE  Edited(w, EditAll(w, xs), Range(xs))
<1>1. PICK after : Rounds(w, xs, after) /\ EditAll(w, xs) = after[Len(xs)]
  BY RoundsOf
<1>2. /\ Len(xs) \in Nat
      /\ \A i \in 1..Len(xs) : xs[i] \in Edits
      /\ after[0] = w
      /\ \A i \in 1..Len(xs) : after[i] = Edit(after[i - 1], xs[i])
  BY <1>1 DEF Rounds
<1> DEFINE So(i) == {xs[j] : j \in 1..i}
           T == {i \in Nat : i <= Len(xs) /\ ~ Edited(w, after[i], So(i))}
<1>3. Edited(w, w, {})
  <2>1. \A k : Added({}, k) = {}
    BY DEF Added
  <2> QED
    BY <2>1 DEF Edited
<1>4. T = {}
  <2> SUFFICES ASSUME T # {} PROVE FALSE
    OBVIOUS
  <2>1. PICK n \in T : \A m \in T : n <= m
    BY LeastOf
  <2>2. n \in Nat /\ n <= Len(xs) /\ ~ Edited(w, after[n], So(n))
    BY <2>1
  <2>3. n # 0
    <3>1. So(0) = {}
      OBVIOUS
    <3> HIDE DEF So
    <3> QED
      BY <1>2, <1>3, <2>2, <3>1
  <2>4. n - 1 \in Nat /\ n \in 1..Len(xs) /\ n - 1 <= Len(xs) /\ ~ (n <= n - 1)
    BY <1>2, <2>2, <2>3
  <2>5. Edited(w, after[n - 1], So(n - 1))
    <3>1. n - 1 \notin T
      <4> HIDE DEF T
      <4> QED
        BY <2>1, <2>4
    <3> HIDE DEF So
    <3> QED
      BY <2>4, <3>1
  <2>6. So(n - 1) \in SUBSET Edits
    BY <1>2, <2>4
  <2>7. So(n) = So(n - 1) \cup {xs[n]}
    <3>1. \A j : j \in 1..n <=> j \in 1..(n - 1) \/ j = n
      BY <2>4
    <3> QED
      BY <3>1
  <2>8. xs[n] \in Edits /\ after[n] = Edit(after[n - 1], xs[n])
    BY <1>2, <2>4
  <2> HIDE DEF So
  <2>9. Edited(w, after[n], So(n - 1) \cup {xs[n]})
    BY <2>5, <2>6, <2>8, EditedMore
  <2> QED
    BY <2>2, <2>7, <2>9
<1>5. So(Len(xs)) = Range(xs)
  <2>1. \A e : e \in Range(xs) <=> \E i \in 1..Len(xs) : xs[i] = e
    BY RangeIs
  <2> QED
    BY <2>1
<1> HIDE DEF So
<1>6. Edited(w, after[Len(xs)], So(Len(xs)))
  BY <1>2, <1>4
<1> QED
  BY <1>1, <1>5, <1>6

\* Removing some entries.
LEMMA RemoveAllIs ==
  ASSUME NEW w, Sound(w), NEW gone \in SUBSET (Keys \X Pairs)
  PROVE  /\ Sound(RemoveAll(w, gone))
         /\ \A k \in Keys :
              EntriesOf(RemoveAll(w, gone), k) = {e \in EntriesOf(w, k) : <<k, e>> \notin gone}
<1> DEFINE S == {Removal(t[1], t[2]) : t \in gone}
           xs == SetToSeq(S)
<1>1. IsFiniteSet(S) /\ S \subseteq Edits
  BY RemovalsFinite
<1>2. xs \in Seq(S) /\ Range(xs) = S
  BY <1>1, OrderIs
<1>3. xs \in Seq(Edits)
  BY <1>1, <1>2
<1>4. RemoveAll(w, gone) = EditAll(w, xs)
  BY DEF RemoveAll
<1>5. \A k : Added(S, k) = {}
  BY EditKinds DEF Added
<1>6. ASSUME NEW k \in Keys, NEW e \in Pairs PROVE Removal(k, e) \in S <=> <<k, e>> \in gone
  <2>1. ASSUME Removal(k, e) \in S PROVE <<k, e>> \in gone
    <3>1. PICK t \in gone : Removal(k, e) = Removal(t[1], t[2])
      BY <2>1
    <3>2. t[1] = k /\ t[2] = e /\ t = <<t[1], t[2]>>
      BY <3>1, EditKinds
    <3> QED
      BY <3>1, <3>2
  <2>2. ASSUME <<k, e>> \in gone PROVE Removal(k, e) \in S
    BY <2>2
  <2> QED
    BY <2>1, <2>2
<1> HIDE DEF S, xs
<1>7. Edited(w, RemoveAll(w, gone), S)
  BY <1>2, <1>3, <1>4, EditAllIs
<1>8. ASSUME NEW k \in Keys
      PROVE  EntriesOf(RemoveAll(w, gone), k) = {e \in EntriesOf(w, k) : <<k, e>> \notin gone}
  <2>1. EntriesOf(RemoveAll(w, gone), k) = {e \in EntriesOf(w, k) : Removal(k, e) \notin S}
    BY <1>5, <1>7 DEF Edited
  <2>2. EntriesOf(w, k) \subseteq Pairs
    BY EntriesIn
  <2> QED
    BY <1>6, <2>1, <2>2
<1> QED
  BY <1>7, <1>8 DEF Edited

-----------------------------------------------------------------------------
(* The operations                                                          *)

\* Giving up a principal removes its entries from the one connection.
LEMMA RemovePrincipalIs ==
  ASSUME NEW w, Sound(w), NEW c \in Connections, NEW p \in Principals
  PROVE  /\ Sound(RemovePrincipal(w, c, p))
         /\ \A k \in Keys : EntriesOf(RemovePrincipal(w, c, p), k) =
              {e \in EntriesOf(w, k) : ~ (k = c /\ e[2] = p)}
<1> DEFINE gone == {c} \X {e \in EntriesOf(w, c) : e[2] = p}
<1>1. c \in Keys
  BY DEF Keys
<1>2. gone \in SUBSET (Keys \X Pairs)
  BY <1>1, EntriesIn
<1>3. RemovePrincipal(w, c, p) = RemoveAll(w, gone)
  BY DEF RemovePrincipal
<1>4. ASSUME NEW k \in Keys
      PROVE  {e \in EntriesOf(w, k) : <<k, e>> \notin gone} = {e \in EntriesOf(w, k) : ~ (k = c /\ e[2] = p)}
  OBVIOUS
<1> HIDE DEF gone
<1>5. ASSUME NEW k \in Keys
      PROVE  EntriesOf(RemoveAll(w, gone), k) = {e \in EntriesOf(w, k) : ~ (k = c /\ e[2] = p)}
  <2>1. EntriesOf(RemoveAll(w, gone), k) = {e \in EntriesOf(w, k) : <<k, e>> \notin gone}
    BY <1>2, RemoveAllIs
  <2> QED
    BY <1>4, <2>1
<1>6. Sound(RemoveAll(w, gone))
  BY <1>2, RemoveAllIs
<1> QED
  BY <1>3, <1>5, <1>6

\* Reaping empties the held entries of the principals nobody serves.
LEMMA ReapIs ==
  ASSUME NEW w, Sound(w), NEW open, NEW authenticated, NEW held
  PROVE  /\ Sound(Reap(w, open, authenticated, held))
         /\ \A k \in Keys : EntriesOf(Reap(w, open, authenticated, held), k) =
              IF k \in Principals /\ Serving(k, open, authenticated, held) = {}
              THEN {} ELSE EntriesOf(w, k)
<1> DEFINE Lost == {q \in HeldPrincipals(w) : Serving(q, open, authenticated, held) = {}}
           gone == UNION {ReleaseHeld(w, p) : p \in Lost}
           z == Reap(w, open, authenticated, held)
<1>1. Lost \subseteq Principals /\ Principals \subseteq Keys
  BY DEF HeldPrincipals, Keys
<1>2. \A k, e : <<k, e>> \in gone <=> k \in Lost /\ e \in EntriesOf(w, k)
  BY DEF ReleaseHeld
<1>3. gone \in SUBSET (Keys \X Pairs)
  <2> SUFFICES ASSUME NEW t \in gone PROVE t \in Keys \X Pairs
    OBVIOUS
  <2>1. PICK p \in Lost : t \in {p} \X EntriesOf(w, p)
    BY DEF ReleaseHeld
  <2>2. p \in Keys /\ EntriesOf(w, p) \subseteq Pairs
    BY <1>1, EntriesIn
  <2> QED
    BY <2>1, <2>2
<1>4. z = RemoveAll(w, gone)
  BY DEF Reap
<1> HIDE DEF gone, z
<1>5. Sound(z) /\ \A k \in Keys : EntriesOf(z, k) = {e \in EntriesOf(w, k) : <<k, e>> \notin gone}
  BY <1>3, <1>4, RemoveAllIs
<1>6. ASSUME NEW k \in Keys
      PROVE  EntriesOf(z, k) = IF k \in Principals /\ Serving(k, open, authenticated, held) = {}
                               THEN {} ELSE EntriesOf(w, k)
  <2>1. CASE k \in Principals /\ Serving(k, open, authenticated, held) = {} /\ w.byConnection[k] = <<>>
    <3>1. EntriesOf(w, k) = {}
      BY <2>1 DEF EntriesOf, Range
    <3> QED
      BY <1>5, <2>1, <3>1
  <2>2. CASE k \in Principals /\ Serving(k, open, authenticated, held) = {} /\ w.byConnection[k] # <<>>
    <3>1. k \in Lost
      BY <2>2 DEF HeldPrincipals
    <3> HIDE DEF Lost
    <3> QED
      BY <1>2, <1>5, <2>2, <3>1
  <2>3. CASE ~ (k \in Principals /\ Serving(k, open, authenticated, held) = {})
    <3>1. k \notin Lost
      BY <1>1, <2>3
    <3> HIDE DEF Lost
    <3> QED
      BY <1>2, <1>5, <2>3, <3>1
  <2> QED
    BY <2>1, <2>2, <2>3
<1> QED
  BY <1>5, <1>6 DEF z

\* Taking removes the entries of a space whose principals are admitted.
LEMMA TakeIs ==
  ASSUME NEW w, Sound(w), NEW s \in Spaces, NEW admitted
  PROVE  /\ Sound(Take(w, s, admitted))
         /\ \A k \in Keys : EntriesOf(Take(w, s, admitted), k) =
              {e \in EntriesOf(w, k) : ~ (e[1] = s /\ e[2] \in admitted)}
<1> DEFINE gone == {<<e[1], Entry(s, e[2])>> : e \in Taken(w, s, admitted)}
<1>1. ASSUME NEW k \in Keys, NEW e \in EntriesOf(w, k)
      PROVE  <<k, e>> \in gone <=> e[1] = s /\ e[2] \in admitted
  <2>1. e \in Pairs /\ e[1] \in Spaces /\ e[2] \in Principals /\ e = Entry(e[1], e[2])
    BY EntriesIn, EntryIs
  <2>2. e[2] \in w.bySpace[e[1]][k]
    BY <2>1 DEF Sound
  <2>3. ASSUME <<k, e>> \in gone PROVE e[1] = s /\ e[2] \in admitted
    <3>1. PICK t \in Taken(w, s, admitted) : k = t[1] /\ e = Entry(s, t[2])
      BY <2>3
    <3>2. t[2] \in admitted
      BY <3>1 DEF Taken
    <3>3. e[1] = s /\ e[2] = t[2]
      BY <3>1 DEF Entry
    <3> QED
      BY <3>2, <3>3
  <2>4. ASSUME e[1] = s, e[2] \in admitted PROVE <<k, e>> \in gone
    <3>1. <<k, e[2]>> \in Keys \X Principals
      BY <2>1
    <3>2. <<k, e[2]>> \in Taken(w, s, admitted)
      BY <2>2, <2>4, <3>1 DEF Taken
    <3>3. <<k, e>> = <<(<<k, e[2]>>)[1], Entry(s, (<<k, e[2]>>)[2])>>
      BY <2>1, <2>4
    <3> QED
      BY <3>2, <3>3
  <2> QED
    BY <2>3, <2>4
<1>2. gone \in SUBSET (Keys \X Pairs)
  <2> SUFFICES ASSUME NEW t \in Taken(w, s, admitted) PROVE <<t[1], Entry(s, t[2])>> \in Keys \X Pairs
    OBVIOUS
  <2>1. t[1] \in Keys /\ t[2] \in Principals
    BY DEF Taken
  <2> QED
    BY <2>1, EntryIs
<1>3. Take(w, s, admitted) = RemoveAll(w, gone)
  BY DEF Take
<1> HIDE DEF gone
<1>4. ASSUME NEW k \in Keys
      PROVE  {e \in EntriesOf(w, k) : <<k, e>> \notin gone} =
             {e \in EntriesOf(w, k) : ~ (e[1] = s /\ e[2] \in admitted)}
  BY <1>1
<1>5. ASSUME NEW k \in Keys
      PROVE  EntriesOf(RemoveAll(w, gone), k) = {e \in EntriesOf(w, k) : ~ (e[1] = s /\ e[2] \in admitted)}
  <2>1. EntriesOf(RemoveAll(w, gone), k) = {e \in EntriesOf(w, k) : <<k, e>> \notin gone}
    BY <1>2, RemoveAllIs
  <2> QED
    BY <1>4, <2>1
<1>6. Sound(RemoveAll(w, gone))
  BY <1>2, RemoveAllIs
<1> QED
  BY <1>3, <1>5, <1>6

\* A closing connection's entries are held, as far as there is room.
LEMMA HoldIs ==
  ASSUME NEW w, Sound(w), NEW c \in Connections
  PROVE  /\ Sound(Hold(w, c))
         /\ EntriesOf(Hold(w, c), c) = {}
         /\ \A d \in Connections \ {c} : EntriesOf(Hold(w, c), d) = EntriesOf(w, d)
         /\ \A p \in Principals :
              LET moved == {e \in EntriesOf(w, c) : e[2] = p}
              IN  /\ EntriesOf(Hold(w, c), p) \subseteq EntriesOf(w, p) \cup moved
                  /\ \/ EntriesOf(w, p) \cup moved \subseteq EntriesOf(Hold(w, c), p)
                     \/ Len(Hold(w, c).byConnection[p]) = Limit
<1> DEFINE es == w.byConnection[c]
           n == Len(es)
           Of(i) == es[(i + 1) \div 2]
           xs == [i \in 1..(2 * n) |-> IF i % 2 = 1 THEN Removal(c, Of(i)) ELSE Addition(Of(i)[2], Of(i))]
           A == Range(xs)
           z == Hold(w, c)
<1>1. c \in Keys /\ Connections \subseteq Keys /\ Principals \subseteq Keys
  BY DEF Keys
<1>2. es \in Seq(Pairs) /\ n \in Nat /\ EntriesOf(w, c) = Range(es)
  BY <1>1 DEF Sound, EntriesOf
<1>3. \A i \in 1..(2 * n) : (i + 1) \div 2 \in 1..n
  BY <1>2
<1>4. ASSUME NEW i \in 1..(2 * n) PROVE Of(i) \in Pairs /\ Of(i) \in EntriesOf(w, c)
  <2>1. (i + 1) \div 2 \in 1..n
    BY <1>3
  <2>2. \A m \in 1..n : es[m] \in Pairs /\ es[m] \in Range(es)
    BY <1>2, RangeIs
  <2> QED
    BY <1>2, <2>1, <2>2
<1>5. ASSUME NEW m \in 1..n
      PROVE  /\ 2 * m - 1 \in 1..(2 * n) /\ (2 * m - 1) % 2 = 1 /\ Of(2 * m - 1) = es[m]
             /\ 2 * m \in 1..(2 * n) /\ (2 * m) % 2 # 1 /\ Of(2 * m) = es[m]
  <2>1. m \in Nat /\ m >= 1 /\ m <= n
    BY <1>2
  <2>2. 2 * m - 1 \in 1..(2 * n) /\ 2 * m \in 1..(2 * n)
    BY <1>2, <2>1
  <2>3. (2 * m - 1) % 2 = 1 /\ (2 * m) % 2 # 1
    BY <2>1
  <2>4. ((2 * m - 1) + 1) \div 2 = m /\ (2 * m + 1) \div 2 = m
    BY <2>1
  <2> QED
    BY <2>2, <2>3, <2>4
<1> HIDE DEF es
<1>6. Hold(w, c) = EditAll(w, xs)
  BY DEF Hold, es
<1>7. ASSUME NEW x PROVE x \in A <=> \E i \in 1..(2 * n) : x = xs[i]
  BY DEF Range
<1>8. \A i \in 1..(2 * n) : xs[i] = IF i % 2 = 1 THEN Removal(c, Of(i)) ELSE Addition(Of(i)[2], Of(i))
  OBVIOUS
<1> HIDE DEF Of, n
<1>9. xs \in Seq(Edits)
  <2>1. ASSUME NEW i \in 1..(2 * n)
        PROVE  (IF i % 2 = 1 THEN Removal(c, Of(i)) ELSE Addition(Of(i)[2], Of(i))) \in Edits
    <3>1. Of(i) \in Pairs /\ Of(i)[2] \in Keys
      BY <1>1, <1>4, EntryIs
    <3> QED
      BY <1>1, <3>1, EditKinds
  <2>2. 2 * n \in Nat
    BY <1>2 DEF n
  <2> QED
    BY <2>1, <2>2
<1> HIDE DEF xs
<1>10. ASSUME NEW k, NEW e PROVE Removal(k, e) \in A <=> k = c /\ e \in EntriesOf(w, c)
  <2>1. ASSUME Removal(k, e) \in A PROVE k = c /\ e \in EntriesOf(w, c)
    <3>1. PICK i \in 1..(2 * n) : Removal(k, e) = xs[i]
      BY <1>7, <2>1
    <3>2. Removal(k, e) = Removal(c, Of(i))
      BY <1>8, <3>1, EditKinds
    <3> QED
      BY <1>4, <3>2, EditKinds
  <2>2. ASSUME e \in EntriesOf(w, c) PROVE Removal(c, e) \in A
    <3>1. PICK m \in 1..n : es[m] = e
      BY <1>2, <2>2, RangeIs DEF n
    <3>2. xs[2 * m - 1] = Removal(c, e) /\ 2 * m - 1 \in 1..(2 * n)
      BY <1>5, <1>8, <3>1
    <3> QED
      BY <1>7, <3>2
  <2> QED
    BY <2>1, <2>2
<1>11. ASSUME NEW k, NEW e PROVE Addition(k, e) \in A <=> k = e[2] /\ e \in EntriesOf(w, c)
  <2>1. ASSUME Addition(k, e) \in A PROVE k = e[2] /\ e \in EntriesOf(w, c)
    <3>1. PICK i \in 1..(2 * n) : Addition(k, e) = xs[i]
      BY <1>7, <2>1
    <3>2. Addition(k, e) = Addition(Of(i)[2], Of(i))
      BY <1>8, <3>1, EditKinds
    <3> QED
      BY <1>4, <3>2, EditKinds
  <2>2. ASSUME e \in EntriesOf(w, c) PROVE Addition(e[2], e) \in A
    <3>1. PICK m \in 1..n : es[m] = e
      BY <1>2, <2>2, RangeIs DEF n
    <3>2. xs[2 * m] = Addition(e[2], e) /\ 2 * m \in 1..(2 * n)
      BY <1>5, <1>8, <3>1
    <3> QED
      BY <1>7, <3>2
  <2> QED
    BY <2>1, <2>2
<1>12. Edited(w, z, A)
  BY <1>6, <1>9, EditAllIs
<1> HIDE DEF A, z
<1>13. Connections \cap Principals = {}
  BY WaitersAssumption
<1>14. EntriesOf(w, c) \subseteq Pairs /\ \A e \in EntriesOf(w, c) : e[2] \in Principals
  BY <1>1, EntriesIn, EntryIs
<1>15. ASSUME NEW d \in Connections
       PROVE  EntriesOf(z, d) = IF d = c THEN {} ELSE EntriesOf(w, d)
  <2>1. Added(A, d) = {}
    BY <1>11, <1>13, <1>14 DEF Added
  <2>2. EntriesOf(z, d) = {e \in EntriesOf(w, d) : Removal(d, e) \notin A}
    BY <1>1, <1>12, <2>1 DEF Edited
  <2> QED
    BY <1>10, <2>2
<1>16. ASSUME NEW p \in Principals
       PROVE  /\ EntriesOf(z, p) \subseteq EntriesOf(w, p) \cup {e \in EntriesOf(w, c) : e[2] = p}
              /\ \/ EntriesOf(w, p) \cup {e \in EntriesOf(w, c) : e[2] = p} \subseteq EntriesOf(z, p)
                 \/ Len(z.byConnection[p]) = Limit
  <2>1. Added(A, p) = {e \in EntriesOf(w, c) : e[2] = p}
    BY <1>11, <1>14 DEF Added
  <2>2. p # c
    BY <1>13
  <2>3. \A e \in Pairs : Removal(p, e) \notin A
    BY <1>10, <2>2
  <2> QED
    BY <1>1, <1>12, <2>1, <2>3 DEF Edited
<1> QED
  BY <1>12, <1>15, <1>16 DEF Edited, z


-----------------------------------------------------------------------------
(* The steps                                                               *)

\* What the two action properties say of a step.
Forgotten ==
  \A c \in up, s \in Spaces, p \in Principals :
    (/\ Entry(s, p) \in EntriesOf(waiters, c)
     /\ Entry(s, p) \notin EntriesOf(waiters', c))
    => \/ <<c, s, p>> \in notice'
       \/ Entry(s, p) \in sessions'[c]
       \/ p \in auth[c] /\ p \notin auth'[c]
       \/ c \in up' /\ Overfull(c)
       \/ /\ c \notin up'
          /\ \/ Entry(s, p) \in EntriesOf(waiters', p)
             \/ Serving(p, up', auth', sessions') = {}
             \/ Len(waiters'.byConnection[p]) = Limit

Answered ==
  \A s \in Spaces, p \in Principals :
    (/\ Entry(s, p) \in EntriesOf(waiters, p)
     /\ Entry(s, p) \notin EntriesOf(waiters', p))
    => \/ \A c \in Serving(p, up', auth', sessions') :
            <<c, s, p>> \in notice' \/ Entry(s, p) \in sessions'[c]
       \/ Len(waiters'.byConnection[p]) = Limit

\* Keys are connections or principals, never both.
LEMMA KeysAre ==
  /\ Connections \subseteq Keys /\ Principals \subseteq Keys
  /\ \A c \in Connections : c \notin Principals
  /\ \A k \in Keys : k \in Connections \/ k \in Principals
BY WaitersAssumption DEF Keys

\* Where no new entry appears and no list changes, no admitted principal waits.
LEMMA StillUnadmitted ==
  ASSUME Unadmitted, granted' = granted, stale' = stale,
         \A k \in Keys : \A e \in EntriesOf(waiters', k) : \E j \in Keys : e \in EntriesOf(waiters, j)
  PROVE  Unadmitted'
<1> SUFFICES ASSUME NEW k \in Keys, NEW s \in Spaces, NEW p \in Principals,
                    Entry(s, p) \in EntriesOf(waiters', k), s \notin stale'
             PROVE  p \notin granted'[s]
  BY DEF Unadmitted
<1>1. PICK j \in Keys : Entry(s, p) \in EntriesOf(waiters, j)
  OBVIOUS
<1> QED
  BY <1>1 DEF Unadmitted

\* With the same entries there are as many.
LEMMA SameLength ==
  ASSUME NEW w, Sound(w), NEW z, Sound(z), NEW k \in Keys, EntriesOf(z, k) = EntriesOf(w, k)
  PROVE  Len(z.byConnection[k]) = Len(w.byConnection[k])
BY EntriesIn

\* A step that leaves the indexes alone.
LEMMA IdleStep ==
  ASSUME waiters' = waiters
  PROVE  Forgotten /\ Answered
BY DEF Forgotten, Answered

\* A connection authenticates a principal.
LEMMA AuthenticateStep ==
  ASSUME IInv, NEW c \in Connections, NEW p \in Principals, Authenticate(c, p)
  PROVE  IInv' /\ Forgotten /\ Answered
<1> DEFINE renewed == {e \in lapsed[c] : e[2] = p}
<1>1. /\ waiters' = waiters /\ up' = up /\ stale' = stale /\ granted' = granted
      /\ notice' = {} /\ auth' = [auth EXCEPT ![c] = @ \cup {p}] /\ c \in up
      /\ sessions' = [sessions EXCEPT ![c] = @ \cup renewed]
      /\ lapsed' = [lapsed EXCEPT ![c] = @ \ renewed]
  BY DEF Authenticate
<1>2. renewed \subseteq lapsed[c]
  OBVIOUS
<1> HIDE DEF renewed
<1>3. Typed'
  BY <1>1, <1>2 DEF IInv, Typed
<1>4. ClosedEmpty'
  BY <1>1 DEF IInv, ClosedEmpty, Typed, Registered
<1>5. Unadmitted'
  BY <1>1 DEF IInv, Unadmitted
<1> QED
  BY <1>1, <1>3, <1>4, <1>5, IdleStep DEF IInv

\* A lease runs out.
LEMMA LapseStep ==
  ASSUME IInv, NEW c \in Connections, NEW p \in Principals, Lapse(c, p)
  PROVE  IInv' /\ Forgotten /\ Answered
<1>1. PICK out \in SUBSET {e \in sessions[c] : e[2] = p} :
        /\ sessions' = [sessions EXCEPT ![c] = @ \ out]
        /\ lapsed' = [lapsed EXCEPT ![c] = @ \cup out]
  BY DEF Lapse
<1>2. /\ waiters' = waiters /\ up' = up /\ stale' = stale /\ granted' = granted
      /\ notice' = {} /\ auth' = [auth EXCEPT ![c] = @ \ {p}] /\ c \in up
  BY DEF Lapse
<1>3. out \subseteq sessions[c]
  OBVIOUS
<1>4. Typed'
  BY <1>1, <1>2, <1>3 DEF IInv, Typed
<1>5. ClosedEmpty'
  BY <1>1, <1>2 DEF IInv, ClosedEmpty, Typed, Registered
<1>6. Unadmitted'
  BY <1>2 DEF IInv, Unadmitted
<1> QED
  BY <1>2, <1>4, <1>5, <1>6, IdleStep DEF IInv

\* A connection gives up a principal: its entries go, and held ones with the last
\* connection that served it.
LEMMA ReleaseStep ==
  ASSUME IInv, NEW c \in Connections, NEW p \in Principals, Release(c, p)
  PROVE  IInv' /\ Forgotten /\ Answered
<1>1. /\ up' = up /\ stale' = stale /\ granted' = granted /\ sessions' = sessions /\ lapsed' = lapsed
      /\ notice' = {} /\ auth' = [auth EXCEPT ![c] = @ \ {p}] /\ p \in auth[c]
      /\ waiters' = Reap(RemovePrincipal(waiters, c, p), up, auth', sessions)
  BY DEF Release
<1>2. Sound(waiters) /\ auth \in [Connections -> SUBSET Principals]
  BY DEF IInv, Typed
<1> DEFINE y == RemovePrincipal(waiters, c, p)
<1>3. /\ Sound(y)
      /\ \A k \in Keys : EntriesOf(y, k) = {e \in EntriesOf(waiters, k) : ~ (k = c /\ e[2] = p)}
  BY <1>2, RemovePrincipalIs
<1>a. waiters' = Reap(y, up, auth', sessions)
  BY <1>1
<1> HIDE DEF y
<1>4. /\ Sound(waiters')
      /\ \A k \in Keys : EntriesOf(waiters', k) =
           IF k \in Principals /\ Serving(k, up, auth', sessions) = {} THEN {} ELSE EntriesOf(y, k)
  BY <1>3, <1>a, ReapIs
<1>5. \A k \in Keys : EntriesOf(waiters', k) \subseteq EntriesOf(waiters, k)
  BY <1>3, <1>4
<1>6. Typed'
  BY <1>1, <1>4 DEF IInv, Typed
<1>7. ClosedEmpty'
  BY <1>1, <1>5, KeysAre DEF IInv, ClosedEmpty, Registered
<1>8. Unadmitted'
  BY <1>1, <1>5, StillUnadmitted DEF IInv
<1>9. Forgotten
  <2> SUFFICES ASSUME NEW d \in up, NEW s \in Spaces, NEW q \in Principals,
                      Entry(s, q) \in EntriesOf(waiters, d), Entry(s, q) \notin EntriesOf(waiters', d)
               PROVE  q \in auth[d] /\ q \notin auth'[d]
    BY DEF Forgotten
  <2>1. d \in Connections /\ d \in Keys /\ d \notin Principals
    BY KeysAre DEF IInv, Typed
  <2>2. Entry(s, q) \notin EntriesOf(y, d)
    BY <1>4, <2>1
  <2>3. d = c /\ Entry(s, q)[2] = p
    BY <1>3, <2>1, <2>2
  <2> QED
    BY <1>1, <1>2, <2>3 DEF Entry
<1>10. Answered
  <2> SUFFICES ASSUME NEW s \in Spaces, NEW q \in Principals,
                      Entry(s, q) \in EntriesOf(waiters, q), Entry(s, q) \notin EntriesOf(waiters', q)
               PROVE  Serving(q, up', auth', sessions') = {}
    BY DEF Answered
  <2>1. q \in Keys /\ q # c
    BY KeysAre
  <2>2. Entry(s, q) \in EntriesOf(y, q)
    BY <1>3, <2>1
  <2> QED
    BY <1>1, <1>4, <2>1, <2>2
<1> QED
  BY <1>6, <1>7, <1>8, <1>9, <1>10 DEF IInv

\* An open is refused: if an older entry goes, the connection had no room.
LEMMA RefuseOpenStep ==
  ASSUME IInv, NEW c \in Connections, NEW s \in Spaces, NEW p \in Principals, RefuseOpen(c, s, p)
  PROVE  IInv' /\ Forgotten /\ Answered
<1>1. /\ c \in up /\ p \notin granted[s] /\ waiters' = AddEntry(waiters, c, s, p)
      /\ notice' = {} /\ up' = up /\ auth' = auth /\ sessions' = sessions
      /\ lapsed' = lapsed /\ granted' = granted /\ stale' = stale
  BY DEF RefuseOpen
<1>2. Sound(waiters) /\ c \in Keys
  BY KeysAre DEF IInv, Typed
<1> DEFINE x == Addition(c, Entry(s, p))
<1>3. Edited(waiters, waiters', {x})
  <2>1. \A k : Added({}, k) = {}
    BY DEF Added
  <2>2. Edited(waiters, waiters, {})
    BY <1>2, <2>1 DEF Edited
  <2>3. x \in Edits
    BY <1>2, EditKinds, EntryIs
  <2>4. x.adds = TRUE /\ x.key = c /\ x.entry = Entry(s, p)
    BY DEF Addition
  <2>5. Entry(s, p)[1] = s /\ Entry(s, p)[2] = p
    BY DEF Entry
  <2> HIDE DEF x
  <2>6. waiters' = Edit(waiters, x)
    BY <1>1, <2>4, <2>5 DEF Edit
  <2>7. Edited(waiters, waiters', {} \cup {x})
    BY <1>2, <2>2, <2>3, <2>6, EditedMore
  <2>8. {} \cup {x} = {x}
    OBVIOUS
  <2> QED
    BY <2>7, <2>8
<1>4. ASSUME NEW k \in Keys
      PROVE  Added({x}, k) = IF k = c THEN {Entry(s, p)} ELSE {}
  <2>1. \A e \in Pairs : Addition(k, e) = x <=> k = c /\ e = Entry(s, p)
    BY EditKinds
  <2> HIDE DEF x
  <2>2. \A e \in Pairs : e \in Added({x}, k) <=> k = c /\ e = Entry(s, p)
    BY <2>1 DEF Added
  <2>3. Added({x}, k) \subseteq Pairs /\ Entry(s, p) \in Pairs
    BY EntryIs DEF Added
  <2> QED
    BY <2>2, <2>3
<1>5. \A k \in Keys, e \in Pairs : Removal(k, e) \notin {x}
  BY EditKinds
<1> HIDE DEF x
<1>6. ASSUME NEW k \in Keys, k # c PROVE EntriesOf(waiters', k) = EntriesOf(waiters, k)
  <2>1. Added({x}, k) = {}
    BY <1>4, <1>6
  <2>2. EntriesOf(waiters', k) = {e \in EntriesOf(waiters, k) : Removal(k, e) \notin {x}}
    BY <1>3, <2>1 DEF Edited
  <2>3. EntriesOf(waiters, k) \subseteq Pairs
    BY <1>2, EntriesIn
  <2> QED
    BY <1>5, <2>2, <2>3
<1>7. /\ EntriesOf(waiters', c) \subseteq EntriesOf(waiters, c) \cup {Entry(s, p)}
      /\ \/ EntriesOf(waiters, c) \cup {Entry(s, p)} \subseteq EntriesOf(waiters', c)
         \/ Len(waiters'.byConnection[c]) = Limit
      /\ \/ EntriesOf(waiters, c) \subseteq EntriesOf(waiters', c)
         \/ Cardinality(EntriesOf(waiters, c) \cup {Entry(s, p)}) > Limit
  BY <1>2, <1>3, <1>4, <1>5 DEF Edited
<1>8. Sound(waiters')
  BY <1>3 DEF Edited
<1>9. Typed'
  BY <1>1, <1>8 DEF IInv, Typed
<1>10. ClosedEmpty'
  BY <1>1, <1>6, KeysAre DEF IInv, ClosedEmpty, Registered
<1>11. Unadmitted'
  <2> SUFFICES ASSUME NEW k \in Keys, NEW t \in Spaces, NEW q \in Principals,
                      Entry(t, q) \in EntriesOf(waiters', k), t \notin stale
               PROVE  q \notin granted[t]
    BY <1>1 DEF Unadmitted
  <2>1. Entry(t, q) \in EntriesOf(waiters, k) \/ Entry(t, q) = Entry(s, p)
    BY <1>6, <1>7
  <2>2. CASE Entry(t, q) \in EntriesOf(waiters, k)
    BY <2>2 DEF IInv, Unadmitted
  <2>3. CASE Entry(t, q) = Entry(s, p)
    BY <1>1, <2>3, EntryIs
  <2> QED
    BY <2>1, <2>2, <2>3
<1>12. Forgotten
  <2> SUFFICES ASSUME NEW d \in up, NEW t \in Spaces, NEW q \in Principals,
                      Entry(t, q) \in EntriesOf(waiters, d), Entry(t, q) \notin EntriesOf(waiters', d)
               PROVE  d \in up' /\ (Entry(t, q) \in sessions'[d] \/ Overfull(d))
    BY DEF Forgotten
  <2>1. d \in Keys /\ d \in up'
    BY <1>1, KeysAre DEF IInv, Typed
  <2>2. d = c
    BY <1>6, <2>1
  <2>3. Cardinality(EntriesOf(waiters, c) \cup {Entry(s, p)}) > Limit
    BY <1>7, <2>2
  <2>4. Len(waiters'.byConnection[c]) <= Limit /\ EntriesOf(waiters', c) \subseteq Pairs /\ EntriesOf(waiters, c) \subseteq Pairs
    BY <1>2, <1>8, EntriesIn DEF Sound
  <2>5. Entry(s, p) \in EntriesOf(waiters', c)
    <3>1. Grown(waiters, c, Entry(s, p), AddEntry(waiters, c, s, p))
      BY <1>2, AddIs
    <3> QED
      BY <1>1, <3>1 DEF Grown
  <2>6. EntriesOf(waiters, c) \cup {Entry(s, p)}
          \in SUBSET (EntriesOf(waiters, c) \cup (EntriesOf(waiters', c) \cup (Registered(c) \ Registered(c)')))
    BY <2>5
  <2>7. EntriesOf(waiters, c) \cup (EntriesOf(waiters', c) \cup (Registered(c) \ Registered(c)')) \in SUBSET Pairs
    BY <2>4 DEF IInv, Typed, Registered
  <2>8. Overfull(c)
    <3> DEFINE S == EntriesOf(waiters, c) \cup {Entry(s, p)}
               U == EntriesOf(waiters, c) \cup (EntriesOf(waiters', c) \cup (Registered(c) \ Registered(c)'))
    <3>1. IsFiniteSet(U) /\ Cardinality(U) \in Nat /\ S \in SUBSET Pairs
      BY <2>6, <2>7, PairsFinite
    <3>2. Cardinality(S) \in Nat /\ S \in SUBSET U
      BY <2>6, <3>1, PairsFinite
    <3>3. Cardinality(S) > Limit
      BY <2>3
    <3> HIDE DEF S, U
    <3>4. Cardinality(S) <= Cardinality(U)
      BY <3>1, <3>2, FS_Subset
    <3>5. Cardinality(U) > Limit
      BY <3>1, <3>2, <3>3, <3>4, WaitersAssumption
    <3> QED
      BY <3>5 DEF Overfull, U
  <2> QED
    BY <2>1, <2>2, <2>8
<1>13. Answered
  <2> SUFFICES ASSUME NEW q \in Principals PROVE EntriesOf(waiters', q) = EntriesOf(waiters, q)
    BY DEF Answered
  <2>1. q \in Keys /\ q # c
    BY KeysAre
  <2> QED
    BY <1>6, <2>1
<1> QED
  BY <1>9, <1>10, <1>11, <1>12, <1>13 DEF IInv

\* An open is admitted: it answers the held refusal wherever it was waiting.
LEMMA OpenStep ==
  ASSUME IInv, NEW c \in Connections, NEW s \in Spaces, NEW p \in Principals, Open(c, s, p)
  PROVE  IInv' /\ Forgotten /\ Answered
<1> DEFINE others == Serving(p, up, auth, sessions') \ {c}
           mine == RemoveEntry(waiters, c, s, p)
           gone == ({p} \cup others) \X {Entry(s, p)}
<1>1. /\ c \in up /\ sessions' = [sessions EXCEPT ![c] = @ \cup {Entry(s, p)}]
      /\ up' = up /\ auth' = auth /\ granted' = granted /\ stale' = stale /\ lapsed' = lapsed
      /\ waiters' = IF Entry(s, p) \in EntriesOf(waiters, p) THEN RemoveAll(mine, gone) ELSE mine
      /\ notice' = IF Entry(s, p) \in EntriesOf(waiters, p) THEN {<<d, s, p>> : d \in others} ELSE {}
  BY DEF Open
<1>2. Sound(waiters) /\ sessions \in [Connections -> SUBSET Pairs] /\ up \subseteq Connections
  BY DEF IInv, Typed
<1>3. c \in Keys /\ p \in Keys /\ c # p /\ others \subseteq up
  BY KeysAre DEF Serving
<1>4. /\ Sound(mine)
      /\ \A k \in Keys : EntriesOf(mine, k) = {e \in EntriesOf(waiters, k) : ~ (k = c /\ e = Entry(s, p))}
  <2>1. Shrunk(waiters, c, Entry(s, p), mine)
    BY <1>2, <1>3, RemoveIs
  <2> HIDE DEF mine
  <2>2. \A k \in Keys : k # c => EntriesOf(mine, k) = EntriesOf(waiters, k)
    BY <2>1 DEF Shrunk, EntriesOf
  <2> QED
    BY <2>1, <2>2 DEF Shrunk
<1>5. gone \in SUBSET (Keys \X Pairs)
  <2>1. Entry(s, p) \in Pairs /\ {p} \cup others \subseteq Keys
    BY <1>2, <1>3, KeysAre, EntryIs
  <2> HIDE DEF others
  <2> QED
    BY <2>1
<1>6. \A k, e : <<k, e>> \in gone <=> (k = p \/ k \in others) /\ e = Entry(s, p)
  OBVIOUS
<1> HIDE DEF mine, gone
<1>7. /\ Sound(RemoveAll(mine, gone))
      /\ \A k \in Keys : EntriesOf(RemoveAll(mine, gone), k) = {e \in EntriesOf(mine, k) : <<k, e>> \notin gone}
  BY <1>4, <1>5, RemoveAllIs
<1>8. Sound(waiters')
  BY <1>1, <1>4, <1>7
<1>9. ASSUME NEW k \in Keys, NEW e, e \in EntriesOf(waiters, k), e \notin EntriesOf(waiters', k)
      PROVE  /\ e = Entry(s, p)
             /\ \/ k = c
                \/ (k = p \/ k \in others) /\ Entry(s, p) \in EntriesOf(waiters, p)
  BY <1>1, <1>4, <1>6, <1>7, <1>9
<1>10. \A k \in Keys : EntriesOf(waiters', k) \subseteq EntriesOf(waiters, k)
  BY <1>1, <1>4, <1>7
<1>11. Typed'
  <2>1. Entry(s, p) \in Pairs
    BY EntryIs
  <2>2. sessions' \in [Connections -> SUBSET Pairs]
    BY <1>1, <1>2, <2>1
  <2>3. others \subseteq Connections
    BY <1>2, <1>3
  <2> HIDE DEF others
  <2>4. notice' \subseteq Connections \X Spaces \X Principals
    BY <1>1, <2>3
  <2> QED
    BY <1>1, <1>8, <2>2, <2>4 DEF IInv, Typed
<1>12. ClosedEmpty'
  BY <1>1, <1>2, <1>10, KeysAre DEF IInv, ClosedEmpty, Registered
<1>13. Unadmitted'
  BY <1>1, <1>10, StillUnadmitted DEF IInv
<1>14. Entry(s, p) \in sessions'[c]
  BY <1>1, <1>2
<1>15. Forgotten
  <2> SUFFICES ASSUME NEW d \in up, NEW t \in Spaces, NEW q \in Principals,
                      Entry(t, q) \in EntriesOf(waiters, d), Entry(t, q) \notin EntriesOf(waiters', d)
               PROVE  <<d, t, q>> \in notice' \/ Entry(t, q) \in sessions'[d]
    BY DEF Forgotten
  <2>1. d \in Keys /\ d # p
    BY <1>2, KeysAre
  <2>2. Entry(t, q) = Entry(s, p) /\ t = s /\ q = p
    BY <1>9, <2>1, EntryIs
  <2>3. CASE d = c
    BY <1>14, <2>2, <2>3
  <2>4. CASE d # c
    <3>1. d \in others /\ Entry(s, p) \in EntriesOf(waiters, p)
      BY <1>9, <2>1, <2>4
    <3> HIDE DEF others
    <3> QED
      BY <1>1, <2>2, <3>1
  <2> QED
    BY <2>3, <2>4
<1>16. Answered
  <2> SUFFICES ASSUME NEW t \in Spaces, NEW q \in Principals,
                      Entry(t, q) \in EntriesOf(waiters, q), Entry(t, q) \notin EntriesOf(waiters', q),
                      NEW d \in Serving(q, up', auth', sessions')
               PROVE  <<d, t, q>> \in notice' \/ Entry(t, q) \in sessions'[d]
    BY DEF Answered
  <2>1. q \in Keys /\ q # c
    BY KeysAre
  <2>2. Entry(t, q) = Entry(s, p) /\ t = s /\ q = p /\ Entry(s, p) \in EntriesOf(waiters, p)
    BY <1>9, <2>1, EntryIs
  <2>3. d = c \/ d \in others
    BY <1>1, <2>2
  <2> HIDE DEF others
  <2> QED
    BY <1>1, <1>14, <2>2, <2>3
<1> QED
  BY <1>11, <1>12, <1>13, <1>15, <1>16 DEF IInv

\* A session is closed.
LEMMA CloseSessionStep ==
  ASSUME IInv, NEW c \in Connections, NEW s \in Spaces, NEW p \in Principals, CloseSession(c, s, p)
  PROVE  IInv' /\ Forgotten /\ Answered
<1>1. /\ \/ sessions' = [sessions EXCEPT ![c] = @ \ {Entry(s, p)}] /\ lapsed' = lapsed
         \/ sessions' = sessions /\ lapsed' = [lapsed EXCEPT ![c] = @ \ {Entry(s, p)}]
      /\ up' = up /\ auth' = auth /\ granted' = granted /\ stale' = stale /\ notice' = {}
      /\ waiters' = Reap(waiters, up, auth, sessions')
  BY DEF CloseSession
<1>2. /\ Sound(waiters) /\ up \subseteq Connections
      /\ sessions \in [Connections -> SUBSET Pairs] /\ lapsed \in [Connections -> SUBSET Pairs]
  BY DEF IInv, Typed
<1>a. waiters' = Reap(waiters, up, auth, sessions') /\ Sound(waiters)
  BY <1>1, <1>2
<1>3. /\ Sound(waiters')
      /\ \A k \in Keys : EntriesOf(waiters', k) =
           IF k \in Principals /\ Serving(k, up, auth, sessions') = {} THEN {} ELSE EntriesOf(waiters, k)
  BY <1>a, ReapIs
<1>b. /\ sessions' \in [Connections -> SUBSET Pairs] /\ lapsed' \in [Connections -> SUBSET Pairs]
      /\ \A d \in Connections : sessions'[d] \subseteq sessions[d] /\ lapsed'[d] \subseteq lapsed[d]
  BY <1>1, <1>2
<1>4. Typed'
  BY <1>1, <1>3, <1>b DEF IInv, Typed
<1>5. ClosedEmpty'
  BY <1>1, <1>3, <1>b, KeysAre DEF IInv, ClosedEmpty, Registered
<1>6. Unadmitted'
  BY <1>1, <1>3, StillUnadmitted DEF IInv
<1>7. Forgotten
  BY <1>2, <1>3, KeysAre DEF Forgotten
<1>8. Answered
  BY <1>1, <1>3, KeysAre DEF Answered
<1> QED
  BY <1>4, <1>5, <1>6, <1>7, <1>8 DEF IInv

\* A connection closes: its entries are held, and reaped unless someone serves them.
LEMMA DisconnectStep ==
  ASSUME IInv, NEW c \in Connections, Disconnect(c)
  PROVE  IInv' /\ Forgotten /\ Answered
<1> DEFINE z == Hold(waiters, c)
<1>1. /\ c \in up /\ up' = up \ {c} /\ auth' = [auth EXCEPT ![c] = {}]
      /\ sessions' = [sessions EXCEPT ![c] = {}] /\ lapsed' = [lapsed EXCEPT ![c] = {}]
      /\ granted' = granted /\ stale' = stale
      /\ notice' = {} /\ waiters' = Reap(z, up', auth', sessions')
  BY DEF Disconnect
<1>2. /\ Sound(waiters) /\ sessions \in [Connections -> SUBSET Pairs] /\ up \subseteq Connections
      /\ lapsed \in [Connections -> SUBSET Pairs] /\ auth \in [Connections -> SUBSET Principals]
  BY DEF IInv, Typed
<1>3. /\ Sound(z) /\ EntriesOf(z, c) = {}
      /\ \A d \in Connections \ {c} : EntriesOf(z, d) = EntriesOf(waiters, d)
      /\ \A p \in Principals :
           /\ EntriesOf(z, p) \subseteq EntriesOf(waiters, p) \cup {e \in EntriesOf(waiters, c) : e[2] = p}
           /\ \/ EntriesOf(waiters, p) \cup {e \in EntriesOf(waiters, c) : e[2] = p} \subseteq EntriesOf(z, p)
              \/ Len(z.byConnection[p]) = Limit
  BY <1>2, HoldIs
<1> HIDE DEF z
<1>a. waiters' = Reap(z, up', auth', sessions') /\ Sound(z)
  BY <1>1, <1>3
<1>4. /\ Sound(waiters')
      /\ \A k \in Keys : EntriesOf(waiters', k) =
           IF k \in Principals /\ Serving(k, up', auth', sessions') = {} THEN {} ELSE EntriesOf(z, k)
  BY <1>a, ReapIs
<1>5. \A k \in Keys : EntriesOf(waiters', k) \subseteq EntriesOf(waiters, k) \cup EntriesOf(waiters, c)
  BY <1>3, <1>4, KeysAre
<1>6. Typed'
  BY <1>1, <1>4 DEF IInv, Typed
<1>7. ClosedEmpty'
  BY <1>1, <1>2, <1>3, <1>4, KeysAre DEF IInv, ClosedEmpty, Registered
<1>8. Unadmitted'
  BY <1>1, <1>5, KeysAre, StillUnadmitted DEF IInv
<1>9. ASSUME NEW p \in Principals, Serving(p, up', auth', sessions') # {}
      PROVE  \/ /\ EntriesOf(waiters, p) \subseteq EntriesOf(waiters', p)
                /\ \A s \in Spaces : Entry(s, p) \in EntriesOf(waiters, c) => Entry(s, p) \in EntriesOf(waiters', p)
             \/ Len(waiters'.byConnection[p]) = Limit
  <2>1. p \in Keys /\ EntriesOf(waiters', p) = EntriesOf(z, p)
    BY <1>4, <1>9, KeysAre
  <2>2. Len(waiters'.byConnection[p]) = Len(z.byConnection[p])
    BY <1>3, <1>4, <2>1, SameLength
  <2>3. \A s \in Spaces : Entry(s, p)[2] = p
    BY DEF Entry
  <2> QED
    BY <1>3, <2>1, <2>2, <2>3
<1>10. Forgotten
  <2> SUFFICES ASSUME NEW d \in up, NEW t \in Spaces, NEW q \in Principals,
                      Entry(t, q) \in EntriesOf(waiters, d), Entry(t, q) \notin EntriesOf(waiters', d)
               PROVE  /\ d \notin up'
                      /\ \/ Entry(t, q) \in EntriesOf(waiters', q)
                         \/ Serving(q, up', auth', sessions') = {}
                         \/ Len(waiters'.byConnection[q]) = Limit
    BY DEF Forgotten
  <2>1. d \in Connections /\ d \in Keys /\ d \notin Principals
    BY <1>2, KeysAre
  <2>2. d = c
    BY <1>3, <1>4, <2>1
  <2> QED
    BY <1>1, <1>9, <2>2
<1>11. Answered
  BY <1>9 DEF Answered
<1> QED
  BY <1>6, <1>7, <1>8, <1>10, <1>11 DEF IInv

\* The additions of a revocation.
LEMMA RevokedIs ==
  ASSUME NEW T \in SUBSET (Connections \X Principals), NEW s \in Spaces,
         NEW xs \in SetToSeqs({Addition(e[1], Entry(s, e[2])) : e \in T})
  PROVE  /\ xs \in Seq(Edits)
         /\ \A k, e : Removal(k, e) \notin Range(xs)
         /\ \A k, e : Addition(k, e) \in Range(xs) =>
              \E t \in T : k = t[1] /\ e = Entry(s, t[2])
<1> DEFINE S == {Addition(e[1], Entry(s, e[2])) : e \in T}
           f == [t \in T |-> Addition(t[1], Entry(s, t[2]))]
           n == Cardinality(S)
<1>1. IsFiniteSet(Connections \X Principals)
  BY WaitersAssumption, FS_Product
<1>2. IsFiniteSet(T)
  BY <1>1, FS_Subset
<1>3. f \in Surjection(T, S)
  BY DEF Surjection
<1>4. S \subseteq Edits
  <2> SUFFICES ASSUME NEW t \in T PROVE Addition(t[1], Entry(s, t[2])) \in Edits
    OBVIOUS
  <2>1. t[1] \in Keys /\ Entry(s, t[2]) \in Pairs
    BY KeysAre, EntryIs
  <2> QED
    BY <2>1, EditKinds
<1>5. xs \in [1..n -> S]
  BY DEF SetToSeqs
<1>6. \A x \in S : \E t \in T : x = Addition(t[1], Entry(s, t[2]))
  OBVIOUS
<1> HIDE DEF S, f
<1>7. IsFiniteSet(S)
  BY <1>2, <1>3, FS_Surjection
<1>8. n \in Nat
  BY <1>7, FS_CardinalityType
<1> HIDE DEF n
<1>9. xs \in Seq(Edits)
  BY <1>4, <1>5, <1>8
<1>10. Range(xs) \subseteq S
  BY <1>5 DEF Range
<1>11. \A k, e : Removal(k, e) \notin S
  BY <1>6, EditKinds
<1>12. \A k, e : Addition(k, e) \in S => \E t \in T : k = t[1] /\ e = Entry(s, t[2])
  BY <1>6, EditKinds
<1> QED
  BY <1>9, <1>10, <1>11, <1>12

\* What the server does when it acts on the list of s.
LEMMA AppliesIs ==
  ASSUME IInv, NEW s \in Spaces, NEW admitted \in SUBSET Principals, up' = up, auth' = auth,
         Applies(s, admitted)
  PROVE  /\ Sound(waiters')
         /\ sessions' = [c \in Connections |-> {e \in sessions[c] : e[1] = s => e[2] \in admitted}]
         /\ lapsed' = [c \in Connections |-> {e \in lapsed[c] : e[1] = s => e[2] \in admitted}]
         /\ notice' \subseteq Connections \X Spaces \X Principals
         /\ ClosedEmpty'
         /\ \A k \in Keys : \A e \in EntriesOf(waiters', k) :
              /\ e[1] = s => e[2] \notin admitted
              /\ e[1] # s => e \in EntriesOf(waiters, k)
         /\ Forgotten /\ Answered
<1> DEFINE T == {f \in Connections \X Principals :
                   Entry(s, f[2]) \in Registered(f[1]) /\ f[2] \notin admitted}
<1>1. PICK revoked \in SetToSeqs({Addition(e[1], Entry(s, e[2])) : e \in T}) :
        LET waiting == EditAll(waiters, revoked)
            reaped == Reap(waiting, up, auth, sessions')
        IN /\ notice' = Recipients(reaped, s, admitted, sessions')
           /\ waiters' = Take(reaped, s, admitted)
  BY DEF Applies
<1> DEFINE y == EditAll(waiters, revoked)
           z == Reap(y, up, auth, sessions')
           A == Range(revoked)
<1>2. /\ sessions' = [c \in Connections |-> {e \in sessions[c] : e[1] = s => e[2] \in admitted}]
      /\ lapsed' = [c \in Connections |-> {e \in lapsed[c] : e[1] = s => e[2] \in admitted}]
  BY DEF Applies
<1>b. ASSUME NEW c \in Connections
      PROVE  Registered(c)' = {e \in Registered(c) : e[1] = s => e[2] \in admitted}
  BY <1>2 DEF Registered
<1>3. /\ Sound(waiters) /\ sessions \in [Connections -> SUBSET Pairs] /\ up \subseteq Connections
      /\ lapsed \in [Connections -> SUBSET Pairs] /\ auth \in [Connections -> SUBSET Principals]
  BY DEF IInv, Typed
<1>4. notice' = Recipients(z, s, admitted, sessions') /\ waiters' = Take(z, s, admitted)
  BY <1>1
<1>5. T \in SUBSET (Connections \X Principals)
  OBVIOUS
<1>6. \A t \in T : Entry(s, t[2]) \in Registered(t[1]) /\ t[2] \notin admitted
                   /\ t[1] \in Connections /\ t[2] \in Principals
  OBVIOUS
<1> HIDE DEF T
<1>7. /\ revoked \in Seq(Edits)
      /\ \A k, e : Removal(k, e) \notin A
      /\ \A k, e : Addition(k, e) \in A => \E t \in T : k = t[1] /\ e = Entry(s, t[2])
  BY <1>5, RevokedIs
<1>8. Edited(waiters, y, A)
  BY <1>3, <1>7, EditAllIs
<1>a. z = Reap(y, up, auth, sessions') /\ Sound(y)
  BY <1>8 DEF Edited
<1> HIDE DEF y, z, A
<1>9. /\ Sound(z)
      /\ \A k \in Keys : EntriesOf(z, k) =
           IF k \in Principals /\ Serving(k, up, auth, sessions') = {} THEN {} ELSE EntriesOf(y, k)
  BY <1>a, ReapIs
<1>10. /\ Sound(waiters')
       /\ \A k \in Keys : EntriesOf(waiters', k) =
            {e \in EntriesOf(z, k) : ~ (e[1] = s /\ e[2] \in admitted)}
  BY <1>4, <1>9, TakeIs
<1>11. ASSUME NEW k \in Keys, NEW e \in Added(A, k)
       PROVE  /\ k \in Connections /\ e \in Registered(k) /\ e \notin Registered(k)'
              /\ e \in Pairs /\ e[1] = s /\ e[2] \notin admitted
  <2>1. e \in Pairs /\ Addition(k, e) \in A
    BY DEF Added
  <2>2. PICK t \in T : k = t[1] /\ e = Entry(s, t[2])
    BY <1>7, <2>1
  <2>3. e[1] = s /\ e[2] = t[2]
    BY <2>2 DEF Entry
  <2> QED
    BY <1>b, <1>6, <2>1, <2>2, <2>3
<1>12. ASSUME NEW k \in Keys, NEW e \in EntriesOf(y, k)
       PROVE  e \in EntriesOf(waiters, k) \/ (e[1] = s /\ e[2] \notin admitted /\ k \in Connections /\ e \in Registered(k))
  BY <1>8, <1>11 DEF Edited
<1>13. ASSUME NEW p \in Principals PROVE EntriesOf(y, p) = EntriesOf(waiters, p)
  <2>1. p \in Keys /\ Added(A, p) = {}
    BY <1>11, KeysAre
  <2>2. EntriesOf(y, p) = {e \in EntriesOf(waiters, p) : Removal(p, e) \notin A}
    BY <1>8, <2>1 DEF Edited
  <2> QED
    BY <1>7, <2>2
<1>14. ASSUME NEW k \in Keys, NEW e \in EntriesOf(waiters', k)
       PROVE  (e[1] = s => e[2] \notin admitted) /\ (e[1] # s => e \in EntriesOf(waiters, k))
  <2>1. e \in EntriesOf(y, k) /\ ~ (e[1] = s /\ e[2] \in admitted)
    BY <1>9, <1>10
  <2> QED
    BY <1>12, <2>1
<1>15. ASSUME NEW c \in Connections \ up PROVE EntriesOf(waiters', c) = {} /\ Registered(c)' = {}
  <2>1. EntriesOf(waiters, c) = {} /\ Registered(c) = {} /\ c \in Keys
    BY KeysAre DEF IInv, ClosedEmpty
  <2>2. EntriesOf(y, c) = {}
    BY <1>12, <2>1
  <2>3. EntriesOf(waiters', c) = {}
    BY <1>9, <1>10, <2>1, <2>2
  <2> QED
    BY <1>b, <2>1, <2>3
<1>16. ASSUME NEW k \in Keys, NEW e \in Pairs
       PROVE  <<k, e[2]>> \in Taken(z, s, admitted) <=> Entry(s, e[2]) \in EntriesOf(z, k) /\ e[2] \in admitted
  <2>1. e[2] \in Principals /\ <<k, e[2]>> \in Keys \X Principals
    BY EntryIs
  <2>2. Entry(s, e[2]) \in EntriesOf(z, k) <=> e[2] \in z.bySpace[s][k]
    BY <1>9, <2>1 DEF Sound
  <2> QED
    BY <2>1, <2>2 DEF Taken
<1>17. notice' \subseteq Connections \X Spaces \X Principals
  <2>1. \A q : Serving(q, up, auth, sessions') \subseteq up
    BY DEF Serving
  <2>2. \A e \in Taken(z, s, admitted) : e[2] \in Principals
    BY DEF Taken
  <2> QED
    BY <1>3, <1>4, <2>1, <2>2 DEF Recipients
<1>18. ASSUME NEW k \in Keys, NEW p \in Principals, Entry(s, p) \in EntriesOf(z, k), p \in admitted,
              NEW c, c \in IF k \in Principals THEN Serving(p, up, auth, sessions') ELSE {k} \cap up
       PROVE  <<c, s, p>> \in notice'
  <2>1. Entry(s, p) \in Pairs /\ Entry(s, p)[2] = p
    BY EntryIs DEF Entry
  <2>2. <<k, p>> \in Taken(z, s, admitted)
    BY <1>16, <1>18, <2>1
  <2>3. (<<k, p>>)[1] = k /\ (<<k, p>>)[2] = p
    OBVIOUS
  <2>4. <<c, s, (<<k, p>>)[2]>> \in Recipients(z, s, admitted, sessions')
    BY <1>18, <2>2, <2>3 DEF Recipients
  <2> QED
    BY <1>4, <2>3, <2>4
<1>19. Forgotten
  <2> SUFFICES ASSUME NEW c \in up, NEW t \in Spaces, NEW q \in Principals,
                      Entry(t, q) \in EntriesOf(waiters, c), Entry(t, q) \notin EntriesOf(waiters', c)
               PROVE  <<c, t, q>> \in notice' \/ (c \in up' /\ Overfull(c))
    BY DEF Forgotten
  <2>1. c \in Keys /\ c \in Connections /\ c \notin Principals
    BY <1>3, KeysAre
  <2>2. Entry(t, q)[1] = t /\ Entry(t, q)[2] = q
    BY DEF Entry
  <2>3. CASE Entry(t, q) \in EntriesOf(y, c)
    <3>1. Entry(t, q) \in EntriesOf(z, c)
      BY <1>9, <2>1, <2>3
    <3>2. t = s /\ q \in admitted
      BY <1>10, <2>1, <2>2, <3>1
    <3> QED
      BY <1>18, <2>1, <3>1, <3>2
  <2>4. CASE Entry(t, q) \notin EntriesOf(y, c)
    <3> DEFINE S == EntriesOf(waiters, c) \cup Added(A, c)
               U == EntriesOf(waiters, c) \cup (EntriesOf(waiters', c) \cup (Registered(c) \ Registered(c)'))
    <3>1. Cardinality(S) > Limit
      BY <1>7, <1>8, <2>1, <2>4 DEF Edited
    <3>2. EntriesOf(waiters, c) \subseteq Pairs /\ EntriesOf(waiters', c) \subseteq Pairs
      BY <1>3, <1>10, <2>1, EntriesIn
    <3>a. Registered(c) \subseteq Pairs
      BY <1>3, <2>1 DEF Registered
    <3>3. S \in SUBSET U /\ S \in SUBSET Pairs /\ U \in SUBSET Pairs
      BY <1>11, <2>1, <3>2, <3>a
    <3> HIDE DEF S, U
    <3>4. IsFiniteSet(U) /\ Cardinality(U) \in Nat /\ Cardinality(S) \in Nat
      BY <3>3, PairsFinite
    <3>5. Cardinality(S) <= Cardinality(U)
      BY <3>3, <3>4, FS_Subset
    <3>6. Cardinality(U) > Limit
      BY <3>1, <3>4, <3>5, WaitersAssumption
    <3>7. Overfull(c)
      BY <3>6 DEF Overfull, U
    <3> QED
      BY <3>7
  <2> QED
    BY <2>3, <2>4
<1>20. Answered
  <2> SUFFICES ASSUME NEW t \in Spaces, NEW q \in Principals,
                      Entry(t, q) \in EntriesOf(waiters, q), Entry(t, q) \notin EntriesOf(waiters', q),
                      NEW c \in Serving(q, up, auth, sessions')
               PROVE  <<c, t, q>> \in notice'
    BY DEF Answered
  <2>1. q \in Keys
    BY KeysAre
  <2>2. Entry(t, q)[1] = t /\ Entry(t, q)[2] = q
    BY DEF Entry
  <2>3. Entry(t, q) \in EntriesOf(z, q)
    BY <1>9, <1>13, <2>1
  <2>4. t = s /\ q \in admitted
    BY <1>10, <2>1, <2>2, <2>3
  <2> QED
    BY <1>18, <2>1, <2>3, <2>4
<1> QED
  BY <1>2, <1>10, <1>14, <1>15, <1>17, <1>19, <1>20 DEF ClosedEmpty

\* Unadmitted once the server has acted on a list.
LEMMA AppliedUnadmitted ==
  ASSUME IInv, NEW s \in Spaces, granted' \in [Spaces -> SUBSET Principals],
         \A t \in Spaces : t # s => granted'[t] = granted[t],
         stale \ {s} \subseteq stale',
         Sound(waiters'),
         \A k \in Keys : \A e \in EntriesOf(waiters', k) :
           /\ e[1] = s => e[2] \notin granted'[s]
           /\ e[1] # s => e \in EntriesOf(waiters, k)
  PROVE  Unadmitted'
<1> SUFFICES ASSUME NEW k \in Keys, NEW t \in Spaces, NEW q \in Principals,
                    Entry(t, q) \in EntriesOf(waiters', k), t \notin stale'
             PROVE  q \notin granted'[t]
  BY DEF Unadmitted
<1>1. Entry(t, q)[1] = t /\ Entry(t, q)[2] = q
  BY DEF Entry
<1>2. CASE t = s
  BY <1>1, <1>2
<1>3. CASE t # s
  <2>1. Entry(t, q) \in EntriesOf(waiters, k) /\ t \notin stale
    BY <1>1, <1>3
  <2>2. q \notin granted[t]
    BY <2>1 DEF IInv, Unadmitted
  <2> QED
    BY <1>3, <2>2
<1> QED
  BY <1>2, <1>3

\* The sessions a list leaves.
LEMMA SessionsLeft ==
  ASSUME IInv, NEW s, NEW admitted,
         sessions' = [c \in Connections |-> {e \in sessions[c] : e[1] = s => e[2] \in admitted}],
         lapsed' = [c \in Connections |-> {e \in lapsed[c] : e[1] = s => e[2] \in admitted}]
  PROVE  sessions' \in [Connections -> SUBSET Pairs] /\ lapsed' \in [Connections -> SUBSET Pairs]
BY DEF IInv, Typed

\* A list after one change.
LEMMA ChangedList ==
  ASSUME IInv, NEW s \in Spaces, NEW p \in Principals,
         granted' = [granted EXCEPT ![s] = IF p \in @ THEN @ \ {p} ELSE @ \cup {p}]
  PROVE  /\ granted' \in [Spaces -> SUBSET Principals]
         /\ \A t \in Spaces : t # s => granted'[t] = granted[t]
BY DEF IInv, Typed

\* A commit changes the list of a space.
LEMMA ChangeListStep ==
  ASSUME IInv, NEW s \in Spaces, NEW p \in Principals, ChangeList(s, p)
  PROVE  IInv' /\ Forgotten /\ Answered
<1>1. /\ granted' = [granted EXCEPT ![s] = IF p \in @ THEN @ \ {p} ELSE @ \cup {p}]
      /\ up' = up /\ auth' = auth /\ stale' = stale /\ Applies(s, granted'[s])
  BY DEF ChangeList
<1>2. /\ granted' \in [Spaces -> SUBSET Principals]
      /\ \A t \in Spaces : t # s => granted'[t] = granted[t]
  BY <1>1, ChangedList
<1>3. PICK admitted : admitted = granted'[s]
  OBVIOUS
<1>4. admitted \in SUBSET Principals /\ Applies(s, admitted)
  BY <1>1, <1>2, <1>3
<1>5. /\ Sound(waiters')
      /\ sessions' = [c \in Connections |-> {e \in sessions[c] : e[1] = s => e[2] \in admitted}]
      /\ lapsed' = [c \in Connections |-> {e \in lapsed[c] : e[1] = s => e[2] \in admitted}]
      /\ notice' \subseteq Connections \X Spaces \X Principals
      /\ ClosedEmpty'
      /\ \A k \in Keys : \A e \in EntriesOf(waiters', k) :
           /\ e[1] = s => e[2] \notin admitted
           /\ e[1] # s => e \in EntriesOf(waiters, k)
      /\ Forgotten /\ Answered
  BY <1>1, <1>4, AppliesIs
<1>6. Unadmitted'
  BY <1>1, <1>2, <1>3, <1>5, AppliedUnadmitted
<1>7. Typed'
  BY <1>1, <1>2, <1>5, SessionsLeft DEF IInv, Typed
<1> QED
  BY <1>5, <1>6, <1>7 DEF IInv

\* Another process changes the list.
LEMMA ChangeListElsewhereStep ==
  ASSUME IInv, NEW s \in Spaces, NEW p \in Principals, ChangeListElsewhere(s, p)
  PROVE  IInv' /\ Forgotten /\ Answered
<1>1. /\ granted' = [granted EXCEPT ![s] = IF p \in @ THEN @ \ {p} ELSE @ \cup {p}]
      /\ up' = up /\ auth' = auth /\ stale' = stale \cup {s} /\ notice' = {}
      /\ waiters' = waiters /\ sessions' = sessions /\ lapsed' = lapsed
  BY DEF ChangeListElsewhere
<1>2. /\ granted' \in [Spaces -> SUBSET Principals]
      /\ \A t \in Spaces : t # s => granted'[t] = granted[t]
  BY <1>1, ChangedList
<1>3. Typed'
  BY <1>1, <1>2 DEF IInv, Typed
<1>4. ClosedEmpty'
  BY <1>1 DEF IInv, ClosedEmpty, Registered
<1>5. Unadmitted'
  BY <1>1, <1>2 DEF IInv, Unadmitted
<1> QED
  BY <1>1, <1>3, <1>4, <1>5, IdleStep DEF IInv

\* The server acts on a list another process changed.
LEMMA RefreshStep ==
  ASSUME IInv, NEW s \in Spaces, Refresh(s)
  PROVE  IInv' /\ Forgotten /\ Answered
<1>1. /\ stale' = stale \ {s} /\ up' = up /\ auth' = auth /\ granted' = granted
      /\ Applies(s, granted[s])
  BY DEF Refresh
<1>2. granted \in [Spaces -> SUBSET Principals] /\ granted[s] \in SUBSET Principals
  BY DEF IInv, Typed
<1>3. /\ Sound(waiters')
      /\ sessions' = [c \in Connections |-> {e \in sessions[c] : e[1] = s => e[2] \in granted[s]}]
      /\ lapsed' = [c \in Connections |-> {e \in lapsed[c] : e[1] = s => e[2] \in granted[s]}]
      /\ notice' \subseteq Connections \X Spaces \X Principals
      /\ ClosedEmpty'
      /\ \A k \in Keys : \A e \in EntriesOf(waiters', k) :
           /\ e[1] = s => e[2] \notin granted[s]
           /\ e[1] # s => e \in EntriesOf(waiters, k)
      /\ Forgotten /\ Answered
  BY <1>1, <1>2, AppliesIs
<1>4. Unadmitted'
  BY <1>1, <1>2, <1>3, AppliedUnadmitted
<1>5. Typed'
  BY <1>1, <1>2, <1>3, SessionsLeft DEF IInv, Typed
<1> QED
  BY <1>3, <1>4, <1>5 DEF IInv

\* Before anyone is refused.
LEMMA InitHolds == Init => IInv
<1> SUFFICES ASSUME Init PROVE IInv
  OBVIOUS
<1> DEFINE by == [k \in Keys |-> <<>>]
           on == [s \in Spaces |-> [k \in Keys |-> {}]]
<1>1. /\ waiters = [byConnection |-> by, bySpace |-> on] /\ up = Connections
      /\ auth = [c \in Connections |-> {}] /\ sessions = [c \in Connections |-> {}]
      /\ lapsed = [c \in Connections |-> {}] /\ granted = [s \in Spaces |-> {}] /\ stale = {} /\ notice = {}
  BY DEF Init
<1>2. /\ waiters.byConnection = by /\ waiters.bySpace = on
  BY <1>1
<1>3. by \in [Keys -> Seq(Pairs)] /\ on \in [Spaces -> [Keys -> SUBSET Principals]]
  OBVIOUS
<1>4. \A k \in Keys : waiters.byConnection[k] = <<>> /\ EntriesOf(waiters, k) = {}
  <2>1. Range(<<>>) = {}
    BY DEF Range
  <2> QED
    BY <1>2, <2>1 DEF EntriesOf
<1>5. \A s \in Spaces, k \in Keys : waiters.bySpace[s][k] = {}
  BY <1>2
<1>6. IsInjective(<<>>) /\ Len(<<>>) = 0 /\ 0 <= Limit
  BY WaitersAssumption DEF IsInjective
<1>7. waiters = [byConnection |-> waiters.byConnection, bySpace |-> waiters.bySpace]
  BY <1>1, <1>2
<1> HIDE DEF by, on
<1>8. Sound(waiters)
  BY <1>2, <1>3, <1>4, <1>5, <1>6, <1>7 DEF Sound
<1>9. Typed
  BY <1>1, <1>8 DEF Typed
<1> QED
  BY <1>1, <1>4, <1>9 DEF IInv, ClosedEmpty, Unadmitted, Registered

\* Every step keeps the invariant and forgets no refusal unanswered.
LEMMA InvStep ==
  ASSUME IInv, [Next]_vars
  PROVE  IInv' /\ Forgotten /\ Answered
<1>1. ASSUME NEW c \in Connections, NEW p \in Principals, Authenticate(c, p) \/ Lapse(c, p) \/ Release(c, p)
      PROVE  IInv' /\ Forgotten /\ Answered
  BY <1>1, AuthenticateStep, LapseStep, ReleaseStep
<1>2. ASSUME NEW c \in Connections, NEW s \in Spaces, NEW p \in Principals,
             RefuseOpen(c, s, p) \/ Open(c, s, p) \/ CloseSession(c, s, p)
      PROVE  IInv' /\ Forgotten /\ Answered
  BY <1>2, RefuseOpenStep, OpenStep, CloseSessionStep
<1>3. ASSUME NEW c \in Connections, Disconnect(c) PROVE IInv' /\ Forgotten /\ Answered
  BY <1>3, DisconnectStep
<1>4. ASSUME NEW s \in Spaces, NEW p \in Principals, ChangeList(s, p) \/ ChangeListElsewhere(s, p)
      PROVE  IInv' /\ Forgotten /\ Answered
  BY <1>4, ChangeListStep, ChangeListElsewhereStep
<1>5. ASSUME NEW s \in Spaces, Refresh(s) PROVE IInv' /\ Forgotten /\ Answered
  BY <1>5, RefreshStep
<1>6. CASE UNCHANGED vars
  <2>1. /\ waiters' = waiters /\ up' = up /\ auth' = auth /\ sessions' = sessions
        /\ lapsed' = lapsed /\ granted' = granted /\ stale' = stale /\ notice' = notice
    BY <1>6 DEF vars
  <2>2. IInv'
    BY <2>1 DEF IInv, Typed, ClosedEmpty, Unadmitted, Registered
  <2> QED
    BY <2>1, <2>2, IdleStep
<1> QED
  BY <1>1, <1>2, <1>3, <1>4, <1>5, <1>6 DEF Next

-----------------------------------------------------------------------------
(* The theorems                                                            *)

\* The invariant holds whoever comes and goes and whatever the lists become.
THEOREM Invariance == Spec => []IInv
<1>1. IInv /\ [Next]_vars => IInv'
  BY InvStep
<1> QED
  BY <1>1, InitHolds, PTL DEF Spec

\* The indexes and the server's tables keep their shapes (#byConnection and
\* #bySpace).
THEOREM TypeCorrect == Spec => []TypeOK
<1>1. IInv => TypeOK
  BY DEF IInv, Typed, Sound, TypeOK
<1> QED
  BY <1>1, Invariance, PTL

\* The two indexes of AdmissionWaiters always hold the same entries, each once,
\* no more than the limit under one key, and none of a connection that is
\* closed (remove, #add and holdAllForConnection).
THEOREM SameEntries == Spec => []IndexesAgree
<1>1. IInv => IndexesAgree
  <2> SUFFICES ASSUME IInv PROVE IndexesAgree
    OBVIOUS
  <2>1. Sound(waiters)
    BY DEF IInv, Typed
  <2>2. \A k \in Keys :
          /\ \A s \in Spaces, p \in Principals :
               Entry(s, p) \in EntriesOf(waiters, k) <=> p \in waiters.bySpace[s][k]
          /\ Len(waiters.byConnection[k]) <= Limit
    BY <2>1 DEF Sound
  <2>3. \A k \in Keys : Cardinality(EntriesOf(waiters, k)) = Len(waiters.byConnection[k])
    BY <2>1, EntriesIn
  <2>4. ASSUME NEW c \in Connections \ up PROVE waiters.byConnection[c] = <<>>
    <3>1. c \in Keys /\ EntriesOf(waiters, c) = {}
      BY KeysAre DEF IInv, ClosedEmpty
    <3>2. waiters.byConnection[c] \in Seq(Pairs)
      BY <2>1, <3>1 DEF Sound
    <3>3. Len(waiters.byConnection[c]) = 0
      BY <2>3, <3>1, FS_EmptySet
    <3> QED
      BY <3>2, <3>3
  <2> QED
    BY <2>2, <2>3, <2>4 DEF IndexesAgree
<1> QED
  BY <1>1, Invariance, PTL

\* Once the server has acted on a space's list, no principal the list admits
\* still waits, on a connection or held (#noticeAdmissions, after
\* #revokeDeauthorizedSessions).
THEOREM AdmittedDoNotWait == Spec => []NoAdmittedWaiter
<1>1. IInv => NoAdmittedWaiter
  <2> SUFFICES ASSUME IInv, NEW k \in Keys, NEW s \in Spaces \ stale, NEW p \in waiters.bySpace[s][k]
               PROVE  p \notin granted[s]
    BY DEF NoAdmittedWaiter
  <2>1. Sound(waiters)
    BY DEF IInv, Typed
  <2>2. p \in Principals /\ Entry(s, p) \in EntriesOf(waiters, k)
    BY <2>1 DEF Sound
  <2> QED
    BY <2>2 DEF IInv, Unadmitted
<1> QED
  BY <1>1, Invariance, PTL

\* A recorded refusal leaves its connection only told, opened, given up, pushed
\* out, or with the connection, and is then held for whoever still serves its
\* principal (forgetAdmissionWaits and holdAllForConnection).
THEOREM RefusalsKept == Spec => NeverForgotten
<1>1. IInv /\ [Next]_vars => [Forgotten]_vars
  BY InvStep
<1> QED
  BY <1>1, Invariance, PTL DEF Spec, NeverForgotten, Forgotten

\* A held refusal goes with its answer to all who serve its principal, or for
\* want of room, or when nobody serves it (#noticeAdmissions, reapAdmissionWaits).
THEOREM HeldAreAnswered == Spec => HeldUntilAnswered
<1>1. IInv /\ [Next]_vars => [Answered]_vars
  BY InvStep
<1> QED
  BY <1>1, Invariance, PTL DEF Spec, HeldUntilAnswered, Answered
=============================================================================
