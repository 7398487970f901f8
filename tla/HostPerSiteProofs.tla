-------------------------- MODULE HostPerSiteProofs --------------------------
(***************************************************************************)
(* The draws of _filter_choose_one_host_per_site, for every number of      *)
(* slivers of a site, in every order, with any flags.                      *)
(*                                                                         *)
(* A total of weights is a fold, which takes out one host after another in *)
(* an order nobody knows.  What is summed does not depend on that order    *)
(* (SumOf), which is proved from the least number of hosts for which it    *)
(* would fail.                                                             *)
(***************************************************************************)
EXTENDS HostPerSite, FiniteSetTheorems, WellFoundedInduction,
        NaturalsInduction, TLAPS

-----------------------------------------------------------------------------
(* The fold.                                                               *)

Sum(w, S) == FoldFunctionOnSet(+, 0, w, S)

Pick(s) == CHOOSE x \in s : TRUE

AddPicked(w, s, g) ==
    IF s = {} THEN 0 ELSE w[Pick(s)] + g[s \ {Pick(s)}]

IsFold(w, S, g) == g = [s \in SUBSET S |-> AddPicked(w, s, g)]

LEMMA SumIsFold ==
    ASSUME NEW w, NEW S
    PROVE Sum(w, S) = (CHOOSE g : IsFold(w, S, g))[S]
  BY DEF Sum, FoldFunctionOnSet, MapThenFoldSet, IsFold, AddPicked, Pick

(* The least number of a set.                                              *)
LEMMA Least ==
    ASSUME NEW N \in SUBSET Nat, N # {}
    PROVE \E n \in N : \A m \in N : n <= m
  <1>1. \E n \in N : \A m \in N : <<m, n>> \notin OpToRel(<, Nat)
    BY WFMin, NatLessThanWellFounded, Zenon
  <1>2. PICK n \in N : \A m \in N : <<m, n>> \notin OpToRel(<, Nat)
    BY <1>1
  <1>3. \A m \in N : ~(m < n)
    BY <1>2 DEF OpToRel
  <1> QED
    BY <1>3

LEMMA Picked ==
    ASSUME NEW s, s # {}
    PROVE Pick(s) \in s
  BY DEF Pick

(* The subsets of a finite set, and what is left of them without a member. *)
LEMMA Smaller ==
    ASSUME NEW S, IsFiniteSet(S), NEW s \in SUBSET S
    PROVE /\ IsFiniteSet(s) /\ Cardinality(s) \in Nat
          /\ Cardinality(s) <= Cardinality(S)
          /\ Cardinality(s) = 0 <=> s = {}
          /\ \A x \in s : /\ s \ {x} \in SUBSET S
                          /\ Cardinality(s \ {x}) = Cardinality(s) - 1
                          /\ Cardinality(s \ {x}) \in Nat
  <1>1. IsFiniteSet(s) /\ Cardinality(s) <= Cardinality(S)
    BY FS_Subset
  <1>2. \A x \in s : IsFiniteSet(s \ {x})
                     /\ Cardinality(s \ {x}) = Cardinality(s) - 1
    BY <1>1, FS_RemoveElement
  <1> QED
    BY <1>1, <1>2, FS_CardinalityType, FS_EmptySet

(* There is a function the fold describes.                                 *)
FoldsUpTo(w, S, n, g) ==
    /\ g = [s \in SUBSET S |-> g[s]]
    /\ \A s \in SUBSET S : Cardinality(s) <= n => g[s] = AddPicked(w, s, g)

LEMMA FoldExists ==
    ASSUME NEW w, NEW S, IsFiniteSet(S)
    PROVE \E g : IsFold(w, S, g)
  <1> DEFINE N == {n \in Nat : \A g : ~FoldsUpTo(w, S, n, g)}
  <1>1. N = {}
    <2> SUFFICES ASSUME N # {} PROVE FALSE
      OBVIOUS
    <2>1. PICK n \in N : \A m \in N : n <= m
      BY Least, Zenon
    <2>2. n \in Nat /\ \A g : ~FoldsUpTo(w, S, n, g)
      BY <2>1
    <2>3. CASE n = 0
      <3> DEFINE g == [s \in SUBSET S |-> 0]
      <3>1. \A s \in SUBSET S : Cardinality(s) <= 0 => s = {}
        BY Smaller
      <3>2. FoldsUpTo(w, S, 0, g)
        BY <3>1 DEF FoldsUpTo, AddPicked
      <3> QED
        BY <2>2, <2>3, <3>2
    <2>4. CASE n # 0
      <3>1. n - 1 \in Nat /\ ~(n <= n - 1)
        BY <2>2, <2>4
      <3>2. n - 1 \notin N
        BY <2>1, <3>1
      <3>3. PICK g : FoldsUpTo(w, S, n - 1, g)
        BY <3>1, <3>2
      <3> DEFINE h == [s \in SUBSET S |-> AddPicked(w, s, g)]
      <3>4. ASSUME NEW s \in SUBSET S, Cardinality(s) <= n, s # {}
            PROVE h[s \ {Pick(s)}] = g[s \ {Pick(s)}]
        <4>1. /\ s \ {Pick(s)} \in SUBSET S
              /\ Cardinality(s \ {Pick(s)}) = Cardinality(s) - 1
              /\ Cardinality(s) \in Nat
          BY <3>4, Picked, Smaller
        <4>2. Cardinality(s \ {Pick(s)}) <= n - 1
          BY <2>2, <3>4, <4>1
        <4> QED
          BY <3>3, <4>1, <4>2 DEF FoldsUpTo
      <3>5. FoldsUpTo(w, S, n, h)
        BY <3>4 DEF FoldsUpTo, AddPicked
      <3> QED
        BY <2>2, <3>5
    <2> QED
      BY <2>3, <2>4
  <1>2. Cardinality(S) \in Nat
    BY FS_CardinalityType
  <1>3. PICK g : FoldsUpTo(w, S, Cardinality(S), g)
    BY <1>1, <1>2
  <1>4. \A s \in SUBSET S : Cardinality(s) <= Cardinality(S)
    BY Smaller
  <1>5. IsFold(w, S, g)
    BY <1>3, <1>4 DEF FoldsUpTo, IsFold
  <1> QED
    BY <1>5

(* And only one, on the sets that two such functions both know.            *)
LEMMA FoldUnique ==
    ASSUME NEW T, IsFiniteSet(T), NEW S \in SUBSET T, NEW w,
           NEW f, NEW g, IsFold(w, T, f), IsFold(w, S, g)
    PROVE \A s \in SUBSET S : f[s] = g[s]
  <1> DEFINE N == {n \in Nat : \E s \in SUBSET S : /\ Cardinality(s) = n
                                                   /\ f[s] # g[s]}
  <1>0. IsFiniteSet(S)
    BY FS_Subset
  <1>1. N = {}
    <2> SUFFICES ASSUME N # {} PROVE FALSE
      OBVIOUS
    <2>1. PICK n \in N : \A m \in N : n <= m
      BY Least, Zenon
    <2>2. PICK s \in SUBSET S : Cardinality(s) = n /\ f[s] # g[s]
      BY <2>1
    <2>3. f[s] = AddPicked(w, s, f) /\ g[s] = AddPicked(w, s, g)
      BY DEF IsFold
    <2>4. s # {}
      BY <2>2, <2>3 DEF AddPicked
    <2>5. /\ s \ {Pick(s)} \in SUBSET S
          /\ Cardinality(s \ {Pick(s)}) = n - 1 /\ n - 1 \in Nat /\ n \in Nat
      BY <1>0, <2>2, <2>4, Picked, Smaller
    <2>6. n - 1 \notin N
      BY <2>1, <2>5
    <2>7. f[s \ {Pick(s)}] = g[s \ {Pick(s)}]
      BY <2>5, <2>6
    <2> QED
      BY <2>2, <2>3, <2>7 DEF AddPicked
  <1>2. ASSUME NEW s \in SUBSET S PROVE f[s] = g[s]
    <2>1. Cardinality(s) \in Nat
      BY <1>0, Smaller
    <2> QED
      BY <1>1, <2>1
  <1> QED
    BY <1>2

(* Whichever member is taken out first, the fold is the same number.       *)
LEMMA FoldOrder ==
    ASSUME NEW S, IsFiniteSet(S), NEW w, \A x \in S : w[x] \in Nat,
           NEW g, IsFold(w, S, g)
    PROVE \A s \in SUBSET S : /\ g[s] \in Nat
                              /\ \A x \in s : g[s] = w[x] + g[s \ {x}]
  <1> DEFINE Right(s) == /\ g[s] \in Nat
                         /\ \A x \in s : /\ g[s \ {x}] \in Nat
                                         /\ g[s] = w[x] + g[s \ {x}]
             N == {n \in Nat : \E s \in SUBSET S : /\ Cardinality(s) = n
                                                   /\ ~Right(s)}
  <1>1. N = {}
    <2> SUFFICES ASSUME N # {} PROVE FALSE
      OBVIOUS
    <2>1. PICK n \in N : \A m \in N : n <= m
      BY Least, Zenon
    <2>2. PICK s \in SUBSET S : Cardinality(s) = n /\ ~Right(s)
      BY <2>1
    <2>3. g[s] = AddPicked(w, s, g)
      BY DEF IsFold
    <2>4. s # {}
      BY <2>2, <2>3 DEF AddPicked
    <2>5. \A x \in s : /\ s \ {x} \in SUBSET S
                       /\ Cardinality(s \ {x}) = n - 1 /\ n - 1 \in Nat
                       /\ n \in Nat
      BY <2>2, Smaller
    <2>6. ASSUME NEW x \in s PROVE Right(s \ {x})
      <3>1. n - 1 \notin N
        BY <2>1, <2>5
      <3>2. s \ {x} \in SUBSET S /\ Cardinality(s \ {x}) = n - 1
            /\ n - 1 \in Nat
        BY <2>5
      <3> HIDE DEF Right
      <3> QED
        BY <3>1, <3>2
    <2> DEFINE p == Pick(s)
    <2>7. p \in s /\ g[s] = w[p] + g[s \ {p}]
      BY <2>3, <2>4, Picked DEF AddPicked
    <2> HIDE DEF p
    <2>8. g[s] \in Nat
      <3>1. w[p] \in Nat /\ g[s \ {p}] \in Nat
        BY <2>6, <2>7
      <3> QED
        BY <2>7, <3>1
    <2>9. ASSUME NEW x \in s
          PROVE g[s \ {x}] \in Nat /\ g[s] = w[x] + g[s \ {x}]
      <3>1. g[s \ {x}] \in Nat /\ g[s \ {p}] \in Nat
        BY <2>6, <2>7
      <3>2. CASE x = p
        BY <2>7, <3>1, <3>2
      <3>3. CASE x # p
        <4> DEFINE rest == s \ {p, x}
        <4>1. (s \ {p}) \ {x} = rest /\ (s \ {x}) \ {p} = rest
          OBVIOUS
        <4>2. /\ g[s \ {p}] = w[x] + g[rest] /\ g[rest] \in Nat
              /\ g[s \ {x}] = w[p] + g[rest]
          BY <2>6, <2>7, <3>3, <4>1
        <4>3. w[x] \in Nat /\ w[p] \in Nat
          BY <2>7
        <4> HIDE DEF rest
        <4> QED
          BY <2>7, <3>1, <4>2, <4>3
      <3> QED
        BY <3>2, <3>3
    <2> QED
      BY <2>2, <2>7, <2>8, <2>9
  <1>2. ASSUME NEW s \in SUBSET S PROVE Right(s)
    <2>1. Cardinality(s) \in Nat
      BY Smaller
    <2> QED
      BY <1>1, <2>1
  <1> QED
    BY <1>2

(* So a sum can be taken apart at any member.                              *)
LEMMA SumOf ==
    ASSUME NEW S, IsFiniteSet(S), NEW w, \A x \in S : w[x] \in Nat
    PROVE /\ Sum(w, S) \in Nat
          /\ S = {} => Sum(w, S) = 0
          /\ \A x \in S : Sum(w, S) = w[x] + Sum(w, S \ {x})
  <1> DEFINE g == CHOOSE f : IsFold(w, S, f)
  <1>1. IsFold(w, S, g)
    BY FoldExists, Zenon
  <1>2. Sum(w, S) = g[S]
    BY SumIsFold
  <1> HIDE DEF g
  <1>3. /\ g[S] \in Nat
        /\ \A x \in S : g[S] = w[x] + g[S \ {x}]
    BY <1>1, FoldOrder
  <1>4. S = {} => g[S] = 0
    BY <1>1 DEF IsFold, AddPicked
  <1>5. ASSUME NEW x \in S PROVE g[S \ {x}] = Sum(w, S \ {x})
    <2> DEFINE T == S \ {x}
               h == CHOOSE f : IsFold(w, T, f)
    <2>1. IsFiniteSet(T) /\ T \in SUBSET S
      BY FS_Subset
    <2> HIDE DEF T
    <2>2. IsFold(w, T, h)
      BY <2>1, FoldExists, Zenon
    <2>3. Sum(w, T) = h[T]
      BY SumIsFold
    <2> HIDE DEF h
    <2>4. g[T] = h[T]
      BY <1>1, <2>1, <2>2, FoldUnique
    <2> QED
      BY <2>3, <2>4 DEF T
  <1> QED
    BY <1>2, <1>3, <1>4, <1>5

(* Where some hosts have the same weight and the others none.              *)
LEMMA SumEqual ==
    ASSUME NEW T, IsFiniteSet(T), NEW U \in SUBSET T, NEW w, NEW c \in Nat,
           \A x \in U : w[x] = c, \A x \in T \ U : w[x] = 0
    PROVE Sum(w, T) = Cardinality(U) * c
  <1> DEFINE Wrong(s) == Sum(w, s) # Cardinality(s \cap U) * c
             N == {n \in Nat : \E s \in SUBSET T : /\ Cardinality(s) = n
                                                   /\ Wrong(s)}
  <1>1. N = {}
    <2> SUFFICES ASSUME N # {} PROVE FALSE
      OBVIOUS
    <2>1. PICK n \in N : \A m \in N : n <= m
      BY Least, Zenon
    <2>2. PICK s \in SUBSET T : Cardinality(s) = n /\ Wrong(s)
      BY <2>1
    <2>3. \A x \in s : w[x] \in Nat
      BY <2>2
    <2>4. IsFiniteSet(s) /\ IsFiniteSet(s \cap U)
      BY FS_Subset
    <2>5. /\ s = {} => Sum(w, s) = 0
          /\ \A x \in s : Sum(w, s) = w[x] + Sum(w, s \ {x})
      BY <2>3, <2>4, SumOf
    <2>6. s # {}
      <3> SUFFICES ASSUME s = {} PROVE FALSE
        OBVIOUS
      <3>1. Cardinality(s \cap U) = 0
        BY FS_EmptySet
      <3> QED
        BY <2>2, <2>5, <3>1
    <2>7. PICK x \in s : TRUE
      BY <2>6
    <2> DEFINE r == s \ {x}
    <2>8. ~Wrong(r)
      <3>1. r \in SUBSET T /\ Cardinality(r) = n - 1 /\ n - 1 \in Nat
            /\ n \in Nat
        <4>1. /\ Cardinality(s) \in Nat
              /\ s \ {x} \in SUBSET T
              /\ Cardinality(s \ {x}) = Cardinality(s) - 1
              /\ Cardinality(s \ {x}) \in Nat
          BY <2>7, Smaller, Zenon
        <4>2. Cardinality(s) = n
          BY <2>2
        <4> HIDE DEF Wrong
        <4> QED
          BY <4>1, <4>2
      <3>2. n - 1 \notin N
        <4> HIDE DEF N
        <4> QED
          BY <2>1, <3>1
      <3> HIDE DEF Wrong, r
      <3> QED
        BY <3>1, <3>2
    <2>9. Sum(w, s) = w[x] + Cardinality(r \cap U) * c
      BY <2>5, <2>7, <2>8
    <2>10. Cardinality(s \cap U) \in Nat /\ Cardinality(r \cap U) \in Nat
      BY <2>4, FS_Subset, FS_CardinalityType
    <2>11. CASE x \in U
      <3>1. r \cap U = (s \cap U) \ {x} /\ x \in s \cap U
        BY <2>7, <2>11
      <3>2. Cardinality(r \cap U) = Cardinality(s \cap U) - 1
        <4> DEFINE before == s \cap U
                   after == r \cap U
        <4>1. IsFiniteSet(before) /\ x \in before /\ after = before \ {x}
          BY <2>4, <3>1
        <4> HIDE DEF before, after
        <4>2. Cardinality(after) = Cardinality(before) - 1
          BY <4>1, FS_RemoveElement
        <4> QED
          BY <4>2 DEF before, after
      <3>3. \A k, d \in Nat : k = d - 1 => c + k * c = d * c
        BY SMT
      <3> QED
        BY <2>2, <2>9, <2>10, <2>11, <3>2, <3>3
    <2>12. CASE x \notin U
      <3>1. r \cap U = s \cap U /\ w[x] = 0
        BY <2>7, <2>12
      <3>2. \A k \in Nat : 0 + k * c = k * c
        BY SMT
      <3> QED
        BY <2>2, <2>9, <2>10, <3>1, <3>2
    <2> QED
      BY <2>11, <2>12
  <1>2. Cardinality(T) \in Nat /\ T \in SUBSET T /\ T \cap U = U
    BY FS_CardinalityType
  <1> QED
    BY <1>1, <1>2

LEMMA SumPositive ==
    ASSUME NEW S, IsFiniteSet(S), NEW w, \A x \in S : w[x] \in Nat
    PROVE Sum(w, S) > 0 <=> \E x \in S : w[x] > 0
  <1>1. ASSUME NEW x \in S, w[x] > 0
        PROVE Sum(w, S) > 0
    <2>1. IsFiniteSet(S \ {x})
      BY FS_RemoveElement
    <2>2. Sum(w, S) = w[x] + Sum(w, S \ {x}) /\ Sum(w, S \ {x}) \in Nat
      BY <2>1, SumOf
    <2> QED
      BY <1>1, <2>2
  <1>2. ASSUME ~\E x \in S : w[x] > 0
        PROVE Sum(w, S) = 0
    <2>1. \A x \in S : w[x] = 0
      BY <1>2
    <2>2. Sum(w, S) = Cardinality(S) * 0
      BY <2>1, SumEqual
    <2> QED
      BY <2>2, FS_CardinalityType
  <1> QED
    BY <1>1, <1>2

-----------------------------------------------------------------------------
(* The loop.                                                               *)

(* Only hosts the loop has seen have weight, and the counter is never such *)
(* that a draw could take away the odds of those before it.                *)
Counted ==
    /\ tools \in Lists /\ roundrobin \subseteq Hosts
    /\ done \in 0..Len(tools)
    /\ weight \in [Hosts -> Nat] /\ counter \in Nat /\ counter >= 2
    /\ done = 0 => counter = 2
    /\ Cardinality(Seen) = done
    /\ \A h \in Hosts \ Seen : weight[h] = 0

(* All that were seen have the same odds, if they are drawn from.          *)
Equal ==
    done > 0 /\ SeenAfterFirst \subseteq roundrobin =>
        /\ counter = done + 1
        /\ \E c \in Nat : \A h \in Seen : weight[h] = c

(* One of those seen is kept, and each that is may be.                     *)
Kept ==
    done > 0 =>
        /\ \E h \in Seen : weight[h] > 0
        /\ \A h \in Seen : weight[h] > 0 => MayBeKept(h, Seen, roundrobin)

LoopInv == Counted /\ Equal /\ Kept

LEMMA SeenHosts ==
    ASSUME Counted
    PROVE /\ Seen \subseteq Hosts /\ IsFiniteSet(Seen) /\ IsFiniteSet(Hosts)
          /\ Len(tools) \in Nat /\ done \in Nat
  <1>1. PICK n \in 1..Cardinality(Hosts) : tools \in [1..n -> Hosts]
    BY DEF Counted, Lists
  <1>2. Cardinality(Hosts) \in Nat /\ IsFiniteSet(Hosts)
    BY HostsAssumption, FS_CardinalityType
  <1>3. Len(tools) = n
    BY <1>1, <1>2
  <1>4. Seen \subseteq Hosts
    BY <1>1, <1>2, <1>3 DEF Counted, Seen
  <1> QED
    BY <1>1, <1>2, <1>3, <1>4, FS_Subset DEF Counted

LEMMA LoopInit == Init => LoopInv
  <1> SUFFICES ASSUME Init PROVE LoopInv
    OBVIOUS
  <1>1. Seen = {}
    BY DEF Seen, Init
  <1>2. Cardinality(Seen) = 0
    BY <1>1, FS_EmptySet
  <1>3. PICK n \in 1..Cardinality(Hosts) : tools \in [1..n -> Hosts]
    BY DEF Init, Lists
  <1>4. Cardinality(Hosts) \in Nat
    BY HostsAssumption, FS_CardinalityType
  <1>5. Len(tools) \in Nat
    BY <1>3, <1>4
  <1> QED
    BY <1>1, <1>2, <1>5 DEF LoopInv, Counted, Equal, Kept, Init

(* The next of the list is one the loop has not seen.                      *)
LEMMA SeeOne ==
    ASSUME Counted, See
    PROVE /\ Tool \in Hosts \ Seen /\ Seen' = Seen \cup {Tool}
          /\ done' = done + 1 /\ done' \in 0..Len(tools')
          /\ tools' = tools /\ roundrobin' = roundrobin
          /\ Cardinality(Seen)' = done'
          /\ done > 0 => SeenAfterFirst' = SeenAfterFirst \cup {Tool}
          /\ done = 0 => Seen = {}
  <1>1. PICK n \in 1..Cardinality(Hosts) :
            /\ tools \in [1..n -> Hosts]
            /\ \A i, j \in 1..n : tools[i] = tools[j] => i = j
    BY DEF Counted, Lists
  <1>2. Cardinality(Hosts) \in Nat
    BY HostsAssumption, FS_CardinalityType
  <1>3. Len(tools) = n /\ n \in Nat
    BY <1>1, <1>2
  <1>4. /\ done \in Nat /\ done < n /\ done' = done + 1
        /\ tools' = tools /\ roundrobin' = roundrobin
    BY <1>3 DEF Counted, See
  <1>5. Tool \in Hosts \ Seen
    BY <1>1, <1>3, <1>4 DEF Tool, Seen
  <1>6. Seen' = Seen \cup {Tool}
    BY <1>4 DEF Seen, Tool
  <1>7. Cardinality(Seen') = done + 1
    BY <1>5, <1>6, SeenHosts, FS_AddElement DEF Counted
  <1>8. done > 0 => SeenAfterFirst' = SeenAfterFirst \cup {Tool}
    BY <1>4 DEF SeenAfterFirst, Tool
  <1>9. done = 0 => Seen = {}
    BY DEF Seen
  <1> QED
    BY <1>3, <1>4, <1>5, <1>6, <1>7, <1>8, <1>9

(* A host that may be kept still may when one more has the flag, or is not *)
(* before it by FQDN.                                                      *)
LEMMA StillMayBeKept ==
    ASSUME NEW S \in SUBSET Hosts, NEW rr \in SUBSET Hosts, NEW k \in Hosts,
           NEW t \in Hosts, MayBeKept(k, S, rr),
           t \in rr \/ Rank[k] <= Rank[t]
    PROVE MayBeKept(k, S \cup {t}, rr)
  BY DEF MayBeKept

LEMMA KeepFirstStep ==
    ASSUME LoopInv, KeepFirst
    PROVE LoopInv'
  <1>1. /\ Counted /\ See /\ done = 0 /\ UNCHANGED counter
        /\ weight' = [weight EXCEPT ![Tool] = 1]
    BY DEF LoopInv, KeepFirst
  <1>2. Tool \in Hosts /\ Seen = {} /\ Seen' = {Tool} /\ done' = 1
    BY <1>1, SeeOne
  <1>3. \A h \in Hosts : weight'[h] = IF h = Tool THEN 1 ELSE 0
    BY <1>1, <1>2 DEF Counted
  <1>4. Counted'
    BY <1>1, <1>2, <1>3, SeeOne DEF Counted, Lists
  <1>5. Equal'
    BY <1>1, <1>2, <1>3 DEF Equal, LoopInv, Counted
  <1>6. MayBeKept(Tool, {Tool}, roundrobin)
    BY <1>2, RankAssumption DEF MayBeKept
  <1>7. Kept'
    BY <1>1, <1>2, <1>3, <1>6, SeeOne DEF Kept, MayBeKept
  <1> QED
    BY <1>4, <1>5, <1>7 DEF LoopInv

LEMMA DrawStep ==
    ASSUME LoopInv, Draw
    PROVE LoopInv'
  <1>1. /\ Counted /\ See /\ done > 0 /\ Tool \in roundrobin
        /\ counter' = counter + 1
        /\ weight' = [h \in Hosts |-> IF h = Tool THEN Total(Hosts)
                                      ELSE weight[h] * (counter - 1)]
    BY DEF LoopInv, Draw
  <1>2. /\ Tool \in Hosts \ Seen /\ Seen' = Seen \cup {Tool}
        /\ Seen \subseteq Hosts /\ IsFiniteSet(Hosts)
        /\ roundrobin' = roundrobin /\ done' = done + 1
        /\ SeenAfterFirst' = SeenAfterFirst \cup {Tool}
        /\ done \in Nat /\ tools' = tools
    BY <1>1, SeeOne, SeenHosts
  <1>3. Total(Hosts) = Sum(weight, Hosts)
    BY DEF Total, Sum
  <1>4. Total(Hosts) \in Nat
    BY <1>1, <1>2, <1>3, SumOf DEF Counted
  <1> DEFINE n == counter - 1
  <1>5. n \in Nat \ {0}
    BY <1>1 DEF Counted
  <1>6. \A a \in Nat : /\ a * n \in Nat
                       /\ a = 0 => a * n = 0
                       /\ a * n > 0 <=> a > 0
    <2> HIDE DEF n
    <2>1. \A a, b \in Nat : a * b \in Nat
      BY SMT
    <2>2. \A b \in Nat : 0 * b = 0
      BY SMT
    <2>3. \A a, b \in Nat : a > 0 /\ b > 0 => a * b > 0
      BY SMT
    <2> QED
      BY <1>5, <2>1, <2>2, <2>3
  <1>7. \A h \in Hosts : weight'[h] = IF h = Tool THEN Total(Hosts)
                                      ELSE weight[h] * n
    BY <1>1
  <1> HIDE DEF n
  <1>8. weight' \in [Hosts -> Nat]
    <2>1. \A h \in Hosts : weight[h] * n \in Nat
      BY <1>1, <1>6 DEF Counted
    <2> QED
      BY <1>1, <1>4, <2>1 DEF n
  <1>9. Counted'
    <2>1. \A h \in Hosts \ Seen' : weight'[h] = 0
      BY <1>1, <1>2, <1>6, <1>7 DEF Counted
    <2>2. counter' \in Nat /\ counter' >= 2
      BY <1>1 DEF Counted
    <2>3. /\ done' \in 0..Len(tools') /\ Cardinality(Seen)' = done'
      BY <1>1, SeeOne
    <2> QED
      BY <1>1, <1>2, <1>8, <2>1, <2>2, <2>3 DEF Counted, Lists
  <1>10. Equal'
    <2> SUFFICES ASSUME SeenAfterFirst' \subseteq roundrobin'
                 PROVE /\ counter' = done' + 1
                       /\ \E c \in Nat : \A h \in Seen' : weight'[h] = c
      BY DEF Equal
    <2>1. SeenAfterFirst \subseteq roundrobin
      BY <1>2
    <2>2. PICK c \in Nat : \A h \in Seen : weight[h] = c
      BY <1>1, <2>1 DEF LoopInv, Equal
    <2>3. counter = done + 1 /\ n = done
      BY <1>1, <1>2, <2>1 DEF LoopInv, Equal, n
    <2>4. Total(Hosts) = done * c
      BY <1>1, <1>2, <1>3, <2>2, SumEqual DEF Counted
    <2>5. done * c = c * n /\ c * n \in Nat
      BY <1>2, <1>6, <2>3
    <2>6. \A h \in Seen' : weight'[h] = c * n
      BY <1>2, <1>7, <2>2, <2>4, <2>5
    <2> QED
      BY <1>1, <1>2, <2>3, <2>5, <2>6
  <1>11. \A h \in Seen : weight[h] > 0 => MayBeKept(h, Seen, roundrobin)
    BY <1>1 DEF LoopInv, Kept
  <1>12. Kept'
    <2>1. PICK k \in Seen : weight[k] > 0
      BY <1>1 DEF LoopInv, Kept
    <2>2. k \in Seen' /\ weight'[k] > 0
      BY <1>1, <1>2, <1>6, <1>7, <2>1 DEF Counted
    <2>3. MayBeKept(Tool, Seen', roundrobin)
      BY <1>1 DEF MayBeKept
    <2>4. ASSUME NEW h \in Seen, weight'[h] > 0
          PROVE MayBeKept(h, Seen', roundrobin)
      <3>1. weight[h] > 0
        BY <1>1, <1>2, <1>6, <1>7, <2>4 DEF Counted
      <3>2. MayBeKept(h, Seen, roundrobin)
        BY <1>11, <3>1
      <3> QED
        BY <1>1, <1>2, <3>2, StillMayBeKept DEF Counted
    <2> QED
      BY <1>2, <2>2, <2>3, <2>4 DEF Kept, MayBeKept
  <1> QED
    BY <1>9, <1>10, <1>12 DEF LoopInv

LEMMA KeepMinStep ==
    ASSUME LoopInv, KeepMin
    PROVE LoopInv'
  <1> DEFINE behind == {h \in Hosts : Rank[h] > Rank[Tool]}
  <1>1. /\ Counted /\ See /\ done > 0 /\ Tool \notin roundrobin
        /\ counter' = counter
        /\ weight' = [h \in Hosts |-> IF h = Tool THEN Total(behind)
                                  ELSE IF h \in behind THEN 0 ELSE weight[h]]
    BY DEF LoopInv, KeepMin
  <1>2. /\ Tool \in Hosts \ Seen /\ Seen' = Seen \cup {Tool}
        /\ Seen \subseteq Hosts /\ IsFiniteSet(Hosts)
        /\ roundrobin' = roundrobin /\ done' = done + 1
        /\ SeenAfterFirst' = SeenAfterFirst \cup {Tool}
        /\ done \in Nat /\ tools' = tools
    BY <1>1, SeeOne, SeenHosts
  <1>3. \A h \in Hosts : /\ Rank[h] \in Nat
                         /\ h \in behind <=> Rank[h] > Rank[Tool]
    BY RankAssumption
  <1>4. behind \subseteq Hosts /\ IsFiniteSet(behind)
    BY <1>2, FS_Subset
  <1>5. \A h \in Hosts : weight'[h] = IF h = Tool THEN Total(behind)
                                  ELSE IF h \in behind THEN 0 ELSE weight[h]
    BY <1>1
  <1> HIDE DEF behind
  <1>6. \A h \in Hosts : weight[h] \in Nat
    BY <1>1 DEF Counted
  <1>7. /\ Total(behind) \in Nat
        /\ Total(behind) > 0 <=> \E h \in behind : weight[h] > 0
    <2>1. Total(behind) = Sum(weight, behind)
      BY DEF Total, Sum
    <2> QED
      BY <1>4, <1>6, <2>1, SumOf, SumPositive
  <1>8. weight' \in [Hosts -> Nat]
    BY <1>1, <1>6, <1>7
  <1>9. Counted'
    <2>1. \A h \in Hosts \ Seen' : weight'[h] = 0
      BY <1>1, <1>2, <1>5 DEF Counted
    <2>2. done' \in 0..Len(tools') /\ Cardinality(Seen)' = done'
      BY <1>1, SeeOne
    <2> QED
      BY <1>1, <1>2, <1>8, <2>1, <2>2 DEF Counted, Lists
  <1>10. Equal'
    BY <1>1, <1>2 DEF Equal
  <1>11. \A h \in Seen : weight[h] > 0 => MayBeKept(h, Seen, roundrobin)
    BY <1>1 DEF LoopInv, Kept
  <1>12. \E h \in Seen' : weight'[h] > 0
    <2>1. PICK k \in Seen : weight[k] > 0
      BY <1>1 DEF LoopInv, Kept
    <2>2. CASE k \in behind
      BY <1>2, <1>5, <1>7, <2>1, <2>2
    <2>3. CASE k \notin behind
      BY <1>2, <1>5, <2>1, <2>3
    <2> QED
      BY <2>2, <2>3
  \* A host before the tool keeps what weight it has, and its reason.
  <1>13. ASSUME NEW h \in Seen, weight'[h] > 0
         PROVE MayBeKept(h, Seen', roundrobin)
    <2>1. h \notin behind /\ weight[h] > 0
      BY <1>2, <1>5, <1>13
    <2>2. MayBeKept(h, Seen, roundrobin) /\ Rank[h] <= Rank[Tool]
      BY <1>2, <1>3, <1>11, <2>1
    <2> QED
      BY <1>1, <1>2, <2>2, StillMayBeKept DEF Counted
  \* The tool takes the weight of one behind it, and takes over its reason.
  <1>14. ASSUME weight'[Tool] > 0
         PROVE MayBeKept(Tool, Seen', roundrobin)
    <2>1. PICK k \in behind : weight[k] > 0
      BY <1>2, <1>5, <1>7, <1>14
    <2>2. k \in Seen /\ Rank[Tool] < Rank[k]
      BY <1>1, <1>2, <1>3, <1>4, <2>1 DEF Counted
    <2>3. MayBeKept(k, Seen, roundrobin)
      BY <1>11, <2>1, <2>2
    <2>4. CASE \E h \in Seen \cap roundrobin : Rank[k] < Rank[h]
      BY <1>2, <1>3, <2>2, <2>4 DEF MayBeKept
    <2>5. CASE k \in roundrobin
      BY <1>2, <2>2, <2>5 DEF MayBeKept
    <2>6. CASE \A h \in Seen \ roundrobin : Rank[k] <= Rank[h]
      BY <1>2, <1>3, <2>2, <2>6 DEF MayBeKept
    <2> QED
      BY <2>3, <2>4, <2>5, <2>6 DEF MayBeKept
  <1>15. Kept'
    BY <1>2, <1>12, <1>13, <1>14 DEF Kept, MayBeKept
  <1> QED
    BY <1>9, <1>10, <1>15 DEF LoopInv

LEMMA LoopStep == LoopInv /\ [Next]_vars => LoopInv'
  <1> SUFFICES ASSUME LoopInv, [Next]_vars PROVE LoopInv'
    OBVIOUS
  <1>1. CASE UNCHANGED vars
    <2>1. /\ Seen' = Seen /\ SeenAfterFirst' = SeenAfterFirst
          /\ Lists' = Lists
      BY <1>1 DEF vars, Seen, SeenAfterFirst, Lists
    <2>2. Counted' /\ Equal'
      BY <1>1, <2>1 DEF vars, LoopInv, Counted, Equal
    <2>3. Kept'
      BY <1>1, <2>1 DEF vars, LoopInv, Kept, MayBeKept
    <2> QED
      BY <2>2, <2>3 DEF LoopInv
  <1> QED
    BY <1>1, KeepFirstStep, DrawStep, KeepMinStep DEF Next

LEMMA LoopAlways == Spec => []LoopInv
  BY LoopInit, LoopStep, PTL DEF Spec

(* "The probability of each server got selected is 1/n", for every n       *)
(* (sliver_tool_fetcher.py:70): the counter is always one more than   *)
(* the slivers seen, and the draw gives the next one what the others have  *)
(* together, divided by their number.                                      *)
THEOREM DrawsAreFair == Spec => []RoundRobinIsFair
  <1>1. LoopInv => RoundRobinIsFair
    <2> SUFFICES ASSUME LoopInv, SeenAfterFirst \subseteq roundrobin,
                        NEW k \in Seen
                 PROVE weight[k] * Cardinality(Seen) = Total(Hosts)
      BY DEF RoundRobinIsFair
    <2>1. done \in Nat /\ Cardinality(Seen) = done
      BY SeenHosts DEF LoopInv, Counted
    <2>2. done > 0
      BY <2>1 DEF Seen
    <2>3. PICK c \in Nat : \A h \in Seen : weight[h] = c
      BY <2>2 DEF LoopInv, Equal
    <2>4. Total(Hosts) = Sum(weight, Hosts)
      BY DEF Total, Sum
    <2>5. Sum(weight, Hosts) = done * c
      BY <2>1, <2>3, SeenHosts, SumEqual DEF LoopInv, Counted
    <2> QED
      BY <2>1, <2>3, <2>4, <2>5
  <1> QED
    BY <1>1, LoopAlways, PTL

(* Whatever the flags and the order, one sliver of the site is kept, and   *)
(* only one of those that Selection's OneHostPerSite lets a lookup take:   *)
(* a sliver without the flag takes the place of one that comes after it,   *)
(* and with that the reason why the other was there.                       *)
THEOREM OneThatMayBeIsKept == Spec => []KeepsWhatMayBeKept
  <1>1. LoopInv => KeepsWhatMayBeKept
    <2> SUFFICES ASSUME LoopInv, done > 0
                 PROVE /\ Total(Seen) > 0
                       /\ \A h \in Hosts : weight[h] > 0 =>
                             h \in Seen /\ MayBeKept(h, Seen, roundrobin)
      BY DEF KeepsWhatMayBeKept
    <2>1. /\ IsFiniteSet(Seen) /\ Seen \subseteq Hosts
          /\ \A h \in Hosts : weight[h] \in Nat
          /\ \A h \in Hosts \ Seen : weight[h] = 0
      BY SeenHosts DEF LoopInv, Counted
    <2>2. Total(Seen) = Sum(weight, Seen)
      BY DEF Total, Sum
    <2>3. Total(Seen) > 0
      BY <2>1, <2>2, SumPositive DEF LoopInv, Kept
    <2> QED
      BY <2>1, <2>3 DEF LoopInv, Kept
  <1> QED
    BY <1>1, LoopAlways, PTL
=============================================================================
