-------------------------- MODULE SizeSchedProofs --------------------------
(***************************************************************************)
(* Proofs about SizeSched: its types, that the size stored is that of the  *)
(* stored head, and that a single worker never stores an older head and    *)
(* never forgets the last one.                                             *)
(***************************************************************************)
EXTENDS SizeSched, TLAPS, FiniteSetTheorems

(* One thread for all: one server, size_sched_thread_num left at 1.        *)
OneWorker == \A v, w \in Workers : v = w

USE DEF None

LEMMA AppendIsSeq ==
  ASSUME NEW T, NEW s \in Seq(T), NEW t \in T
  PROVE  /\ Append(s, t) \in Seq(T)
         /\ Len(Append(s, t)) = Len(s) + 1
         /\ Len(s) \in Nat
  OBVIOUS

LEMMA TypeInit == Init => TypeOK
<1> SUFFICES ASSUME Init PROVE TypeOK
  OBVIOUS
<1>1. PICK t \in Trees : trees = <<t>>
  BY DEF Init
<1>2. trees \in Seq(Trees) /\ Current = 1
  BY <1>1 DEF Current
<1> QED
  BY <1>2 DEF Init, TypeOK

LEMMA TypeStep == TypeOK /\ [Next]_vars => TypeOK'
<1> SUFFICES ASSUME TypeOK, [Next]_vars PROVE TypeOK'
  OBVIOUS
<1> USE ConstantsAssumption DEF TypeOK
<1>0. Current \in Nat
  BY AppendIsSeq DEF Current
<1>1. CASE UNCHANGED vars
  BY <1>1 DEF vars, row, local, Current
<1>2. ASSUME NEW s \in Servers, NewHead(s)
      PROVE  TypeOK'
  <2>1. PICK t \in Trees : trees' = Append(trees, t)
    BY <1>2 DEF NewHead
  <2>2. trees' \in Seq(Trees) /\ Current' = Current + 1
    BY <2>1, AppendIsSeq DEF Current
  <2>3. due' \in [Servers -> Nat]
    BY <1>2 DEF NewHead
  <2>4. 0 .. Current \subseteq 0 .. Current'
    BY <2>2, <1>0
  <2> QED
    BY <1>2, <1>0, <2>2, <2>3, <2>4 DEF NewHead, row, local
<1>3. ASSUME NEW s \in Servers, Schedule(s)
      PROVE  TypeOK'
  BY <1>3, <1>0 DEF Schedule, row, local, Current
<1>4. ASSUME NEW s \in Servers, Restart(s)
      PROVE  TypeOK'
  BY <1>4, <1>0 DEF Restart, row, local, Current
<1>5. ASSUME NEW w \in Workers, TakeTask(w)
      PROVE  TypeOK'
  BY <1>5, <1>0 DEF TakeTask, HasTask, Goto, row, Current
<1>6. ASSUME NEW w \in Workers, GetOldRepoInfo(w)
      PROVE  TypeOK'
  BY <1>6, <1>0 DEF GetOldRepoInfo, Goto, row, Current
<1>7. ASSUME NEW w \in Workers, SelectHead(w)
      PROVE  TypeOK'
  BY <1>7, <1>0 DEF SelectHead, Goto, row, Current
<1>8. ASSUME NEW w \in Workers, SetRepoSizeAndFileCount(w)
      PROVE  TypeOK'
  BY <1>8, <1>0 DEF SetRepoSizeAndFileCount, Goto, local, Current
<1>9. ASSUME NEW w \in Workers, InsertFails(w)
      PROVE  TypeOK'
  BY <1>9, <1>0 DEF InsertFails, Goto, row, local, Current
<1>10. ASSUME NEW w \in Workers, TaskFails(w)
       PROVE  TypeOK'
  <2>1. pc' \in [Workers -> {"idle", "info", "select", "write", "ended"}]
    BY <1>10, <1>0 DEF TaskFails, Computes, Goto
  <2> QED
    BY <1>10, <1>0, <2>1 DEF TaskFails, row, local, Current
<1> QED
  BY <1>1, <1>2, <1>3, <1>4, <1>5, <1>6, <1>7, <1>8, <1>9, <1>10 DEF Next, Work, Idle

(* Heads, rows, queues and workers keep their types, for any servers and   *)
(* workers and any failures.                                               *)
THEOREM TypeCorrect == Spec => []TypeOK
  BY TypeInit, TypeStep, PTL DEF Spec
-----------------------------------------------------------------------------
(* Sizes of trees *)

LEMMA TreeIsFinite ==
  ASSUME NEW t \in Trees
  PROVE  IsFiniteSet(DOMAIN t) /\ t \in [DOMAIN t -> Contents]
  BY DEF Trees

LEMMA SizesFinite ==
  ASSUME NEW t \in Trees, NEW A \in SUBSET DOMAIN t
  PROVE  IsFiniteSet(Bytes(t, A)) /\ Sizes(t, A) \in Nat
<1> DEFINE F(n) == {n} \X (1 .. SizeOf[t[n]])
           f == [n \in A |-> F(n)]
           S == {F(n) : n \in A}
<1>1. IsFiniteSet(A)
  BY TreeIsFinite, FS_Subset
<1>2. f \in Surjection(A, S)
  BY DEF Surjection
<1>3. IsFiniteSet(S)
  BY <1>1, <1>2, FS_Surjection
<1>4. ASSUME NEW n \in A PROVE IsFiniteSet(F(n))
  <2>1. SizeOf[t[n]] \in Nat
    BY TreeIsFinite, ConstantsAssumption
  <2>2. IsFiniteSet({n}) /\ IsFiniteSet(1 .. SizeOf[t[n]])
    <3>1. 1 \in Int /\ SizeOf[t[n]] \in Int
      BY <2>1
    <3>2. IsFiniteSet(1 .. SizeOf[t[n]])
      BY <3>1, FS_Interval
    <3> QED
      BY <3>2, FS_Singleton
  <2> QED
    BY <2>2, FS_Product
<1>5. IsFiniteSet(UNION S)
  BY <1>3, <1>4, FS_UNION
<1>6. IsFiniteSet(Bytes(t, A))
  BY <1>5 DEF Bytes
<1> QED
  BY <1>6, FS_CardinalityType DEF Sizes

LEMMA SizesSplit ==
  ASSUME NEW t \in Trees, NEW A \in SUBSET DOMAIN t, NEW B \in SUBSET DOMAIN t,
         A \cap B = {}
  PROVE  Sizes(t, A \cup B) = Sizes(t, A) + Sizes(t, B)
<1>1. Bytes(t, A \cup B) = Bytes(t, A) \cup Bytes(t, B)
  BY DEF Bytes
<1>2. Bytes(t, A) \cap Bytes(t, B) = {}
  BY DEF Bytes
<1>3. /\ IsFiniteSet(Bytes(t, A)) /\ IsFiniteSet(Bytes(t, B))
      /\ Cardinality(Bytes(t, A)) \in Nat /\ Cardinality(Bytes(t, B)) \in Nat
  BY SizesFinite DEF Sizes
<1>4. Cardinality(Bytes(t, A) \cup Bytes(t, B)) =
        Cardinality(Bytes(t, A)) + Cardinality(Bytes(t, B)) - Cardinality({})
  BY <1>2, <1>3, FS_Union
<1>5. Cardinality({}) = 0
  BY FS_EmptySet
<1>6. Cardinality(Bytes(t, A) \cup Bytes(t, B)) =
        Cardinality(Bytes(t, A)) + Cardinality(Bytes(t, B))
  BY <1>3, <1>4, <1>5
<1> QED
  BY <1>1, <1>6 DEF Sizes

(* Files with the same contents have the same size, whatever their names.  *)
LEMMA SizesOfSame ==
  ASSUME NEW t \in Trees, NEW A \in SUBSET DOMAIN t,
         NEW u \in Trees, NEW B \in SUBSET DOMAIN u,
         NEW f \in Bijection(A, B), \A n \in A : u[f[n]] = t[n]
  PROVE  Sizes(t, A) = Sizes(u, B)
<1> DEFINE g == [b \in Bytes(t, A) |-> <<f[b[1]], b[2]>>]
<1>1. /\ f \in [A -> B]
      /\ \A m, n \in A : f[m] = f[n] => m = n
      /\ \A m \in B : \E n \in A : f[n] = m
  BY DEF Bijection, Injection, Surjection, IsInjective
<1>2. \A b \in Bytes(t, A) :
         b[1] \in A /\ b[2] \in 1 .. SizeOf[t[b[1]]] /\ b = <<b[1], b[2]>>
  BY DEF Bytes
<1>3. \A n \in A : \A k \in 1 .. SizeOf[t[n]] : <<n, k>> \in Bytes(t, A)
  BY DEF Bytes
<1>4. \A b \in Bytes(t, A) : g[b] \in Bytes(u, B)
  BY <1>1, <1>2 DEF Bytes
<1>5. \A b, c \in Bytes(t, A) : g[b] = g[c] => b = c
  BY <1>1, <1>2
<1>6. \A c \in Bytes(u, B) : \E b \in Bytes(t, A) : g[b] = c
  <2> TAKE c \in Bytes(u, B)
  <2>1. PICK m \in B : \E k \in 1 .. SizeOf[u[m]] : c = <<m, k>>
    BY DEF Bytes
  <2>2. PICK k \in 1 .. SizeOf[u[m]] : c = <<m, k>>
    BY <2>1
  <2>3. PICK n \in A : f[n] = m
    BY <1>1
  <2>4. <<n, k>> \in Bytes(t, A)
    BY <1>3, <2>2, <2>3
  <2>5. g[<<n, k>>] = c
    BY <2>2, <2>3, <2>4
  <2> QED
    BY <2>4, <2>5
<1>7. g \in Bijection(Bytes(t, A), Bytes(u, B))
  BY <1>4, <1>5, <1>6 DEF Bijection, Injection, Surjection, IsInjective
<1>8. ExistsBijection(Bytes(t, A), Bytes(u, B))
  BY <1>7 DEF ExistsBijection
<1> QED
  BY <1>8, SizesFinite, FS_Bijection DEF Sizes

(* What diffResolveRenames takes for the old names of renamed files        *)
Taken(old, new) ==
  {CHOOSE n \in Deleted(old, new) : old[n] = c : c \in RenamedContents(old, new)}

LEMMA TakenAlike ==
  ASSUME NEW old \in Trees, NEW new \in Trees
  PROVE  /\ Taken(old, new) \subseteq Deleted(old, new)
         /\ \E f \in Bijection(Taken(old, new), Taken(new, old)) :
               \A n \in Taken(old, new) : new[f[n]] = old[n]
<1> DEFINE R == RenamedContents(old, new)
           A(c) == CHOOSE n \in Deleted(old, new) : old[n] = c
           B(c) == CHOOSE n \in Deleted(new, old) : new[n] = c
           f == [n \in Taken(old, new) |-> B(old[n])]
<1>1. R = RenamedContents(new, old)
  BY DEF RenamedContents
<1>2. \A c \in R : A(c) \in Deleted(old, new) /\ old[A(c)] = c
  BY DEF RenamedContents
<1>3. \A c \in R : B(c) \in Deleted(new, old) /\ new[B(c)] = c
  BY DEF RenamedContents
<1>4. Taken(old, new) = {A(c) : c \in R}
  BY DEF Taken
<1>5. Taken(new, old) = {B(c) : c \in R}
  BY <1>1 DEF Taken
<1> HIDE DEF R, A, B
<1>6. \A n \in Taken(old, new) : old[n] \in R /\ n = A(old[n])
  BY <1>2, <1>4
<1>7. \A n \in Taken(old, new) : f[n] \in Taken(new, old) /\ new[f[n]] = old[n]
  BY <1>3, <1>5, <1>6
<1>8. \A m, n \in Taken(old, new) : f[m] = f[n] => m = n
  BY <1>6, <1>7
<1>9. \A m \in Taken(new, old) : \E n \in Taken(old, new) : f[n] = m
  BY <1>2, <1>4, <1>5
<1>10. f \in Bijection(Taken(old, new), Taken(new, old))
  BY <1>7, <1>8, <1>9 DEF Bijection, Injection, Surjection, IsInjective
<1> HIDE DEF f
<1> QED
  BY <1>2, <1>4, <1>7, <1>10

(* A tree is what it has in common with another, what was renamed, and the *)
(* rest.                                                                   *)
LEMMA TreeParts ==
  ASSUME NEW old \in Trees, NEW new \in Trees
  PROVE  /\ TotalSize(old) = Sizes(old, DOMAIN old \cap DOMAIN new)
              + Sizes(old, Unrenamed(old, new)) + Sizes(old, Taken(old, new))
         /\ FileCount(old) = Cardinality(DOMAIN old \cap DOMAIN new)
              + Cardinality(Unrenamed(old, new)) + Cardinality(Taken(old, new))
<1> DEFINE C == DOMAIN old \cap DOMAIN new
           D == Deleted(old, new)
           U == Unrenamed(old, new)
           T == Taken(old, new)
<1>1. /\ DOMAIN old = C \cup D /\ C \cap D = {}
      /\ C \in SUBSET DOMAIN old /\ D \in SUBSET DOMAIN old
  BY DEF Deleted
<1>2. /\ D = U \cup T /\ U \cap T = {}
      /\ U \in SUBSET DOMAIN old /\ T \in SUBSET DOMAIN old
  BY <1>1, TakenAlike DEF Unrenamed, Taken
<1> HIDE DEF C, D, U, T
<1>3. Sizes(old, DOMAIN old) = Sizes(old, C) + Sizes(old, D)
  BY <1>1, SizesSplit
<1>4. Sizes(old, D) = Sizes(old, U) + Sizes(old, T)
  BY <1>2, SizesSplit
<1>5. /\ Sizes(old, C) \in Nat /\ Sizes(old, U) \in Nat /\ Sizes(old, T) \in Nat
  BY <1>1, <1>2, SizesFinite
<1>6. TotalSize(old) = Sizes(old, C) + Sizes(old, U) + Sizes(old, T)
  BY <1>3, <1>4, <1>5 DEF TotalSize
<1>7. IsFiniteSet(C) /\ IsFiniteSet(D) /\ IsFiniteSet(U) /\ IsFiniteSet(T)
  BY <1>1, <1>2, TreeIsFinite, FS_Subset
<1>8. Cardinality(C) \in Nat /\ Cardinality(U) \in Nat /\ Cardinality(T) \in Nat
  BY <1>7, FS_CardinalityType
<1>9. Cardinality(DOMAIN old) = Cardinality(C) + Cardinality(D) - Cardinality({})
  BY <1>1, <1>7, FS_Union
<1>10. Cardinality(D) = Cardinality(U) + Cardinality(T) - Cardinality({})
  BY <1>2, <1>7, FS_Union
<1>11. FileCount(old) = Cardinality(C) + Cardinality(U) + Cardinality(T)
  BY <1>8, <1>9, <1>10, FS_EmptySet DEF FileCount
<1> QED
  BY <1>6, <1>11 DEF C, U, T

(* What computeRepoSize adds for the files that a diff lists is the         *)
(* difference of the sizes of the trees, renamed files, of which the diff  *)
(* says nothing, included.                                                 *)
LEMMA ChangesAddUp ==
  ASSUME NEW old \in Trees, NEW new \in Trees
  PROVE  /\ TotalSize(old) + ChangeSize(old, new) = TotalSize(new)
         /\ FileCount(old) + ChangeFileCount(old, new) = FileCount(new)
<1>1. PICK f \in Bijection(Taken(old, new), Taken(new, old)) :
          \A n \in Taken(old, new) : new[f[n]] = old[n]
  BY TakenAlike
<1>2. /\ Taken(old, new) \in SUBSET DOMAIN old /\ Unrenamed(old, new) \in SUBSET DOMAIN old
      /\ Taken(new, old) \in SUBSET DOMAIN new /\ Unrenamed(new, old) \in SUBSET DOMAIN new
  BY TakenAlike DEF Deleted, Unrenamed
<1>3. Sizes(old, Taken(old, new)) = Sizes(new, Taken(new, old))
  BY <1>1, <1>2, SizesOfSame
<1>4. Cardinality(Taken(old, new)) = Cardinality(Taken(new, old))
  <2>1. IsFiniteSet(Taken(old, new))
    BY <1>2, TreeIsFinite, FS_Subset
  <2> QED
    BY <1>1, <2>1, FS_Bijection DEF ExistsBijection
<1>5. DOMAIN old \cap DOMAIN new = DOMAIN new \cap DOMAIN old
  OBVIOUS
<1>6. /\ Sizes(old, DOMAIN old \cap DOMAIN new) \in Nat
      /\ Sizes(new, DOMAIN old \cap DOMAIN new) \in Nat
      /\ Sizes(old, Unrenamed(old, new)) \in Nat /\ Sizes(new, Unrenamed(new, old)) \in Nat
      /\ Sizes(old, Taken(old, new)) \in Nat
  BY <1>2, SizesFinite
<1>7. /\ Cardinality(DOMAIN old \cap DOMAIN new) \in Nat
      /\ Cardinality(Unrenamed(old, new)) \in Nat /\ Cardinality(Unrenamed(new, old)) \in Nat
      /\ Cardinality(Taken(old, new)) \in Nat
  <2>1. IsFiniteSet(DOMAIN old) /\ IsFiniteSet(DOMAIN new)
    BY TreeIsFinite
  <2>2. /\ IsFiniteSet(DOMAIN old \cap DOMAIN new) /\ IsFiniteSet(Unrenamed(old, new))
        /\ IsFiniteSet(Unrenamed(new, old)) /\ IsFiniteSet(Taken(old, new))
    BY <1>2, <2>1, FS_Subset
  <2> QED
    BY <2>2, FS_CardinalityType
<1>8. /\ TotalSize(new) = Sizes(new, DOMAIN old \cap DOMAIN new)
            + Sizes(new, Unrenamed(new, old)) + Sizes(new, Taken(new, old))
      /\ FileCount(new) = Cardinality(DOMAIN old \cap DOMAIN new)
            + Cardinality(Unrenamed(new, old)) + Cardinality(Taken(new, old))
  BY <1>5, TreeParts
<1>9. /\ TotalSize(old) = Sizes(old, DOMAIN old \cap DOMAIN new)
            + Sizes(old, Unrenamed(old, new)) + Sizes(old, Taken(old, new))
      /\ FileCount(old) = Cardinality(DOMAIN old \cap DOMAIN new)
            + Cardinality(Unrenamed(old, new)) + Cardinality(Taken(old, new))
  BY TreeParts
<1>10. TotalSize(old) + ChangeSize(old, new) = TotalSize(new)
  BY <1>3, <1>6, <1>8, <1>9 DEF ChangeSize
<1>11. FileCount(old) + ChangeFileCount(old, new) = FileCount(new)
  BY <1>4, <1>7, <1>8, <1>9 DEF ChangeFileCount
<1> QED
  BY <1>10, <1>11

(* A row read is the size of its head, for as long as it is kept.           *)
OldInfoOK(w) ==
  /\ pc[w] \in {"info", "select", "write"} => found[w] \in 1 .. Current
  /\ pc[w] \in {"select", "write"} /\ oldHead[w] # None =>
       /\ oldSize[w] = TotalSize(trees[oldHead[w]])
       /\ oldCount[w] = FileCount(trees[oldHead[w]])

SizeInv ==
  /\ TypeOK /\ SizeIsOfStoredHead /\ \A w \in Workers : OldInfoOK(w)
  /\ DOMAIN oldSize = Workers /\ DOMAIN oldCount = Workers

LEMMA SizeStep == SizeInv /\ [Next]_vars => SizeInv'
<1> SUFFICES ASSUME SizeInv, [Next]_vars PROVE SizeInv'
  OBVIOUS
<1> USE ConstantsAssumption
<1>0. /\ TypeOK /\ TypeOK' /\ Current \in Nat /\ trees \in Seq(Trees)
      /\ DOMAIN trees = 1 .. Current /\ \A h \in 1 .. Current : trees[h] \in Trees
  BY TypeStep, AppendIsSeq DEF SizeInv, TypeOK, Current
<1>1. CASE UNCHANGED <<trees, row, pc, local>>
  BY <1>0, <1>1 DEF SizeInv, SizeIsOfStoredHead, OldInfoOK, row, local, Current
<1>2. ASSUME NEW s \in Servers, NewHead(s)
      PROVE  SizeInv'
  <2>1. PICK t \in Trees : trees' = Append(trees, t)
    BY <1>2 DEF NewHead
  <2>2. Current' = Current + 1 /\ \A h \in 1 .. Current : trees'[h] = trees[h]
    BY <1>0, <2>1, AppendIsSeq DEF Current
  <2>3. UNCHANGED <<stored, size, count, pc, found, oldHead, oldSize, oldCount>>
    BY <1>2 DEF NewHead, row, local
  <2>4. SizeIsOfStoredHead'
    BY <1>0, <2>2, <2>3 DEF SizeInv, SizeIsOfStoredHead, TypeOK
  <2>5. \A w \in Workers : OldInfoOK(w)'
    <3> TAKE w \in Workers
    <3>1. oldHead[w] \in 0 .. Current
      BY <1>0 DEF TypeOK
    <3>2. oldHead[w] # None => trees'[oldHead[w]] = trees[oldHead[w]]
      BY <1>0, <2>2, <3>1
    <3>3. found[w] \in 1 .. Current => found[w] \in 1 .. Current'
      BY <1>0, <2>2
    <3> QED
      BY <2>3, <3>2, <3>3 DEF SizeInv, OldInfoOK
  <2> QED
    BY <1>0, <2>3, <2>4, <2>5 DEF SizeInv
<1>3. ASSUME NEW w \in Workers, TakeTask(w)
      PROVE  SizeInv'
  <2>1. /\ UNCHANGED <<trees, stored, size, count, oldHead, oldSize, oldCount>>
        /\ pc' = [pc EXCEPT ![w] = "info"] /\ found' = [found EXCEPT ![w] = Current]
    BY <1>3 DEF TakeTask, Goto, row
  <2>2. Current \in 1 .. Current
    BY <1>0 DEF TypeOK
  <2> QED
    BY <1>0, <2>1, <2>2 DEF SizeInv, SizeIsOfStoredHead, OldInfoOK, TypeOK, Current
<1>4. ASSUME NEW w \in Workers, GetOldRepoInfo(w)
      PROVE  SizeInv'
  <2>1. /\ UNCHANGED <<trees, stored, size, count, found>>
        /\ oldHead' = [oldHead EXCEPT ![w] = stored]
        /\ oldSize' = [oldSize EXCEPT ![w] = size]
        /\ oldCount' = [oldCount EXCEPT ![w] = count]
        /\ pc[w] = "info" /\ pc' = [pc EXCEPT ![w] = IF stored = found[w] THEN "idle" ELSE "select"]
    BY <1>4 DEF GetOldRepoInfo, Goto, row
  <2>2. SizeIsOfStoredHead'
    BY <2>1 DEF SizeInv, SizeIsOfStoredHead
  <2>3. ASSUME NEW v \in Workers PROVE OldInfoOK(v)'
    <3>1. CASE v = w
      <4>1. found[w] \in 1 .. Current
        BY <2>1 DEF SizeInv, OldInfoOK
      <4> QED
        BY <1>0, <2>1, <3>1, <4>1 DEF SizeInv, SizeIsOfStoredHead, OldInfoOK, Current, TypeOK
    <3>2. CASE v # w
      BY <1>0, <2>1, <3>2 DEF SizeInv, OldInfoOK, TypeOK, Current
    <3> QED
      BY <3>1, <3>2
  <2> QED
    BY <1>0, <2>1, <2>2, <2>3 DEF SizeInv
<1>5. ASSUME NEW w \in Workers, SelectHead(w)
      PROVE  SizeInv'
  <2>1. /\ UNCHANGED <<trees, stored, size, count, found, oldHead, oldSize, oldCount>>
        /\ pc[w] = "select" /\ pc' = [pc EXCEPT ![w] = "write"]
    BY <1>5 DEF SelectHead, Goto, row
  <2> QED
    BY <1>0, <2>1 DEF SizeInv, SizeIsOfStoredHead, OldInfoOK, TypeOK, Current
<1>6. ASSUME NEW w \in Workers, SetRepoSizeAndFileCount(w)
      PROVE  SizeInv'
  <2>1. /\ UNCHANGED <<trees, found, oldHead, oldSize, oldCount>>
        /\ stored' = found[w]
        /\ \/ size' = NewSize(w) /\ count' = NewCount(w)
           \/ size' = TotalSize(trees[found[w]]) /\ count' = FileCount(trees[found[w]])
        /\ pc[w] = "write" /\ pc' = [pc EXCEPT ![w] = "idle"]
    BY <1>6 DEF SetRepoSizeAndFileCount, Goto, local
  <2>2. found[w] \in 1 .. Current /\ oldHead[w] \in 0 .. Current
    BY <1>0, <2>1 DEF SizeInv, OldInfoOK, TypeOK
  <2>3. NewSize(w) = TotalSize(trees[found[w]]) /\ NewCount(w) = FileCount(trees[found[w]])
    <3>1. CASE oldHead[w] = None
      BY <3>1 DEF NewSize, NewCount
    <3>2. CASE oldHead[w] # None
      <4>1. oldHead[w] \in 1 .. Current
        BY <1>0, <2>2, <3>2
      <4>2. trees[oldHead[w]] \in Trees /\ trees[found[w]] \in Trees
        BY <1>0, <2>2, <4>1
      <4>3. /\ oldSize[w] = TotalSize(trees[oldHead[w]])
            /\ oldCount[w] = FileCount(trees[oldHead[w]])
        BY <2>1, <3>2 DEF SizeInv, OldInfoOK
      <4> QED
        BY <3>2, <4>2, <4>3, ChangesAddUp DEF NewSize, NewCount
    <3> QED
      BY <3>1, <3>2
  <2>4. SizeIsOfStoredHead'
    BY <2>1, <2>3 DEF SizeIsOfStoredHead
  <2>5. \A v \in Workers : OldInfoOK(v)'
    BY <1>0, <2>1 DEF SizeInv, OldInfoOK, TypeOK, Current
  <2> QED
    BY <1>0, <2>1, <2>4, <2>5 DEF SizeInv
<1>7. ASSUME UNCHANGED <<trees, row, local>>, \A v \in Workers : pc'[v] \in {pc[v], "idle", "ended"}
      PROVE  SizeInv'
  BY <1>0, <1>7 DEF SizeInv, SizeIsOfStoredHead, OldInfoOK, row, local, Current
<1>8. ASSUME NEW s \in Servers, Restart(s)
      PROVE  SizeInv'
  BY <1>7, <1>8 DEF Restart
<1>9. ASSUME NEW w \in Workers, InsertFails(w) \/ TaskFails(w)
      PROVE  SizeInv'
  BY <1>0, <1>7, <1>9 DEF InsertFails, TaskFails, Goto, TypeOK
<1>10. ASSUME NEW s \in Servers, Schedule(s)
       PROVE  SizeInv'
  BY <1>1, <1>10 DEF Schedule
<1> QED
  BY <1>1, <1>2, <1>3, <1>4, <1>5, <1>6, <1>8, <1>9, <1>10 DEF Next, Work, Idle, vars

LEMMA SizeInit == Init => SizeInv
  BY TypeInit DEF Init, SizeInv, SizeIsOfStoredHead, OldInfoOK

(* The stored size and number of files are those of the stored head, for   *)
(* any number of servers and workers, however late a worker stores what it *)
(* computed by differences from a row that others have replaced, and       *)
(* whatever fails.                                                         *)
THEOREM SizesAddUp == Spec => []SizeIsOfStoredHead
<1>1. SizeInv => SizeIsOfStoredHead
  BY DEF SizeInv
<1> QED
  BY <1>1, SizeInit, SizeStep, PTL DEF Spec
-----------------------------------------------------------------------------
(* A worker at work has found a head no older than the stored one, and *)
(* inserts a row only if there is none.                                     *)
WorkerOK(w) ==
  /\ Computes(w) => found[w] >= 1 /\ stored <= found[w]
  /\ pc[w] = "write" /\ ~exists[w] => stored = None

Pending == \E s \in Servers : due[s] > 0 \/ queue[s] > 0
Working == \E w \in Workers : Computes(w) /\ found[w] = Current

(* If the stored head is not the last one, a task is waiting, or a worker  *)
(* has found the last one.                                                 *)
NotForgotten == failures = 0 /\ Current > 1 => stored = Current \/ Pending \/ Working

SchedInv == TypeOK /\ (\A w \in Workers : WorkerOK(w)) /\ NotForgotten

LEMMA SchedInit == Init => SchedInv
<1> SUFFICES ASSUME Init PROVE SchedInv
  OBVIOUS
<1>1. Current = 1
  BY DEF Init, Current
<1> QED
  BY <1>1, TypeInit DEF Init, SchedInv, WorkerOK, Computes, NotForgotten

LEMMA SchedStep ==
  ASSUME OneWorker, SchedInv, [Next]_vars
  PROVE  SchedInv' /\ stored' >= stored
<1> USE ConstantsAssumption
<1>0. TypeOK /\ TypeOK' /\ Current \in Nat /\ Current' \in Nat /\ stored \in 0 .. Current
  BY TypeStep, AppendIsSeq DEF SchedInv, TypeOK, Current
<1>1. CASE UNCHANGED vars
  BY <1>1, <1>0 DEF SchedInv, vars, row, local, WorkerOK, Computes, NotForgotten, Pending, Working,
                    Current, TypeOK
<1>2. ASSUME NEW s \in Servers, NewHead(s)
      PROVE  SchedInv' /\ stored' >= stored
  <2>1. due'[s] > 0
    BY <1>2, <1>0 DEF NewHead, TypeOK
  <2>2. Pending'
    BY <2>1 DEF Pending
  <2> QED
    BY <1>2, <1>0, <2>2 DEF NewHead, SchedInv, WorkerOK, Computes, NotForgotten, row, local
<1>3. ASSUME NEW s \in Servers, Schedule(s)
      PROVE  SchedInv' /\ stored' >= stored
  <2>1. queue'[s] > 0
    BY <1>3, <1>0 DEF Schedule, TypeOK
  <2>2. Pending'
    BY <2>1 DEF Pending
  <2> QED
    BY <1>3, <1>0, <2>2 DEF Schedule, SchedInv, WorkerOK, Computes, NotForgotten, row, local
<1>4. ASSUME NEW s \in Servers, Restart(s)
      PROVE  SchedInv' /\ stored' >= stored
  <2>1. failures' # 0
    BY <1>4, <1>0 DEF Restart, TypeOK
  <2>2. \A w \in Workers : pc'[w] \in {pc[w], "idle"}
    BY <1>4 DEF Restart
  <2> QED
    BY <1>4, <1>0, <2>1, <2>2 DEF Restart, SchedInv, WorkerOK, Computes, NotForgotten, row, local
<1>5. ASSUME NEW w \in Workers, TakeTask(w)
      PROVE  SchedInv' /\ stored' >= stored
  <2>1. /\ pc'[w] = "info" /\ found'[w] = Current'
        /\ UNCHANGED <<stored, exists, Current>>
    BY <1>5, <1>0 DEF TakeTask, Goto, row, Current, TypeOK
  <2>2. Working'
    BY <2>1 DEF Working, Computes
  <2>3. \A v \in Workers : WorkerOK(v)'
    BY <1>0, <2>1 DEF OneWorker, WorkerOK, Computes, TypeOK
  <2> QED
    BY <1>0, <2>1, <2>2, <2>3 DEF SchedInv, NotForgotten
<1>6. ASSUME NEW w \in Workers, GetOldRepoInfo(w)
      PROVE  SchedInv' /\ stored' >= stored
  <2>1. /\ UNCHANGED <<stored, exists, found, due, queue, Current, failures>>
        /\ pc'[w] = (IF stored = found[w] THEN "idle" ELSE "select")
        /\ Computes(w)
    BY <1>6, <1>0 DEF GetOldRepoInfo, Goto, Computes, row, Current, TypeOK
  <2>2. \A v \in Workers : WorkerOK(v)'
    BY <1>0, <2>1 DEF OneWorker, SchedInv, WorkerOK, Computes, TypeOK
  <2>3. NotForgotten'
    BY <1>0, <2>1 DEF OneWorker, SchedInv, NotForgotten, Pending, Working, Computes
  <2> QED
    BY <1>0, <2>1, <2>2, <2>3 DEF SchedInv
<1>7. ASSUME NEW w \in Workers, SelectHead(w)
      PROVE  SchedInv' /\ stored' >= stored
  <2>1. /\ UNCHANGED <<stored, found, due, queue, Current, failures>>
        /\ Computes(w) /\ pc'[w] = "write"
        /\ exists'[w] = (stored # None)
    BY <1>7, <1>0 DEF SelectHead, Goto, Computes, row, Current, TypeOK
  <2>2. \A v \in Workers : WorkerOK(v)'
    BY <1>0, <2>1 DEF OneWorker, SchedInv, WorkerOK, Computes, TypeOK
  <2>3. NotForgotten'
    BY <1>0, <2>1 DEF OneWorker, SchedInv, NotForgotten, Pending, Working, Computes
  <2> QED
    BY <1>0, <2>1, <2>2, <2>3 DEF SchedInv
<1>8. ASSUME NEW w \in Workers, SetRepoSizeAndFileCount(w)
      PROVE  SchedInv' /\ stored' >= stored
  <2>1. /\ stored' = found[w]
        /\ UNCHANGED <<found, due, queue, Current, failures>>
        /\ Computes(w) /\ pc'[w] = "idle"
    BY <1>8, <1>0 DEF SetRepoSizeAndFileCount, Goto, Computes, local, Current, TypeOK
  <2>2. \A v \in Workers : WorkerOK(v)'
    BY <1>0, <2>1 DEF OneWorker, WorkerOK, Computes
  <2>3. stored <= found[w] /\ found[w] \in 0 .. Current
    BY <1>0, <2>1 DEF SchedInv, WorkerOK, Computes, TypeOK
  <2>4. NotForgotten'
    BY <1>0, <2>1, <2>3 DEF OneWorker, SchedInv, NotForgotten, Pending, Working, Computes
  <2> QED
    BY <1>0, <2>1, <2>2, <2>3, <2>4 DEF SchedInv
<1>9. ASSUME NEW w \in Workers, InsertFails(w)
      PROVE  SchedInv' /\ stored' >= stored
  BY <1>9 DEF InsertFails, SchedInv, WorkerOK, Computes
<1>10. ASSUME NEW w \in Workers, TaskFails(w)
       PROVE  SchedInv' /\ stored' >= stored
  <2>1. failures' # 0
    BY <1>10, <1>0 DEF TaskFails, Computes, TypeOK
  <2>2. \A v \in Workers : pc'[v] \in {pc[v], "idle", "ended"}
    BY <1>10, <1>0 DEF TaskFails, Computes, Goto, TypeOK
  <2> QED
    BY <1>10, <1>0, <2>1, <2>2 DEF TaskFails, Computes, SchedInv, WorkerOK, NotForgotten, row, local
<1> QED
  BY <1>1, <1>2, <1>3, <1>4, <1>5, <1>6, <1>7, <1>8, <1>9, <1>10 DEF Next, Work, Idle

LEMMA SchedInvariant == ASSUME OneWorker PROVE Spec => []SchedInv
<1>1. SchedInv /\ [Next]_vars => SchedInv'
  BY SchedStep
<1> QED
  BY <1>1, SchedInit, PTL DEF Spec

(* With one worker the size of the last head is stored once nothing is     *)
(* left to be done, however handlers and the worker interleave.            *)
THEOREM LastHeadIsStored == ASSUME OneWorker PROVE Spec => []QuietMeansUpToDate
<1>1. SchedInv => QuietMeansUpToDate
  <2> SUFFICES ASSUME SchedInv, Quiet, failures = 0, Current > 1 PROVE stored = Current
    BY DEF QuietMeansUpToDate
  <2>1. ~Pending /\ ~Working
    BY DEF Quiet, Pending, Working, Computes
  <2> QED
    BY <2>1 DEF SchedInv, NotForgotten
<1> QED
  BY <1>1, SchedInvariant, PTL

(* With one worker the stored size never goes back to an older head's,     *)
(* even when tasks fail and servers restart.                               *)
THEOREM SizesAdvance == ASSUME OneWorker PROVE Spec => SizeOnlyAdvances
<1>1. SchedInv /\ [Next]_vars => [stored' >= stored]_vars
  BY SchedStep
<1> QED
  BY <1>1, SchedInvariant, PTL DEF Spec, SizeOnlyAdvances
=============================================================================
