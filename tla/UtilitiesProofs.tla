----------------------------- MODULE UtilitiesProofs -----------------------------
(***************************************************************************)
(* Proofs about Utilities: what a download, a copy, a walk and the decoder *)
(* promise, for every answer of a server, every size of a buffer and of a  *)
(* file, every tree, every text and every number of failures.              *)
(***************************************************************************)
EXTENDS Utilities, SequenceTheorems, FiniteSetTheorems, TLAPS

LEMMA HttpAssumed == H!HttpAssumption
BY UtilitiesAssumption

LEMMA CopyAssumed == F!CopyAssumption
BY UtilitiesAssumption

LEMMA TextAssumed == B!TextAssumption
BY UtilitiesAssumption

LEMMA TreeAssumed == R!TreeAssumption /\ IsFiniteSet(Files)
BY UtilitiesAssumption DEF R!TreeAssumption, R!IsFiniteSet, IsFiniteSet

-----------------------------------------------------------------------------
(* recursiveCopy *)

\* Induction over the subsets of a finite set, for a set of subsets.
LEMMA SubsetInduction ==
  ASSUME NEW S, IsFiniteSet(S), NEW G,
         \A T \in SUBSET S : (\A U \in SUBSET T : U # T => U \in G) => T \in G
  PROVE  \A T \in SUBSET S : T \in G
<1> SUFFICES ASSUME (SUBSET S) \ G # {} PROVE FALSE
  OBVIOUS
<1> DEFINE Smaller == StrictSubsetOrdering(S)
           Bad == (SUBSET S) \ G
<1>1. IsWellFoundedOn(Smaller, SUBSET S)
  <2>1. FiniteSubsetsOf(S) = SUBSET S
    BY FS_FiniteSubsetsOfFinite
  <2>2. IsWellFoundedOn(Smaller, FiniteSubsetsOf(S))
    BY FS_StrictSubsetOrderingWellFounded
  <2> QED
    BY <2>1, <2>2
<1> HIDE DEF Smaller
<1>2. PICK T \in Bad : \A U \in Bad : ~(<<U, T>> \in Smaller)
  <2>1. Bad \subseteq SUBSET S /\ Bad # {}
    OBVIOUS
  <2> HIDE DEF Bad
  <2> QED
    BY <1>1, <2>1, WFMin
<1>3. \A U \in SUBSET T : U # T => U \in G
  BY <1>2 DEF Smaller, StrictSubsetOrdering
<1> QED
  BY <1>2, <1>3

LEMMA BytesType == \A e : R!Bytes(e) \in Nat
BY TreeAssumed DEF R!Bytes, R!TreeAssumption

\* A sum as the size of a set: as many units for each file as it has bytes.
Units(s) == UNION {{e} \X (1..R!Bytes(e)) : e \in s}

LEMMA UnitsOfOne ==
  ASSUME NEW e
  PROVE  IsFiniteSet({e} \X (1..R!Bytes(e))) /\ Cardinality({e} \X (1..R!Bytes(e))) = R!Bytes(e)
<1>1. R!Bytes(e) \in Nat
  BY BytesType
<1>2. IsFiniteSet(1..R!Bytes(e)) /\ Cardinality(1..R!Bytes(e)) = R!Bytes(e)
  BY <1>1, FS_Interval
<1>3. IsFiniteSet({e}) /\ Cardinality({e}) = 1
  BY FS_Singleton
<1>4. /\ IsFiniteSet({e} \X (1..R!Bytes(e)))
      /\ Cardinality({e} \X (1..R!Bytes(e))) = Cardinality({e}) * Cardinality(1..R!Bytes(e))
  BY <1>2, <1>3, FS_Product
<1> QED
  BY <1>1, <1>2, <1>3, <1>4

LEMMA UnitsGrow ==
  ASSUME NEW s, NEW e, e \notin s, IsFiniteSet(Units(s))
  PROVE  /\ IsFiniteSet(Units(s \cup {e}))
         /\ Cardinality(Units(s \cup {e})) = R!Bytes(e) + Cardinality(Units(s))
<1> DEFINE A == Units(s)
           Added == {e} \X (1..R!Bytes(e))
<1>1. Units(s \cup {e}) = A \cup Added
  BY DEF Units
<1>2. A \cap Added = {}
  BY DEF Units
<1>3. IsFiniteSet(Added) /\ Cardinality(Added) = R!Bytes(e)
  BY UnitsOfOne
<1> HIDE DEF A, Added
<1>4. /\ IsFiniteSet(A \cup Added)
      /\ Cardinality(A \cup Added) = Cardinality(A) + Cardinality(Added) - Cardinality(A \cap Added)
  BY <1>3, FS_Union DEF A
<1>5. Cardinality(A) \in Nat /\ Cardinality(A \cap Added) = 0
  BY <1>2, FS_EmptySet, FS_CardinalityType DEF A
<1> QED
  <2>1. R!Bytes(e) \in Nat
    BY BytesType
  <2>2. Cardinality(A \cup Added) = R!Bytes(e) + Cardinality(A)
    BY <1>3, <1>4, <1>5, <2>1
  <2> QED
    BY <1>1, <1>4, <2>2 DEF A

LEMMA UnitsFinite ==
  ASSUME NEW S, IsFiniteSet(S)
  PROVE  \A T \in SUBSET S : IsFiniteSet(Units(T)) /\ Cardinality(Units(T)) \in Nat
<1> DEFINE G == {T \in SUBSET S : IsFiniteSet(Units(T))}
<1>1. ASSUME NEW T \in SUBSET S, \A U \in SUBSET T : U # T => U \in G
      PROVE  T \in G
  <2>1. CASE T = {}
    <3>1. Units(T) = {}
      BY <2>1 DEF Units
    <3> QED
      BY <3>1, FS_EmptySet
  <2>2. CASE T # {}
    <3>1. PICK e \in T : TRUE
      BY <2>2
    <3>2. T \ {e} \in G
      BY <1>1, <3>1
    <3>3. (T \ {e}) \cup {e} = T
      BY <3>1
    <3> QED
      BY <3>2, <3>3, UnitsGrow
  <2> QED
    BY <2>1, <2>2
<1> HIDE DEF G
<1>2. \A T \in SUBSET S : T \in G
  BY <1>1, SubsetInduction
<1> QED
  BY <1>2, FS_CardinalityType DEF G

Pick(s) == CHOOSE e \in s : TRUE

\* The fold as a function on the subsets.
SumOf(f, S) ==
  f = [s \in SUBSET S |-> IF s = {} THEN 0 ELSE R!Bytes(Pick(s)) + f[s \ {Pick(s)}]]

LEMMA SumUnfolds ==
  ASSUME NEW S
  PROVE  R!MapThenSumSet(R!Bytes, S) = (CHOOSE f : SumOf(f, S))[S]
BY DEF R!MapThenSumSet, R!MapThenFoldSet, SumOf, Pick

\* There is such a function, and it gives each subset the number of its units.
LEMMA SumIsUnits ==
  ASSUME NEW S, IsFiniteSet(S)
  PROVE  R!MapThenSumSet(R!Bytes, S) = Cardinality(Units(S))
<1> DEFINE count == [s \in SUBSET S |-> Cardinality(Units(s))]
<1>1. ASSUME NEW s \in SUBSET S, s # {}
      PROVE  /\ Pick(s) \in s /\ s \ {Pick(s)} \in SUBSET S
             /\ Cardinality(Units(s)) = R!Bytes(Pick(s)) + Cardinality(Units(s \ {Pick(s)}))
  <2>1. Pick(s) \in s
    BY <1>1 DEF Pick
  <2>2. s \ {Pick(s)} \in SUBSET S /\ (s \ {Pick(s)}) \cup {Pick(s)} = s
    BY <2>1
  <2> QED
    BY <2>1, <2>2, UnitsFinite, UnitsGrow
<1>2. Cardinality(Units({})) = 0
  <2>1. Units({}) = {}
    BY DEF Units
  <2> QED
    BY <2>1, FS_EmptySet
<1>3. SumOf(count, S)
  BY <1>1, <1>2 DEF SumOf
<1> DEFINE f == CHOOSE g : SumOf(g, S)
<1>4. SumOf(f, S)
  BY <1>3
<1> HIDE DEF f, count
<1> DEFINE G == {T \in SUBSET S : f[T] = Cardinality(Units(T))}
<1>5. ASSUME NEW T \in SUBSET S, \A U \in SUBSET T : U # T => U \in G
      PROVE  T \in G
  <2>1. f[T] = IF T = {} THEN 0 ELSE R!Bytes(Pick(T)) + f[T \ {Pick(T)}]
    BY <1>4 DEF SumOf
  <2>2. CASE T = {}
    BY <2>1, <2>2, <1>2
  <2>3. CASE T # {}
    <3>1. T \ {Pick(T)} \in G
      BY <2>3, <1>1, <1>5
    <3>2. f[T \ {Pick(T)}] = Cardinality(Units(T \ {Pick(T)}))
      BY <3>1
    <3> QED
      BY <2>1, <2>3, <3>2, <1>1
  <2> QED
    BY <2>2, <2>3
<1> HIDE DEF G
<1>6. S \in G
  BY <1>5, SubsetInduction
<1>7. f[S] = Cardinality(Units(S))
  BY <1>6 DEF G
<1> QED
  BY <1>7, SumUnfolds DEF f

\* One file more or less.
LEMMA SumGrows ==
  ASSUME NEW S, IsFiniteSet(S), NEW e, e \notin S
  PROVE  /\ R!MapThenSumSet(R!Bytes, S) \in Nat
         /\ R!MapThenSumSet(R!Bytes, S \cup {e}) = R!MapThenSumSet(R!Bytes, S) + R!Bytes(e)
<1>1. IsFiniteSet(S \cup {e})
  BY FS_AddElement
<1>2. /\ R!MapThenSumSet(R!Bytes, S) = Cardinality(Units(S))
      /\ R!MapThenSumSet(R!Bytes, S \cup {e}) = Cardinality(Units(S \cup {e}))
  BY <1>1, SumIsUnits
<1>3. IsFiniteSet(Units(S)) /\ Cardinality(Units(S)) \in Nat
  BY UnitsFinite
<1>4. Cardinality(Units(S \cup {e})) = R!Bytes(e) + Cardinality(Units(S))
  BY <1>3, UnitsGrow
<1> QED
  BY <1>2, <1>3, <1>4, BytesType

LEMMA SumOfNone == R!MapThenSumSet(R!Bytes, {}) = 0
<1>1. IsFiniteSet({}) /\ Units({}) = {} /\ Cardinality({}) = 0
  BY FS_EmptySet DEF Units
<1> QED
  BY <1>1, SumIsUnits

\* There is a largest file.
LEMMA LargestFile == R!Biggest \in Nat /\ \A e \in Files : Size[e] <= R!Biggest
<1>1. Size \in [Files -> Nat] /\ IsFiniteSet(Files) /\ Files # {}
  BY TreeAssumed DEF R!TreeAssumption
<1> DEFINE G == {T \in SUBSET Files : T = {} \/ \E e \in T : \A g \in T : Size[g] <= Size[e]}
<1>2. ASSUME NEW T \in SUBSET Files, \A U \in SUBSET T : U # T => U \in G
      PROVE  T \in G
  <2>1. CASE T = {}
    BY <2>1
  <2>2. CASE T # {}
    <3>1. PICK e \in T : TRUE
      BY <2>2
    <3>2. T \ {e} \in G /\ Size[e] \in Nat
      BY <1>1, <1>2, <3>1
    <3>3. CASE T \ {e} = {}
      <4>1. \A g \in T : Size[g] <= Size[e]
        BY <3>2, <3>3
      <4> QED
        BY <3>1, <4>1
    <3>4. CASE T \ {e} # {}
      <4>1. PICK h \in T \ {e} : \A g \in T \ {e} : Size[g] <= Size[h]
        BY <3>2, <3>4
      <4>2. Size[h] \in Nat /\ \A g \in T : Size[g] \in Nat
        BY <1>1, <4>1
      <4>3. CASE Size[h] <= Size[e]
        <5>1. \A g \in T : Size[g] <= Size[e]
          BY <3>2, <4>1, <4>2, <4>3
        <5> QED
          BY <3>1, <5>1
      <4>4. CASE Size[e] <= Size[h]
        <5>1. \A g \in T : Size[g] <= Size[h]
          BY <4>1, <4>2, <4>4
        <5> QED
          BY <4>1, <5>1
      <4> QED
        BY <3>2, <4>2, <4>3, <4>4
    <3> QED
      BY <3>3, <3>4
  <2> QED
    BY <2>1, <2>2
<1> HIDE DEF G
<1>3. Files \in G
  BY <1>1, <1>2, SubsetInduction
<1>4. PICK e \in Files : \A g \in Files : Size[g] <= Size[e]
  BY <1>1, <1>3 DEF G
<1> DEFINE M == {Size[f] : f \in Files}
<1>5. M \subseteq Nat /\ \E x \in M : \A y \in M : x >= y
  <2>1. Size[e] \in M /\ Size[e] \in Nat /\ M \subseteq Nat
    BY <1>1, <1>4
  <2>2. \A y \in M : Size[e] >= y
    BY <1>1, <1>4, <2>1
  <2> QED
    BY <2>1, <2>2
<1>6. R!Max(M) \in M /\ \A y \in M : R!Max(M) >= y
  BY <1>5 DEF R!Max
<1>7. R!Max(M) \in Nat /\ \A g \in Files : Size[g] <= R!Max(M)
  BY <1>1, <1>5, <1>6
<1> QED
  BY <1>7 DEF R!Biggest

LEMMA SumType ==
  ASSUME NEW S, IsFiniteSet(S)
  PROVE  R!MapThenSumSet(R!Bytes, S) \in Nat
BY SumIsUnits, UnitsFinite

-----------------------------------------------------------------------------
Batch == Limit - 1 + R!Biggest

Loss == R!MapThenSumSet(R!Bytes, R!Missing)

Allowed(n) == n * Batch

\* What has been visited and copied.
Visited ==
  /\ \A f \in visited \cap R!Entries : Parent[f] \in visited
  /\ image \subseteq visited

\* As long as no command has failed.
Faultless ==
  failed = {} => /\ image = visited
                 /\ mounted <=> pc \in {"walk", "umount", "done"}
                 /\ pc = "mount" => attached

\* Why the image is not there when a file is copied.
Missed ==
  /\ pc = "walk" /\ ~mounted => failed \cap {"attach", "mount"} # {}
  /\ pc = "mount" /\ ~attached => "attach" \in failed
  /\ R!RootUntouched

\* The batch under way, and what of it waits in the cache.
Waiting ==
  /\ pc \in {"walk", "done"} => bytesCopied < Limit
  /\ pc = "umount" => bytesCopied <= Batch
  /\ "umount" \notin failed => IF pc \in {"walk", "umount"} THEN unsynced <= bytesCopied
                                                          ELSE unsynced = 0

\* What the failures so far account for: the batch under way is another one's if the
\* image is not there.
Accounted ==
  /\ pc \in {"umount", "detach", "attach"} => Loss <= Allowed(failures)
  /\ pc = "mount" =>
       IF attached THEN Loss <= Allowed(failures)
       ELSE failures >= 1 /\ Loss <= Allowed(failures - 1)
  /\ pc \in {"walk", "done"} =>
       IF mounted THEN Loss <= Allowed(failures)
       ELSE failures >= 1 /\ Loss <= Allowed(failures - 1) + bytesCopied

WalkInv == R!TypeOK /\ Visited /\ Faultless /\ Missed /\ Waiting /\ Accounted

LEMMA LimitType == /\ Limit \in Nat /\ Limit >= 1 /\ MaxFailures \in Nat
                   /\ R!Biggest \in Nat /\ Batch \in Nat /\ Batch = Limit - 1 + R!Biggest
                   /\ \A e : R!Bytes(e) \in Nat /\ R!Bytes(e) <= R!Biggest
BY LargestFile, BytesType, TreeAssumed DEF R!TreeAssumption, Batch, R!Bytes

LEMMA OneMore ==
  ASSUME NEW n \in Nat
  PROVE  Allowed(n) \in Nat /\ Allowed(n + 1) = Allowed(n) + Batch
BY LimitType DEF Allowed

LEMMA OneLess ==
  ASSUME NEW n \in Nat, n >= 1
  PROVE  n - 1 \in Nat /\ Allowed(n - 1) \in Nat /\ Allowed(n) = Allowed(n - 1) + Batch
<1>1. n - 1 \in Nat /\ (n - 1) + 1 = n
  OBVIOUS
<1> QED
  BY <1>1, OneMore

LEMMA LossType == IsFiniteSet(R!Missing) /\ Loss \in Nat
<1>1. R!Missing \in SUBSET Files /\ IsFiniteSet(Files)
  BY TreeAssumed DEF R!Missing, R!TreeAssumption
<1>2. IsFiniteSet(R!Missing)
  BY <1>1, FS_Subset
<1> QED
  BY <1>2, SumType DEF Loss

\* A visit adds at most what it is about to what is missing, and nothing if it is
\* copied or its directory is not there.
LEMMA VisitLoses ==
  ASSUME R!TypeOK, Visited, NEW e \in R!Entries \ visited, Parent[e] \in visited,
         visited' = visited \cup {e},
         image' = image \/ (Parent[e] \in image /\ image' = image \cup {e})
  PROVE  /\ Loss' \in Nat
         /\ Loss' = Loss \/ Loss' = Loss + R!Bytes(e)
         /\ e \in image' \/ Parent[e] \notin image => Loss' = Loss
<1>1. e \notin image /\ Parent[e] # e
  BY DEF Visited
<1>2. ASSUME NEW f \in Files \cap visited
      PROVE  f # e /\ (f \in image' <=> f \in image) /\ (Parent[f] \in image' <=> Parent[f] \in image)
  <2>1. f \in R!Entries /\ Parent[f] \in visited
    BY DEF Visited, R!Entries
  <2> QED
    BY <2>1
<1>3. R!Missing' = R!Missing \/ (R!Missing' = R!Missing \cup {e} /\ e \notin image' /\ Parent[e] \in image)
  <2>1. R!Missing' = {f \in Files \cap (visited \cup {e}) : f \notin image' /\ Parent[f] \in image'}
    BY DEF R!Missing
  <2>2. Parent[e] \in image' <=> Parent[e] \in image
    BY <1>1
  <2>3. CASE e \in Files /\ e \notin image' /\ Parent[e] \in image
    <3>1. R!Missing' = R!Missing \cup {e}
      BY <1>2, <2>1, <2>2, <2>3 DEF R!Missing
    <3> QED
      BY <3>1, <2>3
  <2>4. CASE ~(e \in Files /\ e \notin image' /\ Parent[e] \in image)
    BY <1>2, <2>1, <2>2, <2>4 DEF R!Missing
  <2> QED
    BY <2>3, <2>4
<1>4. e \notin R!Missing
  BY DEF R!Missing
<1>5. Loss' = R!MapThenSumSet(R!Bytes, R!Missing')
  BY DEF Loss, R!Bytes, R!MapThenSumSet, R!MapThenFoldSet
<1>6. IsFiniteSet(R!Missing) /\ Loss \in Nat
  BY LossType
<1>7. CASE R!Missing' = R!Missing
  BY <1>5, <1>6, <1>7 DEF Loss
<1>8. CASE R!Missing' = R!Missing \cup {e} /\ e \notin image' /\ Parent[e] \in image
  <2>1. Loss' = Loss + R!Bytes(e)
    BY <1>4, <1>5, <1>6, <1>8, SumGrows DEF Loss
  <2> QED
    BY <1>6, <1>8, <2>1, BytesType
<1> QED
  BY <1>3, <1>7, <1>8

-----------------------------------------------------------------------------
LEMMA WalkStart == R!Init => WalkInv
<1> SUFFICES ASSUME R!Init PROVE WalkInv
  OBVIOUS
<1>1. Top \notin R!Entries
  BY TreeAssumed DEF R!TreeAssumption
<1>2. R!TypeOK
  <2>1. {visited, image, root} \subseteq SUBSET (R!Entries \cup {Top})
    BY DEF R!Init
  <2>2. failures \in 0..MaxFailures
    BY LimitType DEF R!Init
  <2> QED
    BY <2>1, <2>2 DEF R!Init, R!TypeOK
<1>3. Visited /\ Faultless /\ Missed
  BY <1>1 DEF R!Init, Visited, Faultless, Missed, R!RootUntouched
<1>4. Waiting
  BY LimitType DEF R!Init, Waiting
<1>5. Accounted
  <2>1. R!Missing = {}
    BY DEF R!Init, R!Missing
  <2>2. Loss = 0
    BY <2>1, SumOfNone DEF Loss
  <2>3. Allowed(0) \in Nat
    BY OneMore
  <2> QED
    BY <2>2, <2>3 DEF R!Init, Accounted
<1> QED
  BY <1>2, <1>3, <1>4, <1>5 DEF WalkInv

LEMMA WalkImplies ==
  ASSUME WalkInv
  PROVE  R!TypeOK /\ R!CopiesAll /\ R!RootUntouched /\ R!CacheBounded /\ R!LossBounded
<1>1. R!TypeOK /\ Visited /\ Faultless /\ Missed /\ Waiting /\ Accounted
  BY DEF WalkInv
<1>2. pc \in {"walk", "umount", "detach", "attach", "mount", "done"} /\ failures \in Nat
      /\ bytesCopied \in Nat /\ unsynced \in Nat
  BY <1>1, LimitType DEF R!TypeOK
<1>3. R!CopiesAll
  BY <1>1, <1>2 DEF R!CopiesAll, Faultless
<1>4. R!CacheBounded
  <2>1. pc \in {"walk", "done"} => bytesCopied <= Batch
    BY <1>1, <1>2, LimitType DEF Waiting
  <2>2. "umount" \notin failed => unsynced <= Batch
    BY <1>1, <1>2, <2>1, LimitType DEF Waiting
  <2> QED
    BY <1>2, <2>2, LimitType DEF R!CacheBounded
<1>5. R!LossBounded
  <2>1. Loss \in Nat /\ Allowed(failures) \in Nat
    BY <1>2, LossType, OneMore
  <2>2. failures >= 1 => Allowed(failures - 1) \in Nat /\ Allowed(failures) = Allowed(failures - 1) + Batch
    BY <1>2, OneLess
  <2>3. pc \in {"walk", "done"} => bytesCopied <= Batch
    BY <1>1, <1>2, LimitType DEF Waiting
  <2>4. Loss <= Allowed(failures)
    BY <1>1, <1>2, <2>1, <2>2, <2>3, LimitType DEF Accounted
  <2> QED
    BY <2>4 DEF Loss, Allowed, Batch, R!LossBounded
<1> QED
  BY <1>1, <1>3, <1>4, <1>5 DEF Missed

\* A failure more costs a batch more.
LEMMA FailsType ==
  ASSUME failures \in 0..MaxFailures, NEW c, R!Fails(c) \/ R!Succeeds
  PROVE  /\ failures \in Nat /\ failures' \in 0..MaxFailures
         /\ R!Fails(c) => failures' = failures + 1 /\ Allowed(failures') = Allowed(failures) + Batch
                        /\ failed' = failed \cup {c}
         /\ R!Succeeds => failures' = failures /\ failed' = failed
<1>1. failures \in Nat /\ MaxFailures \in Nat
  BY LimitType
<1>2. CASE R!Fails(c)
  BY <1>1, <1>2, OneMore DEF R!Fails, R!Succeeds
<1>3. CASE R!Succeeds
  BY <1>1, <1>3 DEF R!Fails, R!Succeeds
<1> QED
  BY <1>2, <1>3

LEMMA LossKept ==
  ASSUME UNCHANGED <<visited, R!trees>>
  PROVE  Loss' = Loss
<1>1. R!Missing' = R!Missing
  BY DEF R!Missing, R!trees
<1> QED
  BY <1>1 DEF Loss, R!Bytes, R!MapThenSumSet, R!MapThenFoldSet

LEMMA AllowedPrimed == Allowed(failures)' = Allowed(failures') /\ Allowed(failures - 1)' = Allowed(failures' - 1)
BY DEF Allowed, Batch, R!Biggest, R!Max

\* What the failures so far allow, one more allows.
LEMMA MoreAllowed ==
  ASSUME failures \in Nat, failures' = failures \/ failures' = failures + 1,
         Loss \in Nat, Loss' = Loss, Loss <= Allowed(failures)
  PROVE  Loss' <= Allowed(failures') /\ Loss' <= Allowed(failures)'
<1>1. Allowed(failures) \in Nat /\ Batch \in Nat /\ Allowed(failures + 1) = Allowed(failures) + Batch
  BY OneMore, LimitType
<1>2. Loss <= Allowed(failures + 1)
  BY <1>1
<1> QED
  BY <1>2, AllowedPrimed

\* What the four commands have in common.
LEMMA CommandKeeps ==
  ASSUME WalkInv, NEW c \in {"umount", "detach", "attach", "mount"}, NEW next, R!Command(c, next),
         next \in {"walk", "detach", "attach", "mount", "done"}, R!Succeeds \/ R!Fails(c),
         attached' \in BOOLEAN, mounted' \in BOOLEAN, mounted' => attached',
         bytesCopied' \in Nat, unsynced' \in Nat
  PROVE  /\ R!TypeOK' /\ Visited' /\ pc = c /\ pc' = next
         /\ UNCHANGED <<visited, R!trees, last>>
         /\ failures \in Nat /\ failures' \in Nat
         /\ Loss \in Nat /\ Loss' = Loss
         /\ Allowed(failures) \in Nat /\ Batch \in Nat
         /\ (R!Succeeds => failures' = failures /\ failed' = failed)
         /\ (R!Fails(c) => failures' = failures + 1 /\ failed' = failed \cup {c})
<1>1. R!TypeOK /\ Visited
  BY DEF WalkInv
<1>2. pc = c /\ pc' = next /\ visited' = visited /\ image' = image /\ root' = root /\ last' = last
  BY DEF R!Command, R!trees
<1>3. /\ failures \in Nat /\ failures' \in 0..MaxFailures
      /\ (R!Succeeds => failures' = failures /\ failed' = failed)
      /\ (R!Fails(c) => failures' = failures + 1 /\ failed' = failed \cup {c})
  BY <1>1, FailsType DEF R!TypeOK
<1>4. R!TypeOK'
  <2>1. {visited', image', root'} \subseteq SUBSET (R!Entries \cup {Top})
    BY <1>1, <1>2 DEF R!TypeOK
  <2>2. failed' \subseteq {"copy", "umount", "detach", "attach", "mount"}
    BY <1>1, <1>3 DEF R!TypeOK
  <2>3. last' \in BOOLEAN
    BY <1>1, <1>2 DEF R!TypeOK
  <2> QED
    BY <1>2, <1>3, <2>1, <2>2, <2>3 DEF R!TypeOK
<1>5. Visited'
  BY <1>1, <1>2 DEF Visited
<1>6. Loss \in Nat /\ Loss' = Loss
  BY <1>2, LossType, LossKept DEF R!trees
<1> QED
  BY <1>2, <1>3, <1>4, <1>5, <1>6, OneMore, LimitType DEF R!trees

LEMMA UmountKeeps ==
  ASSUME WalkInv, R!Umount
  PROVE  WalkInv'
<1>1. R!TypeOK /\ Visited /\ Faultless /\ Missed /\ Waiting /\ Accounted
  BY DEF WalkInv
<1>2. /\ R!Command("umount", "detach") /\ attached' = attached /\ bytesCopied' = bytesCopied
      /\ \/ R!Succeeds /\ mounted' = FALSE /\ unsynced' = 0
         \/ R!Fails("umount") /\ mounted' = mounted /\ unsynced' = unsynced
  BY DEF R!Umount
<1>3. /\ attached' \in BOOLEAN /\ mounted' \in BOOLEAN /\ (mounted' => attached')
      /\ bytesCopied' \in Nat /\ unsynced' \in Nat
  <2>1. attached \in BOOLEAN /\ mounted \in BOOLEAN /\ (mounted => attached)
    BY <1>1 DEF R!TypeOK
  <2>2. attached' \in BOOLEAN /\ mounted' \in BOOLEAN /\ (mounted' => attached')
    <3>1. CASE mounted' = FALSE
      BY <1>2, <2>1, <3>1
    <3>2. CASE mounted' = mounted
      BY <1>2, <2>1, <3>2, Zenon
    <3> QED
      BY <1>2, <3>1, <3>2, Zenon
  <2> QED
    BY <1>1, <1>2, <2>2 DEF R!TypeOK
<1>4. /\ R!TypeOK' /\ Visited' /\ pc = "umount" /\ pc' = "detach"
      /\ UNCHANGED <<visited, R!trees, last>>
      /\ failures \in Nat /\ failures' \in Nat
      /\ Loss \in Nat /\ Loss' = Loss
      /\ Allowed(failures) \in Nat /\ Batch \in Nat
      /\ (R!Succeeds => failures' = failures /\ failed' = failed)
      /\ (R!Fails("umount") => failures' = failures + 1 /\ failed' = failed \cup {"umount"})
  BY <1>2, <1>3, CommandKeeps
<1>6. Faultless' /\ Missed'
  BY <1>1, <1>2, <1>4 DEF R!Fails, R!Succeeds, Faultless, Missed, R!RootUntouched, R!trees
<1>7. Waiting'
  BY <1>1, <1>2, <1>4 DEF Waiting
<1>8. Accounted'
  BY <1>1, <1>2, <1>4, MoreAllowed DEF Accounted
<1> QED
  BY <1>4, <1>6, <1>7, <1>8 DEF WalkInv

LEMMA DetachKeeps ==
  ASSUME WalkInv, R!Detach
  PROVE  WalkInv'
<1>1. R!TypeOK /\ Visited /\ Faultless /\ Missed /\ Waiting /\ Accounted
  BY DEF WalkInv
<1>2. /\ R!Command("detach", "attach") /\ mounted' = mounted /\ bytesCopied' = bytesCopied
      /\ unsynced' = unsynced
      /\ \/ R!Succeeds /\ attached' = (attached /\ mounted)
         \/ R!Fails("detach") /\ attached' = attached
  BY DEF R!Detach
<1>3. /\ attached' \in BOOLEAN /\ mounted' \in BOOLEAN /\ (mounted' => attached')
      /\ bytesCopied' \in Nat /\ unsynced' \in Nat
  <2>1. attached \in BOOLEAN /\ mounted \in BOOLEAN /\ (mounted => attached)
    BY <1>1 DEF R!TypeOK
  <2>2. attached' \in BOOLEAN /\ mounted' \in BOOLEAN /\ (mounted' => attached')
    BY <1>2, <2>1, Zenon
  <2> QED
    BY <1>1, <1>2, <2>2 DEF R!TypeOK
<1>4. /\ R!TypeOK' /\ Visited' /\ pc = "detach" /\ pc' = "attach"
      /\ UNCHANGED <<visited, R!trees, last>>
      /\ failures \in Nat /\ failures' \in Nat
      /\ Loss \in Nat /\ Loss' = Loss
      /\ Allowed(failures) \in Nat /\ Batch \in Nat
      /\ (R!Succeeds => failures' = failures /\ failed' = failed)
      /\ (R!Fails("detach") => failures' = failures + 1 /\ failed' = failed \cup {"detach"})
  BY <1>2, <1>3, CommandKeeps
<1>6. Faultless' /\ Missed'
  BY <1>1, <1>2, <1>4 DEF Faultless, Missed, R!RootUntouched, R!trees
<1>7. Waiting'
  BY <1>1, <1>2, <1>4 DEF Waiting
<1>8. Accounted'
  BY <1>1, <1>2, <1>4, MoreAllowed DEF Accounted
<1> QED
  BY <1>4, <1>6, <1>7, <1>8 DEF WalkInv

LEMMA AttachKeeps ==
  ASSUME WalkInv, R!Attach
  PROVE  WalkInv'
<1>1. R!TypeOK /\ Visited /\ Faultless /\ Missed /\ Waiting /\ Accounted
  BY DEF WalkInv
<1>2. /\ R!Command("attach", "mount") /\ mounted' = mounted /\ bytesCopied' = bytesCopied
      /\ unsynced' = unsynced
      /\ \/ R!Succeeds /\ attached' = TRUE
         \/ R!Fails("attach") /\ attached' = attached
  BY DEF R!Attach
<1>3. /\ attached' \in BOOLEAN /\ mounted' \in BOOLEAN /\ (mounted' => attached')
      /\ bytesCopied' \in Nat /\ unsynced' \in Nat
  <2>1. attached \in BOOLEAN /\ mounted \in BOOLEAN /\ (mounted => attached)
    BY <1>1 DEF R!TypeOK
  <2>2. attached' \in BOOLEAN /\ mounted' \in BOOLEAN /\ (mounted' => attached')
    BY <1>2, <2>1, Zenon
  <2> QED
    BY <1>1, <1>2, <2>2 DEF R!TypeOK
<1>4. /\ R!TypeOK' /\ Visited' /\ pc = "attach" /\ pc' = "mount"
      /\ UNCHANGED <<visited, R!trees, last>>
      /\ failures \in Nat /\ failures' \in Nat
      /\ Loss \in Nat /\ Loss' = Loss
      /\ Allowed(failures) \in Nat /\ Batch \in Nat
      /\ (R!Succeeds => failures' = failures /\ failed' = failed)
      /\ (R!Fails("attach") => failures' = failures + 1 /\ failed' = failed \cup {"attach"})
  BY <1>2, <1>3, CommandKeeps
<1>5. ~attached' => failures' = failures + 1 /\ "attach" \in failed'
  BY <1>2, <1>4
<1>6. Faultless' /\ Missed'
  BY <1>1, <1>2, <1>4, <1>5 DEF Faultless, Missed, R!RootUntouched, R!trees
<1>7. Waiting'
  BY <1>1, <1>2, <1>4 DEF Waiting
<1>8. Accounted'
  <2>1. Loss' <= Allowed(failures')
    BY <1>1, <1>2, <1>4, MoreAllowed DEF Accounted
  <2>2. ~attached' => failures' >= 1 /\ Loss' <= Allowed(failures' - 1)
    <3>1. Loss' <= Allowed(failures)
      BY <1>1, <1>4 DEF Accounted
    <3> QED
      BY <1>4, <1>5, <3>1
  <2> QED
    BY <1>4, <2>1, <2>2, AllowedPrimed DEF Accounted
<1> QED
  BY <1>4, <1>6, <1>7, <1>8 DEF WalkInv

LEMMA MountKeeps ==
  ASSUME WalkInv, R!Mount
  PROVE  WalkInv'
<1>1. R!TypeOK /\ Visited /\ Faultless /\ Missed /\ Waiting /\ Accounted
  BY DEF WalkInv
<1> DEFINE next == IF last THEN "done" ELSE "walk"
<1>2. /\ R!Command("mount", next) /\ attached' = attached /\ bytesCopied' = 0
      /\ unsynced' = unsynced /\ next \in {"walk", "done"}
      /\ \/ R!Succeeds /\ mounted' = attached
         \/ R!Fails("mount") /\ mounted' = mounted
  BY DEF R!Mount
<1> HIDE DEF next
<1>3. /\ attached' \in BOOLEAN /\ mounted' \in BOOLEAN /\ (mounted' => attached')
      /\ bytesCopied' \in Nat /\ unsynced' \in Nat
  <2>1. attached \in BOOLEAN /\ mounted \in BOOLEAN /\ (mounted => attached)
    BY <1>1 DEF R!TypeOK
  <2>2. attached' \in BOOLEAN /\ mounted' \in BOOLEAN /\ (mounted' => attached')
    <3>1. CASE mounted' = attached
      BY <1>2, <2>1, <3>1, Zenon
    <3>2. CASE mounted' = mounted
      BY <1>2, <2>1, <3>2, Zenon
    <3> QED
      BY <1>2, <3>1, <3>2, Zenon
  <2> QED
    BY <1>1, <1>2, <2>2 DEF R!TypeOK
<1>4. /\ R!TypeOK' /\ Visited' /\ pc = "mount" /\ pc' \in {"walk", "done"}
      /\ UNCHANGED <<visited, R!trees, last>>
      /\ failures \in Nat /\ failures' \in Nat
      /\ Loss \in Nat /\ Loss' = Loss
      /\ Allowed(failures) \in Nat /\ Batch \in Nat
      /\ (R!Succeeds => failures' = failures /\ failed' = failed)
      /\ (R!Fails("mount") => failures' = failures + 1 /\ failed' = failed \cup {"mount"})
  BY <1>2, <1>3, CommandKeeps
<1>5. ~mounted' => \/ ~attached /\ failures' = failures /\ failed' = failed
                   \/ failures' = failures + 1 /\ "mount" \in failed'
  BY <1>2, <1>4
<1>6. Faultless' /\ Missed'
  BY <1>1, <1>2, <1>4, <1>5 DEF Faultless, Missed, R!RootUntouched, R!trees
<1>7. Waiting'
  BY <1>1, <1>2, <1>4, LimitType DEF Waiting
<1>8. Accounted'
  <2>1. Loss <= Allowed(failures) /\ (~attached => failures >= 1 /\ Loss <= Allowed(failures - 1))
    <3>1. CASE attached
      BY <1>1, <1>4, <3>1 DEF Accounted
    <3>2. CASE ~attached
      <4>1. failures >= 1 /\ Loss <= Allowed(failures - 1)
        BY <1>1, <1>4, <3>2 DEF Accounted
      <4> QED
        BY <1>4, <4>1, OneLess
    <3> QED
      BY <3>1, <3>2
  <2>2. Loss' <= Allowed(failures')
    BY <1>2, <1>4, <2>1, MoreAllowed
  <2>3. ~mounted' => failures' >= 1 /\ Loss' <= Allowed(failures' - 1)
    <3>1. CASE failures' = failures + 1
      BY <1>4, <2>1, <3>1
    <3> QED
      BY <1>4, <1>5, <2>1, <3>1
  <2>4. failures' >= 1 => Allowed(failures' - 1) \in Nat
    BY <1>4, OneLess
  <2> QED
    BY <1>2, <1>4, <2>2, <2>3, <2>4, AllowedPrimed DEF Accounted
<1> QED
  BY <1>4, <1>6, <1>7, <1>8 DEF WalkInv

LEMMA WalkEndsKeeps ==
  ASSUME WalkInv, R!WalkEnds
  PROVE  WalkInv'
<1>1. R!TypeOK /\ Visited /\ Faultless /\ Missed /\ Waiting /\ Accounted
  BY DEF WalkInv
<1>2. /\ pc = "walk" /\ pc' = "umount" /\ last' = TRUE
      /\ visited' = visited /\ bytesCopied' = bytesCopied /\ attached' = attached
      /\ mounted' = mounted /\ image' = image /\ root' = root /\ failed' = failed
      /\ failures' = failures /\ unsynced' = unsynced
  BY DEF R!WalkEnds, R!disk, R!trees
<1>3. R!TypeOK'
  BY <1>1, <1>2 DEF R!TypeOK
<1>4. Visited' /\ Faultless' /\ Missed'
  BY <1>1, <1>2 DEF Visited, Faultless, Missed, R!RootUntouched
<1>5. Waiting'
  BY <1>1, <1>2, LimitType DEF Waiting, R!TypeOK
<1>6. Accounted'
  <2>1. Loss \in Nat /\ Loss' = Loss
    BY <1>2, LossType, LossKept DEF R!trees
  <2>2. failures \in Nat /\ bytesCopied \in Nat /\ bytesCopied < Limit /\ bytesCopied <= Batch
    BY <1>1, <1>2, LimitType DEF R!TypeOK, Waiting
  <2>3. Loss <= Allowed(failures)
    <3>1. CASE mounted
      BY <1>1, <1>2, <3>1 DEF Accounted
    <3>2. CASE ~mounted
      <4>1. failures >= 1 /\ Loss <= Allowed(failures - 1) + bytesCopied
        BY <1>1, <1>2, <3>2 DEF Accounted
      <4> QED
        BY <2>1, <2>2, <4>1, OneLess, LimitType
    <3> QED
      BY <3>1, <3>2
  <2>4. Loss' <= Allowed(failures)'
    BY <1>2, <2>1, <2>3, AllowedPrimed
  <2> QED
    BY <1>2, <2>4 DEF Accounted
<1> QED
  BY <1>3, <1>4, <1>5, <1>6 DEF WalkInv

\* A batch under way and one file more.
LEMMA OneFileMore ==
  ASSUME NEW b \in Nat, NEW n \in Nat, n <= R!Biggest, NEW u, u <= b, u \in Nat
  PROVE  /\ b + n \in Nat /\ u + n \in Nat /\ u + n <= b + n /\ u <= b + n
         /\ b < Limit => b + n <= Batch
BY LimitType

LEMMA CacheGrows ==
  ASSUME NEW b \in Int, NEW n \in Int, n >= 0, NEW u \in Int, NEW b1 \in Int, NEW u1 \in Int,
         u <= b, b1 = b + n, u1 = u \/ u1 <= u + n
  PROVE  u1 <= b1
OBVIOUS

LEMMA VisitKeeps ==
  ASSUME WalkInv, NEW e \in R!Entries, R!Visit(e)
  PROVE  WalkInv'
<1>1. R!TypeOK /\ Visited /\ Faultless /\ Missed /\ Waiting /\ Accounted
  BY DEF WalkInv
<1>2. /\ pc = "walk" /\ pc' = IF e \in Files /\ R!Full THEN "umount" ELSE "walk"
      /\ e \in R!Entries \ visited /\ Parent[e] \in visited /\ visited' = visited \cup {e}
      /\ bytesCopied' = bytesCopied + R!Bytes(e)
      /\ last' = last /\ attached' = attached /\ mounted' = mounted
  BY DEF R!Visit, R!Count, R!disk
<1>3. \/ R!Succeeds /\ R!Put(e)
      \/ R!Fails("copy") /\ image' = image /\ root' = root
  BY DEF R!Visit, R!trees
<1>4. /\ failures \in Nat /\ failures' \in 0..MaxFailures /\ failures' \in Nat
      /\ R!Fails("copy") => failures' = failures + 1 /\ Allowed(failures') = Allowed(failures) + Batch
                          /\ failed' = failed \cup {"copy"}
      /\ R!Succeeds => failures' = failures /\ failed' = failed
  BY <1>1, <1>3, FailsType DEF R!TypeOK
<1>5. /\ bytesCopied \in Nat /\ bytesCopied' \in Nat /\ unsynced \in Nat
      /\ R!Bytes(e) \in Nat /\ R!Bytes(e) <= R!Biggest /\ bytesCopied < Limit
      /\ bytesCopied' <= Batch
  BY <1>1, <1>2, LimitType, OneFileMore DEF R!TypeOK, Waiting
<1>6. /\ unsynced' \in Nat
      /\ \/ unsynced' = unsynced
         \/ unsynced' <= unsynced + R!Bytes(e)
  <2> DEFINE more == unsynced + R!Bytes(e)
  <2>1. more \in Nat /\ unsynced \in Nat
    BY <1>5
  <2>2. unsynced' \in {more} \/ unsynced' \in unsynced..more \/ unsynced' \in {unsynced}
    BY DEF R!Visit
  <2> HIDE DEF more
  <2>3. unsynced' \in Nat /\ (unsynced' = unsynced \/ unsynced' <= more)
    BY <2>1, <2>2
  <2> QED
    BY <2>3 DEF more
<1>7. /\ image' = image \/ (mounted /\ Parent[e] \in image /\ image' = image \cup {e})
      /\ root' = root \/ (~mounted /\ root' = root \cup {e})
      /\ mounted /\ R!Succeeds => e \in image' \/ Parent[e] \notin image
      /\ R!Succeeds /\ mounted => image' = IF Parent[e] \in image THEN image \cup {e} ELSE image
  BY <1>3, <1>4 DEF R!Put, R!Fails, R!Succeeds
<1>8. R!TypeOK'
  <2>1. visited' \subseteq R!Entries \cup {Top}
    BY <1>1, <1>2 DEF R!TypeOK
  <2>2. image' \subseteq R!Entries \cup {Top}
    BY <1>1, <1>7 DEF R!TypeOK
  <2>3. root' \subseteq R!Entries \cup {Top}
    BY <1>1, <1>7 DEF R!TypeOK
  <2>4. failed' \subseteq {"copy", "umount", "detach", "attach", "mount"}
    BY <1>1, <1>3, <1>4 DEF R!TypeOK
  <2>5. last' \in BOOLEAN /\ attached' \in BOOLEAN /\ mounted' \in BOOLEAN /\ (mounted' => attached')
    BY <1>1, <1>2 DEF R!TypeOK
  <2>6. pc' \in {"walk", "umount", "detach", "attach", "mount", "done"}
    BY <1>2
  <2> QED
    BY <1>4, <1>5, <1>6, <2>1, <2>2, <2>3, <2>4, <2>5, <2>6 DEF R!TypeOK
<1>9. Visited'
  BY <1>1, <1>2, <1>7 DEF Visited
<1>10. Faultless'
  <2> SUFFICES ASSUME failed' = {} PROVE Faultless'
    BY DEF Faultless
  <2>1. R!Succeeds /\ failed = {}
    BY <1>3, <1>4
  <2>2. mounted /\ image = visited
    BY <1>1, <1>2, <2>1 DEF Faultless
  <2> QED
    BY <1>2, <1>7, <2>1, <2>2 DEF Faultless
<1>11. Missed'
  <2>1. failed \subseteq failed'
    BY <1>3, <1>4
  <2> QED
    BY <1>1, <1>2, <1>7, <2>1 DEF Missed, R!RootUntouched
<1>12. Waiting'
  <2>1. "umount" \notin failed' => unsynced <= bytesCopied
    BY <1>1, <1>2, <1>3, <1>4 DEF Waiting
  <2>2. "umount" \notin failed' => unsynced' <= bytesCopied'
    BY <1>2, <1>5, <1>6, <2>1, CacheGrows
  <2>3. pc' = "walk" => bytesCopied' < Limit
    <3>1. CASE e \in Files
      BY <1>2, <1>5, <3>1, LimitType DEF R!Full
    <3>2. CASE e \notin Files
      BY <1>2, <1>5, <3>2 DEF R!Bytes
    <3> QED
      BY <3>1, <3>2
  <2>4. bytesCopied' <= Batch
    BY <1>5
  <2> QED
    BY <1>2, <2>2, <2>3, <2>4 DEF Waiting, Batch, R!Biggest, R!Max
<1>13. Accounted'
  <2>1. /\ Loss' \in Nat
        /\ Loss' = Loss \/ Loss' = Loss + R!Bytes(e)
        /\ e \in image' \/ Parent[e] \notin image => Loss' = Loss
    BY <1>1, <1>2, <1>7, VisitLoses
  <2>2. Loss \in Nat /\ Batch \in Nat /\ Allowed(failures) \in Nat /\ Allowed(failures') \in Nat
    BY <1>4, LossType, LimitType, OneMore
  <2>3. CASE mounted
    <3>1. Loss <= Allowed(failures)
      BY <1>1, <1>2, <2>3 DEF Accounted
    <3>2. Loss' <= Allowed(failures')
      <4>1. CASE R!Succeeds
        BY <1>4, <1>7, <2>1, <2>3, <3>1, <4>1
      <4>2. CASE R!Fails("copy")
        <5>1. R!Bytes(e) <= Batch
          BY <1>5, LimitType
        <5> QED
          BY <1>4, <1>5, <2>1, <2>2, <3>1, <4>2, <5>1
      <4> QED
        BY <1>3, <4>1, <4>2
    <3> QED
      BY <1>2, <2>3, <3>2, AllowedPrimed DEF Accounted
  <2>4. CASE ~mounted
    <3>1. failures >= 1 /\ Loss <= Allowed(failures - 1) + bytesCopied
      BY <1>1, <1>2, <2>4 DEF Accounted
    <3>2. /\ failures - 1 \in Nat /\ Allowed(failures - 1) \in Nat
          /\ Allowed(failures) = Allowed(failures - 1) + Batch
      BY <1>4, <3>1, OneLess
    <3>3. Loss' <= Allowed(failures - 1) + bytesCopied'
      BY <1>2, <1>5, <2>1, <2>2, <3>1, <3>2
    <3>4. /\ failures' >= 1 /\ Allowed(failures' - 1) \in Nat
          /\ Allowed(failures') = Allowed(failures' - 1) + Batch
          /\ Allowed(failures - 1) <= Allowed(failures' - 1)
      <4>1. CASE R!Succeeds
        BY <1>4, <3>1, <3>2, <4>1
      <4>2. CASE R!Fails("copy")
        <5>1. failures' - 1 = failures
          BY <1>4, <4>2
        <5> QED
          BY <1>4, <2>2, <3>1, <3>2, <4>2, <5>1
      <4> QED
        BY <1>3, <4>1, <4>2
    <3>5. Loss' <= Allowed(failures' - 1) + bytesCopied'
      BY <1>5, <2>1, <3>2, <3>3, <3>4
    <3>6. Loss' <= Allowed(failures')
      BY <1>5, <2>1, <2>2, <3>4, <3>5
    <3> QED
      BY <1>2, <2>4, <3>4, <3>5, <3>6, AllowedPrimed DEF Accounted
  <2> QED
    BY <2>3, <2>4
<1> QED
  BY <1>8, <1>9, <1>10, <1>11, <1>12, <1>13 DEF WalkInv

LEMMA WalkKept ==
  ASSUME WalkInv, R!Walk
  PROVE  WalkInv'
<1>1. (\E e \in R!Entries : R!Visit(e)) \/ R!WalkEnds \/ R!Umount \/ R!Detach \/ R!Attach \/ R!Mount
  BY DEF R!Walk
<1> QED
  BY <1>1, VisitKeeps, WalkEndsKeeps, UmountKeeps, DetachKeeps, AttachKeeps, MountKeeps

-----------------------------------------------------------------------------
(* download *)

\* What has come of the body.
Come == IF got > answer.head /\ pc # "header" THEN got - answer.head ELSE 0

\* Where the client is says what it has open, and how far the answer has got.
Places ==
  /\ pc = "resolve" => fds = {}
  /\ pc \in {"connect", "send", "open"} => fds = {"src"}
  /\ pc = "done" => fds = {}
  /\ pc \in {"resolve", "connect", "send", "open"} =>
       got = 0 /\ written = 0 /\ file = "absent" /\ ~lost
  /\ pc = "header" => got < answer.head /\ written = 0 /\ file = "open" /\ ~lost
  /\ pc \in {"sized", "unsized"} => file = "open"
  /\ pc \in {"sized", "unsized"} \/ file = "kept" => got >= answer.head /\ answer.head <= Buffer
  /\ file = "kept" => pc = "done"

\* Nothing but what has come of the body is in the file, and all of it if no write failed.
Stored == written <= Come /\ (~lost => written = Come)

\* The length that is counted down.
Length == IF answer.length # H!NoLength THEN answer.length ELSE answer.said

\* A read that brought nothing had a reason; and the count is short by what came with
\* the header.
Counted ==
  /\ pc \in {"sized", "unsized"} /\ len = 0 => cut \/ got = H!Total
  /\ pc = "sized" => Length > 0
  /\ pc = "sized" /\ len # -1 => clen + got = Length + answer.head + carried

HttpInv == H!TypeOK /\ Places /\ Stored /\ Counted /\ H!ShortOnlyIfCut

LEMMA AnswerType ==
  ASSUME NEW a \in Answers
  PROVE  /\ a.head \in Nat \ {0} /\ a.size \in Nat
         /\ a.length \in Int /\ a.said \in Int /\ a.stays \in BOOLEAN
         /\ Buffer \in Nat \ {0} /\ MaxFaults \in Nat
         /\ a.head \in Int /\ a.size \in Int /\ Buffer \in Int /\ MaxFaults \in Int
         /\ a.head > 0 /\ a.size >= 0
BY HttpAssumed DEF H!HttpAssumption

\* A read of at most so much of what is left.
LEMMA SomeOfTheRest ==
  ASSUME NEW room \in Int, NEW total \in Nat, NEW g \in 0..total,
         NEW x \in 1..H!Least(room, total - g)
  PROVE  /\ x > 0 /\ ~(x <= 0) /\ x # 0 /\ x <= room /\ (room <= Buffer + 1 => x \in -1..(Buffer + 1))
         /\ g + x >= g /\ g + x <= total /\ g + x \in Nat /\ x \in Nat
         /\ g + x \in Int /\ x \in Int
<1>1. x \in Nat /\ 1 <= x /\ x <= room /\ x <= total - g
  BY DEF H!Least
<1> QED
  BY <1>1, HttpAssumed DEF H!HttpAssumption

\* Sums of what a read brought.
LEMMA Fits ==
  ASSUME NEW g \in Int, NEW x \in Int, NEW b \in Int, x <= b - g
  PROVE  g + x <= b
OBVIOUS

\* A part of a sum.
LEMMA PartOfBody ==
  ASSUME NEW g \in Int, NEW h \in Nat, NEW s \in Nat, g >= h, g <= h + s
  PROVE  g - h \in 0..s
OBVIOUS

LEMMA More1 ==
  ASSUME NEW g \in Int, NEW f \in Int, g >= f
  PROVE  g - f \in Nat
OBVIOUS

LEMMA More2 ==
  ASSUME NEW g \in Int, NEW f \in Int, g >= f, NEW h \in Int, NEW w \in Int, w <= f - h
  PROVE  w <= g - h /\ w + (g - f) <= g - h
OBVIOUS

LEMMA More3 ==
  ASSUME NEW g \in Int, NEW f \in Int, NEW h \in Int
  PROVE  (f - h) + (g - f) = g - h
OBVIOUS

LEMMA Between ==
  ASSUME NEW a \in Int, NEW b \in Int, NEW c \in Int, a <= b, b <= c
  PROVE  a <= c
OBVIOUS

LEMMA CountsOff ==
  ASSUME NEW g \in Int, NEW x \in Int, NEW c \in Int
  PROVE  (c - x) + (g + x) = c + g
OBVIOUS

LEMMA WithHeader ==
  ASSUME NEW g \in Int, NEW h \in Int, NEW l \in Int
  PROVE  l + g = l + h + (g - h)
OBVIOUS

\* What a read leaves behind it.
LEMMA ReadGives ==
  ASSUME H!TypeOK, NEW room \in Int, room <= Buffer + 1, H!Read(room), H!Received
  PROVE  /\ len' \in -1..(Buffer + 1)
         /\ len' <= 0 => got' = got
         /\ len' > 0 => got' = got + len' /\ len' <= room
         /\ got' >= got /\ got' <= H!Total /\ got' \in Nat /\ got' \in Int /\ len' \in Int
         /\ faults' \in 0..MaxFaults /\ cut' \in BOOLEAN
         /\ cut => cut'
         /\ len' = 0 => cut' \/ got = H!Total
<1>1. answer \in Answers /\ got \in 0..H!Total /\ faults \in 0..MaxFaults /\ cut \in BOOLEAN
  BY DEF H!TypeOK
<1>2. answer.head \in Nat /\ answer.size \in Nat /\ Buffer \in Nat /\ MaxFaults \in Nat
  BY <1>1, AnswerType
<1>3. H!Total \in Nat
  BY <1>2 DEF H!Total
<1>4. CASE len' \in 1..H!Least(room, H!Total - got) /\ UNCHANGED <<faults, cut>>
  <2>1. /\ len' > 0 /\ ~(len' <= 0) /\ len' # 0 /\ len' <= room
        /\ len' \in -1..(Buffer + 1)
        /\ got + len' >= got /\ got + len' <= H!Total /\ got + len' \in Nat
        /\ got + len' \in Int /\ len' \in Int
    BY <1>1, <1>3, <1>4, SomeOfTheRest
  <2>2. got' = got + len'
    BY <2>1 DEF H!Received
  <2> QED
    BY <1>1, <1>4, <2>1, <2>2
<1>5. CASE len' = 0 /\ (cut \/ got = H!Total) /\ UNCHANGED <<faults, cut>>
  BY <1>1, <1>2, <1>3, <1>5 DEF H!Received
<1>6. CASE len' = 0 /\ cut' = TRUE /\ faults < MaxFaults /\ faults' = faults + 1
  BY <1>1, <1>2, <1>3, <1>6 DEF H!Received
<1>7. CASE len' = -1 /\ faults < MaxFaults /\ faults' = faults + 1 /\ UNCHANGED cut
  BY <1>1, <1>2, <1>3, <1>7 DEF H!Received
<1> QED
  BY <1>4, <1>5, <1>6, <1>7 DEF H!Read

\* The steps before the header.
LEMMA EarlySteps ==
  ASSUME HttpInv, H!Resolve \/ H!Connect \/ H!Open
  PROVE  HttpInv'
<1>1. /\ answer' = answer /\ got' = got /\ len' = len /\ clen' = clen /\ carried' = carried
      /\ written' = written /\ faults' = faults /\ cut' = cut /\ lost' = lost
  BY DEF H!Resolve, H!Connect, H!Open, H!progress
<1>2. /\ pc \in {"resolve", "connect", "send", "open"}
      /\ \/ pc' \in {"connect", "send", "open"} /\ fds' = {"src"} /\ file' = file
         \/ pc' = "header" /\ fds' = {"src", "dst"} /\ file' = "open"
         \/ pc' = "done" /\ fds' = {} /\ file' = file
  BY DEF H!Resolve, H!Connect, H!Open, HttpInv, Places
<1>3. H!TypeOK'
  BY <1>1, <1>2 DEF HttpInv, H!TypeOK, H!Total
<1>4. got = 0 /\ written = 0 /\ file = "absent" /\ ~lost /\ answer \in Answers
  BY <1>2 DEF HttpInv, Places, H!TypeOK
<1>5. answer.head \in Nat \ {0}
  BY <1>4, AnswerType
<1>6. Places'
  BY <1>1, <1>2, <1>4, <1>5 DEF Places
<1>7. Stored'
  BY <1>1, <1>4, <1>5 DEF Stored, Come
<1>8. Counted' /\ H!ShortOnlyIfCut'
  BY <1>1, <1>2, <1>4 DEF Counted, H!ShortOnlyIfCut
<1> QED
  BY <1>3, <1>6, <1>7, <1>8 DEF HttpInv

\* What is written of n bytes.
LEMMA StoreGives ==
  ASSUME H!TypeOK, NEW n \in Nat, H!Store(n)
  PROVE  /\ written' \in {written, written + n}
         /\ lost' \in BOOLEAN
         /\ ~lost' => ~lost /\ written' = written + n
BY DEF H!Store, H!TypeOK

\* The header, as long as it has not come to its end.
LEMMA HeaderGoesOn ==
  ASSUME HttpInv, pc = "header", H!Read(Buffer - got), H!Received, got < Buffer,
         len' > 0, got' < answer.head, answer' = answer,
         UNCHANGED <<pc, clen, carried, file, written, fds, lost>>
  PROVE  HttpInv'
<1>1. H!TypeOK /\ answer \in Answers /\ got \in Nat /\ Buffer \in Nat /\ got \in Int /\ Buffer \in Int
  BY AnswerType, HttpAssumed DEF HttpInv, H!TypeOK, H!HttpAssumption
<1>2. Buffer - got \in Int /\ Buffer - got <= Buffer + 1
  BY <1>1
<1>3. /\ len' \in -1..(Buffer + 1) /\ len' \in Int /\ got' \in Int /\ got' >= got /\ got' <= H!Total /\ got' \in Nat
      /\ faults' \in 0..MaxFaults /\ cut' \in BOOLEAN
  BY <1>1, <1>2, ReadGives
<1>4. answer.head \in Nat \ {0} /\ answer.size \in Nat
  BY <1>1, AnswerType
<1>5. H!TypeOK'
  BY <1>1, <1>3, <1>4 DEF H!TypeOK, H!Total
<1>6. Places'
  BY <1>1, <1>3, <1>4 DEF HttpInv, Places
<1>7. Stored'
  BY <1>3, <1>4 DEF HttpInv, Places, Stored, Come
<1>8. Counted' /\ H!ShortOnlyIfCut'
  BY DEF HttpInv, Places, Counted, H!ShortOnlyIfCut
<1> QED
  BY <1>5, <1>6, <1>7, <1>8 DEF HttpInv

\* The file is removed before the header's end.
LEMMA HeaderGivenUp ==
  ASSUME HttpInv, pc = "header", H!Unlinked, answer' = answer, got' = got,
         len' \in -1..(Buffer + 1), faults' \in 0..MaxFaults, cut' \in BOOLEAN,
         UNCHANGED <<clen, carried, written, lost>>
  PROVE  HttpInv'
<1>1. H!TypeOK /\ answer \in Answers /\ got \in Nat /\ Buffer \in Nat /\ got \in Int /\ Buffer \in Int
  BY AnswerType, HttpAssumed DEF HttpInv, H!TypeOK, H!HttpAssumption
<1>4. answer.head \in Nat \ {0} /\ answer.size \in Nat
  BY <1>1, AnswerType
<1>5. H!TypeOK'
  BY <1>1, <1>4 DEF H!TypeOK, H!Total, H!Unlinked
<1>6. Places'
  BY <1>1, <1>4 DEF HttpInv, Places, H!Unlinked
<1>7. Stored'
  BY <1>1, <1>4 DEF HttpInv, Places, Stored, Come, H!Unlinked
<1>8. Counted' /\ H!ShortOnlyIfCut'
  BY DEF HttpInv, Places, Counted, H!ShortOnlyIfCut, H!Unlinked
<1> QED
  BY <1>5, <1>6, <1>7, <1>8 DEF HttpInv

\* The end of the header: what came with it is written.
LEMMA HeaderComesToItsEnd ==
  ASSUME HttpInv, pc = "header", got < Buffer, H!Read(Buffer - got), H!Received,
         len' > 0, got' >= answer.head, H!HeaderEnds, answer' = answer
  PROVE  HttpInv'
<1>1. H!TypeOK /\ answer \in Answers /\ got \in Nat /\ Buffer \in Nat /\ got \in Int /\ Buffer \in Int
  BY AnswerType, HttpAssumed DEF HttpInv, H!TypeOK, H!HttpAssumption
<1>2. Buffer - got \in Int /\ Buffer - got <= Buffer + 1
  BY <1>1
<1>3. /\ len' \in -1..(Buffer + 1) /\ len' \in Int /\ got' \in Int /\ got' >= got /\ got' <= H!Total /\ got' \in Nat
      /\ faults' \in 0..MaxFaults /\ cut' \in BOOLEAN
      /\ got' = got + len' /\ len' <= Buffer - got
  BY <1>1, <1>2, ReadGives
<1>4. /\ answer.head \in Nat \ {0} /\ answer.size \in Nat /\ answer.head \in Int /\ answer.size \in Int
      /\ answer.length \in Int /\ answer.said \in Int
  BY <1>1, AnswerType
<1>5. got' <= Buffer
  <2>1. len' \in Int
    BY <1>3
  <2>2. got + len' <= Buffer
    BY <1>1, <1>3, <2>1, Fits
  <2> QED
    BY <1>3, <2>2
<1>6. carried' = got' - answer.head /\ carried' \in 0..answer.size /\ carried' \in Nat
  <2>1. carried' = got' - answer.head
    BY DEF H!HeaderEnds, H!ToBody
  <2>2. got' \in Int /\ got' <= answer.head + answer.size
    BY <1>3 DEF H!Total
  <2>3. got' - answer.head \in 0..answer.size
    BY <2>2, <1>4, PartOfBody
  <2> QED
    BY <2>1, <2>3, <1>4
<1>7. H!Store(carried')
  BY DEF H!HeaderEnds
<1>8. /\ written' \in {0, carried'} /\ lost' \in BOOLEAN /\ (~lost' => written' = carried')
  BY <1>1, <1>4, <1>6, <1>7, StoreGives DEF HttpInv, Places
<1>9. \/ pc' = "done" /\ file' = "unlinked" /\ fds' = {} /\ clen' = clen
      \/ /\ pc' \in {"sized", "unsized"} /\ file' = file /\ fds' = fds
         /\ clen' = H!ContentLength
         /\ pc' = "sized" <=> H!ContentLength > 0
  BY DEF H!HeaderEnds, H!ToBody, H!Unlinked
<1>10. H!ContentLength \in Int /\ (H!ContentLength > 0 => H!ContentLength = Length)
  <2>1. CASE answer.length # H!NoLength
    BY <2>1, <1>4 DEF H!ContentLength, Length
  <2>2. CASE answer.length = H!NoLength /\ got' > answer.head
    BY <2>2, <1>4 DEF H!ContentLength, Length
  <2>3. CASE answer.length = H!NoLength /\ ~(got' > answer.head)
    BY <2>3 DEF H!ContentLength
  <2> QED
    BY <2>1, <2>2, <2>3
<1>11. H!TypeOK'
  <2>1. got' \in 0..H!Total' /\ carried' \in 0..answer'.size /\ written' \in 0..answer'.size
    BY <1>3, <1>4, <1>6, <1>8 DEF H!Total
  <2>2. clen' \in Int
    BY <1>9, <1>10, <1>1 DEF H!TypeOK
  <2>3. /\ pc' \in {"sized", "unsized", "done"} /\ file' \in {"absent", "open", "kept", "unlinked"}
        /\ fds' \subseteq {"src", "dst"}
    BY <1>9, <1>1 DEF H!TypeOK
  <2>4. /\ answer' \in Answers /\ len' \in -1..(Buffer + 1) /\ faults' \in 0..MaxFaults
        /\ cut' \in BOOLEAN /\ lost' \in BOOLEAN
    BY <1>1, <1>3, <1>8
  <2>5. pc' \in {"resolve", "connect", "send", "open", "header", "sized", "unsized", "done"}
    BY <2>3
  <2> QED
    BY <2>1, <2>2, <2>3, <2>4, <2>5 DEF H!TypeOK
<1>12. Places'
  <2>1. answer.head <= Buffer
    BY <1>1, <1>3, <1>4, <1>5, Between
  <2>2. file = "open"
    BY DEF HttpInv, Places
  <2> QED
    BY <1>9, <2>1, <2>2 DEF Places
<1>13. Come' = carried'
  BY <1>3, <1>4, <1>6, <1>9 DEF Come
<1>14. Stored'
  BY <1>4, <1>6, <1>8, <1>13 DEF Stored
<1>15. Counted'
  <2>1. Length' = Length
    BY DEF Length
  <2>2. Length \in Int
    BY <1>4 DEF Length
  <2>3. Length + got' = Length + answer.head + carried'
    BY <1>3, <1>4, <1>6, <2>2, WithHeader
  <2> QED
    BY <1>3, <1>9, <1>10, <2>1, <2>2, <2>3 DEF Counted
<1>16. H!ShortOnlyIfCut'
  BY <1>9 DEF HttpInv, Places, H!ShortOnlyIfCut
<1> QED
  BY <1>11, <1>12, <1>14, <1>15, <1>16 DEF HttpInv

LEMMA HeaderStep ==
  ASSUME HttpInv, H!Header
  PROVE  HttpInv'
<1>1. pc = "header" /\ answer' = answer
  BY DEF H!Header
<1>2. CASE /\ got < Buffer /\ H!Read(Buffer - got) /\ H!Received
           /\ len' > 0 /\ got' >= answer.head /\ H!HeaderEnds
  BY <1>1, <1>2, HeaderComesToItsEnd
<1>3. CASE /\ got < Buffer /\ H!Read(Buffer - got) /\ H!Received
           /\ len' > 0 /\ got' < answer.head
           /\ UNCHANGED <<pc, clen, carried, file, written, fds, lost>>
  BY <1>1, <1>3, HeaderGoesOn
<1>4. CASE /\ got < Buffer /\ H!Read(Buffer - got) /\ H!Received
           /\ len' <= 0 /\ H!Unlinked /\ UNCHANGED <<clen, carried, written, lost>>
  <2>1. H!TypeOK /\ got \in Nat /\ Buffer \in Nat
    BY HttpAssumed, AnswerType DEF HttpInv, H!TypeOK, H!HttpAssumption
  <2>2. Buffer - got \in Int /\ Buffer - got <= Buffer + 1
    BY <2>1
  <2>3. /\ len' \in -1..(Buffer + 1) /\ got' = got
        /\ faults' \in 0..MaxFaults /\ cut' \in BOOLEAN
    BY <1>4, <2>1, <2>2, ReadGives
  <2> QED
    BY <1>1, <1>4, <2>3, HeaderGivenUp
<1>5. CASE H!Unlinked /\ UNCHANGED H!progress
  <2>1. /\ got' = got /\ len' \in -1..(Buffer + 1) /\ faults' \in 0..MaxFaults
        /\ cut' \in BOOLEAN /\ UNCHANGED <<clen, carried, written, lost>>
    BY <1>5 DEF HttpInv, H!TypeOK, H!progress
  <2> QED
    BY <1>1, <1>5, <2>1, HeaderGivenUp
<1> QED
  BY <1>2, <1>3, <1>4, <1>5 DEF H!Header

LEMMA BodyStep ==
  ASSUME HttpInv, H!Body
  PROVE  HttpInv'
<1>1. /\ pc \in {"sized", "unsized"} /\ len > 0 /\ answer' = answer /\ pc' = pc
      /\ carried' = carried /\ file' = file /\ fds' = fds
      /\ clen' = IF pc = "sized" THEN clen - len' ELSE clen
      /\ H!Read(Buffer + 1) /\ H!Received /\ H!Store(got' - got)
  BY DEF H!Body, H!More
<1>2. H!TypeOK /\ answer \in Answers /\ got \in Nat /\ Buffer \in Nat /\ written \in Nat
        /\ got \in Int /\ Buffer \in Int /\ written \in Int /\ carried \in Int
        /\ carried \in Nat /\ clen \in Int /\ len \in Int
  <2>1. H!TypeOK /\ answer \in Answers
    BY DEF HttpInv, H!TypeOK
  <2>2. answer.head \in Nat \ {0} /\ answer.size \in Nat /\ Buffer \in Nat
    BY <2>1, AnswerType
  <2> QED
    BY <2>1, <2>2 DEF H!TypeOK
<1>3. /\ len' \in -1..(Buffer + 1) /\ len' \in Int /\ got' \in Int /\ got' >= got /\ got' <= H!Total /\ got' \in Nat
      /\ faults' \in 0..MaxFaults /\ cut' \in BOOLEAN
      /\ (len' <= 0 => got' = got) /\ (len' > 0 => got' = got + len')
      /\ (len' = 0 => cut' \/ got = H!Total)
  BY <1>1, <1>2, ReadGives
<1>4. /\ answer.head \in Nat \ {0} /\ answer.size \in Nat /\ answer.head \in Int /\ answer.size \in Int
      /\ answer.length \in Int /\ answer.said \in Int
  BY <1>2, AnswerType
<1>5. got >= answer.head /\ answer.head <= Buffer /\ file = "open"
  BY <1>1 DEF HttpInv, Places
<1>6. got' - got \in Nat
  BY <1>2, <1>3, More1
<1>7. /\ written' \in {written, written + (got' - got)} /\ lost' \in BOOLEAN
      /\ ~lost' => ~lost /\ written' = written + (got' - got)
  BY <1>1, <1>2, <1>6, StoreGives
<1>8. Come = got - answer.head /\ Come' = got' - answer.head
  BY <1>1, <1>2, <1>3, <1>4, <1>5 DEF Come
<1>9. written <= got - answer.head /\ (~lost => written = got - answer.head)
  BY <1>8 DEF HttpInv, Stored
<1>10. written' <= got' - answer.head /\ (~lost' => written' = got' - answer.head)
  <2>1. written <= got' - answer.head /\ written + (got' - got) <= got' - answer.head
    BY <1>2, <1>3, <1>4, <1>9, More2
  <2>2. ~lost' => written' = (got - answer.head) + (got' - got)
    BY <1>7, <1>9
  <2>3. (got - answer.head) + (got' - got) = got' - answer.head
    BY <1>2, <1>3, <1>4, More3
  <2> QED
    BY <1>7, <2>1, <2>2, <2>3
<1>11. written' \in 0..answer.size
  <2>1. got' <= answer.head + answer.size /\ got' >= answer.head
    BY <1>2, <1>3, <1>4, <1>5, Between DEF H!Total
  <2>2. got' - answer.head \in 0..answer.size
    BY <2>1, <1>3, <1>4, PartOfBody
  <2>3. written' \in Nat
    BY <1>2, <1>6, <1>7
  <2> QED
    BY <1>4, <1>10, <2>2, <2>3
<1>12. clen' \in Int
  BY <1>1, <1>2, <1>3
<1>13. H!TypeOK'
  BY <1>1, <1>2, <1>3, <1>6, <1>7, <1>11, <1>12 DEF H!TypeOK, H!Total
<1>14. Places'
  BY <1>1, <1>2, <1>3, <1>4, <1>5, <1>6 DEF HttpInv, Places
<1>15. Stored'
  BY <1>8, <1>10 DEF Stored
<1>16. Counted'
  <2>1. Length' = Length /\ Length \in Int /\ H!Total' = H!Total
    BY <1>1, <1>4 DEF Length, H!Total
  <2>2. pc = "sized" => Length > 0 /\ clen + got = Length + answer.head + carried
    BY <1>1, <1>2 DEF HttpInv, Counted
  <2>3. pc = "sized" /\ len' # -1 => clen' + got' = clen + got
    <3>1. CASE len' > 0
      <4>1. clen' = clen - len' \/ pc # "sized"
        BY <1>1
      <4>2. got' = got + len' /\ len' \in Int
        BY <3>1, <1>3
      <4>3. (clen - len') + (got + len') = clen + got
        BY <1>2, <4>2, CountsOff
      <4> QED
        BY <4>1, <4>2, <4>3
    <3>2. CASE len' = 0
      BY <3>2, <1>1, <1>2, <1>3
    <3>3. len' # -1 => len' = 0 \/ len' > 0
      BY <1>3
    <3> QED
      BY <3>1, <3>2, <3>3
  <2>4. len' = 0 => cut' \/ got' = H!Total
    BY <1>3
  <2> QED
    BY <1>1, <2>1, <2>2, <2>3, <2>4 DEF Counted
<1>17. H!ShortOnlyIfCut'
  BY <1>1, <1>5 DEF H!ShortOnlyIfCut
<1> QED
  BY <1>13, <1>14, <1>15, <1>16, <1>17 DEF HttpInv

LEMMA FinishStep ==
  ASSUME HttpInv, H!Finish
  PROVE  HttpInv'
<1>1. /\ pc \in {"sized", "unsized"} /\ ~H!More /\ pc' = "done" /\ file' = "kept" /\ fds' = {}
      /\ answer' = answer /\ got' = got /\ len' = len /\ clen' = clen /\ carried' = carried
      /\ written' = written /\ faults' = faults /\ cut' = cut /\ lost' = lost
  BY DEF H!Finish, H!progress
<1>2. H!TypeOK'
  BY <1>1 DEF HttpInv, H!TypeOK, H!Total
<1>3. Places'
  BY <1>1 DEF HttpInv, Places
<1>4. Come' = Come
  BY <1>1 DEF Come
<1>5. Stored'
  BY <1>1, <1>4 DEF HttpInv, Stored
<1>6. Counted'
  BY <1>1 DEF Counted
<1>7. H!ShortOnlyIfCut'
  <2> SUFFICES ASSUME written < answer.size, ~cut, ~lost, len # -1
               PROVE  \/ answer.length \in 1..(answer.size - 1)
                      \/ answer.length = H!NoLength /\ answer.said \in 1..(answer.size - 1)
    BY <1>1 DEF H!ShortOnlyIfCut
  <2>1. answer \in Answers /\ got \in 0..H!Total /\ clen \in Int /\ len \in -1..(Buffer + 1)
          /\ carried \in 0..answer.size
    BY DEF HttpInv, H!TypeOK
  <2>2. /\ answer.head \in Nat \ {0} /\ answer.size \in Nat /\ Buffer \in Nat
        /\ answer.length \in Int /\ answer.said \in Int
    BY <2>1, AnswerType
  <2>3. got \in Nat /\ carried \in Nat /\ got >= answer.head
    BY <1>1, <2>1, <2>2 DEF HttpInv, Places, H!Total
  <2>4. written = got - answer.head
    BY <1>1, <2>2, <2>3 DEF HttpInv, Stored, Come
  <2>5. got # H!Total
    BY <2>2, <2>3, <2>4 DEF H!Total
  <2>6. len # 0
    BY <1>1, <2>5 DEF HttpInv, Counted
  <2>7. pc = "sized" /\ clen <= 0
    BY <1>1, <2>1, <2>2, <2>6 DEF H!More
  <2>8. Length > 0 /\ clen + got = Length + answer.head + carried
    BY <2>7 DEF HttpInv, Counted
  <2>9. Length \in 1..(answer.size - 1)
    BY <2>1, <2>2, <2>3, <2>4, <2>7, <2>8 DEF Length
  <2> QED
    BY <2>9 DEF Length
<1> QED
  BY <1>2, <1>3, <1>5, <1>6, <1>7 DEF HttpInv

LEMMA HttpStart ==
  ASSUME H!Init
  PROVE  HttpInv
<1>1. answer.head \in Nat \ {0} /\ answer.size \in Nat /\ Buffer \in Nat /\ MaxFaults \in Nat
  BY AnswerType DEF H!Init
<1>2. H!TypeOK
  <2>1. 0 \in 0..H!Total /\ 0 \in 0..answer.size /\ 0 \in 0..MaxFaults /\ 0 \in -1..(Buffer + 1)
    BY <1>1 DEF H!Total
  <2> QED
    <3>1. got = 0 /\ len = 0 /\ carried = 0 /\ written = 0 /\ faults = 0
      BY DEF H!Init
    <3>2. /\ got \in 0..H!Total /\ len \in -1..(Buffer + 1) /\ carried \in 0..answer.size
          /\ written \in 0..answer.size /\ faults \in 0..MaxFaults
      BY <2>1, <3>1
    <3> QED
      <4>1. /\ answer \in Answers /\ clen \in Int /\ fds \subseteq {"src", "dst"}
            /\ pc \in {"resolve", "connect", "send", "open", "header", "sized", "unsized", "done"}
            /\ file \in {"absent", "open", "kept", "unlinked"}
        BY DEF H!Init
      <4>2. cut \in BOOLEAN /\ lost \in BOOLEAN
        BY Zenon DEF H!Init
      <4> QED
        BY <3>2, <4>1, <4>2 DEF H!TypeOK
<1>3. Places /\ Counted /\ H!ShortOnlyIfCut
  BY DEF H!Init, Places, Counted, H!ShortOnlyIfCut
<1>4. Stored
  BY <1>1 DEF H!Init, Stored, Come
<1> QED
  BY <1>2, <1>3, <1>4 DEF HttpInv

LEMMA HttpKept ==
  ASSUME HttpInv, H!Client
  PROVE  HttpInv'
BY EarlySteps, HeaderStep, BodyStep, FinishStep DEF H!Client

LEMMA HttpImplies ==
  ASSUME HttpInv
  PROVE  H!TypeOK /\ H!FileIsBody /\ H!ShortOnlyIfCut /\ H!KeptOnlyWithHeader /\ H!NothingLeftOpen
BY DEF HttpInv, Places, Stored, Come, H!FileIsBody, H!KeptOnlyWithHeader, H!NothingLeftOpen

-----------------------------------------------------------------------------
(* fileCopy *)

\* A copy of what lies before p from which something may be missing: in the order of the
\* source, and from the first unit that is not in its place on each too early.
Shifted(s, p) ==
  /\ Len(s) <= p
  /\ \A k \in 1..Len(s) :
       /\ s[k] <= p
       /\ k > 1 => s[k] > s[k - 1]
       /\ s[k] # k => Len(s) < p /\ \A j \in k..Len(s) : s[j] > j

\* Where the copy stands, and that something is missing only after a write failed.
CopyInv ==
  /\ F!TypeOK
  /\ F!ShiftedForGood
  /\ Shifted(dest, pos)
  /\ lost <=> Len(dest) < pos
  /\ currentRead = pos
  /\ eof => pos = len
  /\ pc = "done" => eof
  /\ message = F!Unsaid \/ (copy = "writing" /\ message = <<currentRead, len>>)

LEMMA FunctionIsSeq ==
  ASSUME NEW m \in Nat, NEW S, NEW f \in [1..m -> S]
  PROVE  f \in Seq(S) /\ Len(f) = m
OBVIOUS

\* What a write appends.
LEMMA Appends ==
  ASSUME NEW n \in Nat, NEW s \in Seq(1..n), NEW p \in Nat, NEW to \in p..n
  PROVE  /\ s \o F!Piece(p, to) \in Seq(1..n)
         /\ Len(s \o F!Piece(p, to)) = Len(s) + (to - p)
         /\ \A k \in 1..(Len(s) + (to - p)) :
              (s \o F!Piece(p, to))[k] = IF k <= Len(s) THEN s[k] ELSE p + (k - Len(s))
<1>1. to - p \in Nat /\ to \in Int
  OBVIOUS
<1>2. \A k \in 1..(to - p) : p + k \in 1..n
  BY <1>1
<1>3. F!Piece(p, to) \in [1..(to - p) -> 1..n]
  BY <1>2 DEF F!Piece
<1>4. F!Piece(p, to) \in Seq(1..n) /\ Len(F!Piece(p, to)) = to - p
  BY <1>1, <1>3, FunctionIsSeq
<1>5. \A k \in 1..(to - p) : F!Piece(p, to)[k] = p + k
  BY DEF F!Piece
<1> DEFINE t == F!Piece(p, to)
<1>6. /\ s \o t \in Seq(1..n) /\ Len(s \o t) = Len(s) + (to - p)
      /\ \A k \in 1..(Len(s) + (to - p)) :
           (s \o t)[k] = IF k <= Len(s) THEN s[k] ELSE t[k - Len(s)]
  BY <1>4, ConcatProperties
<1> HIDE DEF t
<1>7. Len(s) \in Nat
  OBVIOUS
<1>8. ASSUME NEW k \in 1..(Len(s) + (to - p)), ~(k <= Len(s))
      PROVE  t[k - Len(s)] = p + (k - Len(s))
  <2>1. k - Len(s) \in 1..(to - p)
    BY <1>1, <1>7, <1>8
  <2> QED
    BY <2>1, <1>5 DEF t
<1> QED
  BY <1>6, <1>8 DEF t

\* What is appended to a copy that is right so far, or shifted, leaves it so.
LEMMA StaysShifted ==
  ASSUME NEW n \in Nat, NEW s \in Seq(1..n), NEW p \in Nat, NEW to \in p..n, NEW q \in to..n,
         Shifted(s, p)
  PROVE  Shifted(s \o F!Piece(p, to), q)
<1> DEFINE t == s \o F!Piece(p, to)
           m == Len(s)
<1>1. /\ Len(t) = m + (to - p)
      /\ \A k \in 1..(m + (to - p)) : t[k] = IF k <= m THEN s[k] ELSE p + (k - m)
  BY Appends
<1>2. m \in Nat /\ m <= p /\ to \in Nat /\ q \in Nat /\ p <= to /\ to <= q
  BY DEF Shifted
<1>3. \A k \in 1..m : s[k] \in Int
  BY <1>2
<1>4. \A k \in 1..m : /\ s[k] <= p
                      /\ k > 1 => s[k] > s[k - 1]
                      /\ s[k] # k => m < p /\ \A j \in k..m : s[j] > j
  BY DEF Shifted
<1> HIDE DEF t, m
<1>5. Len(t) <= q
  BY <1>1, <1>2
<1>6. ASSUME NEW k \in 1..Len(t)
      PROVE  t[k] <= q /\ t[k] \in Int
  <2>1. CASE k <= m
    BY <2>1, <1>1, <1>2, <1>3, <1>4
  <2>2. CASE ~(k <= m)
    BY <2>2, <1>1, <1>2
  <2> QED
    BY <2>1, <2>2
<1>7. ASSUME NEW k \in 1..Len(t), k > 1
      PROVE  t[k] > t[k - 1]
  <2>1. CASE k <= m
    BY <2>1, <1>1, <1>2, <1>4, <1>7
  <2>2. CASE k = m + 1
    <3>1. t[k] = p + 1 /\ t[k - 1] = s[m] /\ m \in 1..m
      BY <2>2, <1>1, <1>2, <1>7
    <3> QED
      BY <3>1, <1>2, <1>3, <1>4
  <2>3. CASE k > m + 1
    BY <2>3, <1>1, <1>2, <1>7
  <2> QED
    BY <2>1, <2>2, <2>3, <1>1, <1>2
<1>8. ASSUME NEW k \in 1..Len(t), t[k] # k
      PROVE  Len(t) < q /\ \A j \in k..Len(t) : t[j] > j
  <2>1. k \in Nat /\ (k <= m => k \in 1..m /\ s[k] # k)
    BY <1>1, <1>2, <1>8
  <2>2. m < p
    <3>1. CASE k <= m
      BY <3>1, <2>1, <1>4
    <3>2. CASE ~(k <= m)
      <4>1. t[k] = p + (k - m)
        BY <3>2, <1>1, <1>2, <1>8
      <4>2. p # m
        BY <4>1, <1>2, <1>8, <2>1
      <4> QED
        BY <4>2, <1>2
    <3> QED
      BY <3>1, <3>2
  <2>3. ASSUME NEW j \in k..Len(t)
        PROVE  t[j] > j
    <3>1. j \in Nat /\ j \in 1..(m + (to - p))
      BY <1>1, <1>2, <2>1
    <3>2. CASE j <= m
      <4>1. k <= m /\ j \in k..m
        BY <3>1, <3>2, <2>1, <1>2
      <4>2. s[j] > j
        BY <4>1, <2>1, <1>4
      <4> QED
        BY <4>2, <3>1, <3>2, <1>1
    <3>3. CASE ~(j <= m)
      <4>1. t[j] = p + (j - m)
        BY <3>1, <3>3, <1>1
      <4> QED
        BY <4>1, <3>1, <2>2, <1>2
    <3> QED
      BY <3>2, <3>3
  <2>4. Len(t) < q
    BY <2>2, <1>1, <1>2
  <2> QED
    BY <2>3, <2>4
<1> QED
  BY <1>5, <1>6, <1>7, <1>8 DEF Shifted, t

LEMMA CopyType ==
  ASSUME F!TypeOK
  PROVE  /\ len \in Nat /\ pos \in Nat /\ pos <= len /\ dest \in Seq(1..len)
         /\ Len(dest) \in Nat /\ BUFSIZE \in Nat \ {0} /\ MaxFaults \in Nat /\ Room \in Nat
BY CopyAssumed DEF F!TypeOK, F!CopyAssumption

LEMMA Within ==
  ASSUME NEW a \in Int, NEW b \in Int, NEW c \in Int, b <= c, NEW x \in a..b
  PROVE  x \in a..c
OBVIOUS

LEMMA BackAgain ==
  ASSUME NEW a \in Int, NEW b \in Int
  PROVE  a + (b - a) = b
OBVIOUS

\* What a read does to the positions.
LEMMA FreadGives ==
  ASSUME CopyInv, ~eof, NEW r, F!Fread(r)
  PROVE  /\ pos' \in pos..len
         /\ currentRead' = pos'
         /\ eof' \in BOOLEAN /\ broken' \in BOOLEAN
         /\ eof' => pos' = len
<1>1. /\ len \in Nat /\ pos \in Nat /\ pos \in Int /\ pos <= len
      /\ BUFSIZE \in Nat \ {0} /\ broken \in BOOLEAN
  BY CopyType DEF CopyInv, F!TypeOK
<1>2. currentRead = pos
  BY DEF CopyInv
<1>3. pos' \in pos..len /\ (eof' => pos' = len)
  <2>1. CASE broken
    <3>1. pos' = pos /\ eof' = eof
      BY <2>1 DEF F!Fread
    <3> QED
      BY <1>1, <3>1
  <2>2. CASE ~broken /\ r
    <3>1. pos' \in pos..F!Least(pos + BUFSIZE - 1, len) /\ eof' = eof
      BY <2>2 DEF F!Fread
    <3>2. F!Least(pos + BUFSIZE - 1, len) \in Int /\ F!Least(pos + BUFSIZE - 1, len) <= len
      BY <1>1 DEF F!Least
    <3> QED
      BY <1>1, <3>1, <3>2, Within
  <2>3. CASE ~broken /\ ~r
    <3> DEFINE l == F!Least(pos + BUFSIZE, len)
    <3>1. pos' = l /\ (eof' => l < pos + BUFSIZE)
      BY <2>3 DEF F!Fread
    <3>2. l \in pos..len /\ (l < pos + BUFSIZE => l = len)
      BY <1>1 DEF F!Least
    <3> HIDE DEF l
    <3> QED
      BY <3>1, <3>2
  <2> QED
    BY <2>1, <2>2, <2>3
<1>4. eof' \in BOOLEAN /\ broken' \in BOOLEAN
  <2>1. eof \in BOOLEAN
    BY DEF CopyInv, F!TypeOK
  <2>2. CASE broken
    BY <2>1, <2>2, <1>1 DEF F!Fread
  <2>3. CASE ~broken /\ r
    BY <2>1, <2>3 DEF F!Fread
  <2>4. CASE ~broken /\ ~r
    <3>1. eof' = (pos' < pos + BUFSIZE) /\ broken' = broken
      BY <2>4 DEF F!Fread
    <3>2. (pos' < pos + BUFSIZE) \in BOOLEAN
      OBVIOUS
    <3> QED
      BY <3>1, <3>2, <1>1, Zenon
  <2> QED
    BY <2>2, <2>3, <2>4
<1>5. pos' \in Int /\ currentRead' = pos + (pos' - pos)
  <2>1. pos' \in Int
    BY <1>1, <1>3
  <2>2. currentRead' = currentRead + (pos' - pos)
    BY DEF F!Fread
  <2> QED
    BY <2>1, <2>2, <1>2
<1>6. pos + (pos' - pos) = pos'
  BY <1>1, <1>5, BackAgain
<1> QED
  BY <1>3, <1>4, <1>5, <1>6

\* What a write of what was read does to the destination.
LEMMA FwriteGives ==
  ASSUME CopyInv, NEW w, pos' \in pos..len, F!Fwrite(w)
  PROVE  /\ dest' \in Seq(1..len) /\ Len(dest') <= Room
         /\ Shifted(dest', pos')
         /\ lost' <=> Len(dest') < pos'
<1>1. /\ len \in Nat /\ pos \in Nat /\ pos \in Int /\ pos <= len /\ dest \in Seq(1..len)
      /\ Len(dest) \in Int /\ Shifted(dest, pos) /\ (lost <=> Len(dest) < pos)
      /\ Room \in Int
  BY CopyType DEF CopyInv
<1>2. PICK to \in pos..pos' :
        /\ Len(dest) + to - pos <= Room
        /\ dest' = dest \o F!Piece(pos, to)
        /\ lost' = (lost \/ to < pos')
  BY DEF F!Fwrite
<1> DEFINE q == pos'
           e == dest'
<1>3. q \in Int /\ pos <= q /\ q <= len
  BY <1>1
<1>4. to \in Int /\ pos <= to /\ to <= q
  BY <1>1, <1>2, <1>3
<1>5. e = dest \o F!Piece(pos, to)
  BY <1>2
<1>6. lost' <=> (lost \/ to < q)
  BY <1>2
<1> HIDE DEF q, e
<1>7. to \in pos..len /\ q \in to..len
  BY <1>1, <1>3, <1>4
<1>8. e \in Seq(1..len) /\ Len(e) = Len(dest) + (to - pos)
  BY <1>1, <1>5, <1>7, Appends
<1>9. Shifted(e, q)
  BY <1>1, <1>5, <1>7, StaysShifted
<1>10. Len(e) <= Room
  BY <1>1, <1>2, <1>4, <1>8
<1>11. Len(dest) <= pos
  BY <1>1 DEF Shifted
<1>12. (lost \/ to < q) <=> Len(e) < q
  BY <1>1, <1>3, <1>4, <1>8, <1>11
<1> QED
  BY <1>6, <1>8, <1>9, <1>10, <1>12 DEF q, e

LEMMA LoopStep ==
  ASSUME CopyInv, F!Loop
  PROVE  CopyInv'
<1>1. /\ pc = "loop" /\ ~eof /\ pc' = pc /\ copy' = copy /\ len' = len
      /\ message' = IF copy = "writing" THEN <<currentRead', len>> ELSE message
  BY DEF F!Loop, F!Send
<1>2. PICK r \in BOOLEAN, w \in BOOLEAN :
        /\ F!Fread(r) /\ F!Fwrite(w)
        /\ faults' = faults + (IF r THEN 1 ELSE 0) + (IF w THEN 1 ELSE 0)
        /\ faults' <= MaxFaults
  BY DEF F!Loop
<1>3. F!TypeOK /\ len \in Nat /\ pos \in Nat /\ MaxFaults \in Nat /\ faults \in Nat
  BY CopyType DEF CopyInv, F!TypeOK
<1>4. /\ pos' \in pos..len /\ currentRead' = pos'
      /\ eof' \in BOOLEAN /\ broken' \in BOOLEAN /\ (eof' => pos' = len)
  BY <1>1, <1>2, FreadGives
<1>5. /\ dest' \in Seq(1..len) /\ Len(dest') <= Room
      /\ Shifted(dest', pos')
      /\ lost' <=> Len(dest') < pos'
  BY <1>2, <1>4, FwriteGives
<1>6. faults' \in 0..MaxFaults
  BY <1>2, <1>3
<1>7. pos' \in 0..len /\ pos' \in Nat
  BY <1>3, <1>4
<1>8. lost' \in BOOLEAN
  <2>1. PICK to \in pos..pos' : lost' = (lost \/ to < pos')
    BY <1>2 DEF F!Fwrite
  <2> QED
    BY <2>1, Zenon
<1>9. /\ message' = F!Unsaid \/ (copy = "writing" /\ message' = <<currentRead', len>>)
      /\ message' \in Nat \X Nat
  <2>1. CASE copy = "writing"
    <3>1. message' = <<currentRead', len>>
      BY <2>1, <1>1
    <3>2. currentRead' \in Nat
      BY <1>4, <1>7
    <3> QED
      BY <2>1, <3>1, <3>2, <1>3
  <2>2. CASE copy # "writing"
    BY <2>2, <1>1 DEF CopyInv, F!TypeOK
  <2> QED
    BY <2>1, <2>2
<1>10. F!TypeOK'
  BY <1>1, <1>3, <1>4, <1>5, <1>6, <1>7, <1>8, <1>9 DEF F!TypeOK
<1>11. F!ShiftedForGood'
  BY <1>5 DEF Shifted, F!ShiftedForGood
<1> QED
  BY <1>1, <1>4, <1>5, <1>9, <1>10, <1>11 DEF CopyInv

LEMMA OtherSteps ==
  ASSUME CopyInv, F!OpenOrig \/ F!OpenDest \/ F!Close
  PROVE  CopyInv'
<1>1. /\ copy' = copy /\ len' = len /\ pos' = pos /\ eof' = eof /\ broken' = broken
      /\ dest' = dest /\ currentRead' = currentRead /\ message' = message
      /\ faults' = faults /\ lost' = lost
  BY DEF F!OpenOrig, F!OpenDest, F!Close, F!streams
<1>2. /\ pc' \in {"dest", "skipped", "crashed", "loop", "done"}
      /\ pc' = "done" => eof
  BY DEF F!OpenOrig, F!OpenDest, F!Close
<1>3. F!TypeOK'
  BY <1>1, <1>2 DEF CopyInv, F!TypeOK
<1>4. F!ShiftedForGood' /\ Shifted(dest, pos)'
  BY <1>1 DEF CopyInv, F!ShiftedForGood, Shifted
<1> QED
  BY <1>1, <1>2, <1>3, <1>4 DEF CopyInv

LEMMA CopyStart ==
  ASSUME F!Init
  PROVE  CopyInv
<1>1. len \in Nat /\ MaxFaults \in Nat /\ Room \in Nat
  BY CopyAssumed DEF F!Init, F!CopyAssumption
<1>2. dest = <<>> /\ Len(dest) = 0 /\ dest \in Seq(1..len)
  BY DEF F!Init
<1>3. /\ copy \in Copies /\ len \in Lengths /\ pc = "orig"
      /\ pos = 0 /\ currentRead = 0 /\ message = F!Unsaid /\ faults = 0
  BY DEF F!Init
<1>4. eof \in BOOLEAN /\ broken \in BOOLEAN /\ lost \in BOOLEAN /\ ~eof /\ ~lost
  BY Zenon DEF F!Init
<1>5. message \in Nat \X Nat
  BY <1>3 DEF F!Unsaid
<1>6. F!TypeOK
  BY <1>1, <1>2, <1>3, <1>4, <1>5 DEF F!TypeOK
<1>7. F!ShiftedForGood /\ Shifted(dest, pos)
  BY <1>2, <1>3 DEF F!ShiftedForGood, Shifted
<1> QED
  BY <1>2, <1>3, <1>4, <1>6, <1>7 DEF CopyInv

LEMMA CopyKept ==
  ASSUME CopyInv, F!Step
  PROVE  CopyInv'
BY LoopStep, OtherSteps DEF F!Step

LEMMA CopyImplies ==
  ASSUME CopyInv
  PROVE  F!TypeOK /\ F!WholeUnlessWriteFailed /\ F!ShiftedForGood /\ F!AnnouncedWhenRead
<1>1. len \in Nat /\ pos \in Nat /\ Len(dest) \in Nat /\ Len(dest) <= pos
  BY CopyType DEF CopyInv, Shifted
<1>2. ASSUME pos = len, ~lost
      PROVE  F!RightUpTo(len)
  <2>1. Len(dest) = len
    BY <1>1, <1>2 DEF CopyInv
  <2>2. \A k \in 1..len : dest[k] = k
    BY <1>1, <1>2, <2>1 DEF CopyInv, Shifted
  <2> QED
    BY <2>1, <2>2 DEF F!RightUpTo
<1>3. F!WholeUnlessWriteFailed
  BY <1>2 DEF CopyInv, F!WholeUnlessWriteFailed
<1>4. F!AnnouncedWhenRead
  <2> SUFFICES ASSUME message[1] = message[2]
               PROVE  pos = len
    BY <1>2 DEF F!AnnouncedWhenRead
  <2>1. message # F!Unsaid
    BY DEF F!Unsaid
  <2> QED
    BY <2>1 DEF CopyInv
<1> QED
  BY <1>3, <1>4 DEF CopyInv

-----------------------------------------------------------------------------
(* base64 *)

\* Induction over numbers, for a set of numbers.
LEMMA NumberInduction ==
  ASSUME NEW G, 0 \in G, \A n \in Nat : n \in G => n + 1 \in G
  PROVE  \A n \in Nat : n \in G
<1> SUFFICES ASSUME NEW n \in Nat PROVE n \in G
  OBVIOUS
<1> DEFINE S == 1..n
           Good == {T \in SUBSET S : \A m \in Nat : T = 1..m => m \in G}
<1>1. ASSUME NEW T \in SUBSET S, \A U \in SUBSET T : U # T => U \in Good
      PROVE  T \in Good
  <2> SUFFICES ASSUME NEW m \in Nat, T = 1..m PROVE m \in G
    OBVIOUS
  <2>1. CASE m = 0
    BY <2>1
  <2>2. CASE m # 0
    <3>1. m - 1 \in Nat /\ (m - 1) + 1 = m
      BY <2>2
    <3>2. 1..(m - 1) \in SUBSET T /\ m \in T /\ m \notin 1..(m - 1)
      BY <2>2
    <3>3. 1..(m - 1) \in Good
      BY <1>1, <3>2
    <3>4. m - 1 \in G
      BY <3>1, <3>3
    <3> QED
      BY <3>1, <3>4
  <2> QED
    BY <2>1, <2>2
<1>2. IsFiniteSet(S)
  BY FS_Interval
<1> HIDE DEF Good, S
<1>3. \A T \in SUBSET S : T \in Good
  BY <1>1, <1>2, SubsetInduction
<1>4. S \in Good
  BY <1>3
<1> QED
  BY <1>4 DEF Good, S

\* The characters kept, as a function on the first n places.
Keeps(t, n, f) ==
  f = [k \in 0..n |-> IF k = 0 THEN <<>>
                      ELSE IF B!is_base64(t[k]) THEN Append(f[k - 1], t[k]) ELSE f[k - 1]]

LEMMA KeepsExists ==
  ASSUME NEW t
  PROVE  \A n \in Nat : \E f : Keeps(t, n, f)
<1> DEFINE G == {n \in Nat : \E f : Keeps(t, n, f)}
<1>1. 0 \in G
  <2> DEFINE f == [k \in 0..0 |-> <<>>]
  <2>1. Keeps(t, 0, f)
    BY DEF Keeps
  <2> QED
    BY <2>1
<1>2. ASSUME NEW n \in Nat, n \in G
      PROVE  n + 1 \in G
  <2>1. PICK f : Keeps(t, n, f)
    BY <1>2
  <2>2. \A k \in 0..n : f[k] = IF k = 0 THEN <<>>
                               ELSE IF B!is_base64(t[k]) THEN Append(f[k - 1], t[k]) ELSE f[k - 1]
    BY <2>1 DEF Keeps
  <2> DEFINE g == [k \in 0..(n + 1) |->
                     IF k <= n THEN f[k]
                     ELSE IF B!is_base64(t[n + 1]) THEN Append(f[n], t[n + 1]) ELSE f[n]]
             h == [k \in 0..(n + 1) |->
                     IF k = 0 THEN <<>>
                     ELSE IF B!is_base64(t[k]) THEN Append(g[k - 1], t[k]) ELSE g[k - 1]]
  <2>3. ASSUME NEW k \in 0..(n + 1)
        PROVE  g[k] = h[k]
    <3>1. CASE k = 0
      BY <2>2, <3>1
    <3>2. CASE k # 0 /\ k <= n
      <4>1. k - 1 \in 0..n /\ g[k - 1] = f[k - 1] /\ g[k] = f[k]
        BY <3>2
      <4> QED
        BY <2>2, <3>2, <4>1
    <3>3. CASE k = n + 1
      <4>1. k - 1 = n /\ ~(k <= n) /\ n \in 0..(n + 1) /\ n <= n /\ k # 0
        BY <3>3
      <4>2. g[n] = f[n]
        BY <4>1
      <4>3. g[k] = IF B!is_base64(t[k]) THEN Append(f[n], t[k]) ELSE f[n]
        BY <3>3, <4>1
      <4> QED
        BY <4>1, <4>2, <4>3
    <3> QED
      BY <3>1, <3>2, <3>3
  <2>4. g = h
    BY <2>3
  <2>5. Keeps(t, n + 1, g)
    BY <2>4 DEF Keeps
  <2> QED
    BY <2>5
<1> HIDE DEF G
<1>3. \A n \in Nat : n \in G
  BY <1>1, <1>2, NumberInduction
<1> QED
  BY <1>3 DEF G

LEMMA CleanUnfolds ==
  ASSUME NEW t \in Seq(1..127)
  PROVE  /\ B!CleanUpTo(t, 0) = <<>>
         /\ \A k \in 1..Len(t) :
              B!CleanUpTo(t, k) = IF B!is_base64(t[k]) THEN Append(B!CleanUpTo(t, k - 1), t[k])
                                ELSE B!CleanUpTo(t, k - 1)
<1>1. Len(t) \in Nat
  OBVIOUS
<1> DEFINE f == CHOOSE g : Keeps(t, Len(t), g)
<1>2. Keeps(t, Len(t), f)
  BY <1>1, KeepsExists
<1>3. \A k : B!CleanUpTo(t, k) = f[k]
  BY DEF B!CleanUpTo, Keeps
<1> HIDE DEF f
<1>4. \A k \in 0..Len(t) : f[k] = IF k = 0 THEN <<>>
                                  ELSE IF B!is_base64(t[k]) THEN Append(f[k - 1], t[k]) ELSE f[k - 1]
  BY <1>2 DEF Keeps
<1>5. \A k \in 1..Len(t) : k # 0 /\ k \in 0..Len(t)
  BY <1>1
<1>6. 0 \in 0..Len(t)
  BY <1>1
<1> QED
  BY <1>3, <1>4, <1>5, <1>6
-----------------------------------------------------------------------------
\* The clean text while it is made, in the buffer before the place to write to; what is
\* still to be read lies behind it.
Cleaning ==
  pc = "clean" =>
    /\ B!CleanUpTo(text, inp) \in Seq(1..127) /\ out = Len(B!CleanUpTo(text, inp)) /\ out <= inp
    /\ \A k \in 0..(out - 1) : buf[k] = B!CleanUpTo(text, inp)[k + 1]
    /\ \A k \in inp..(Len(text) - 1) : buf[k] = text[k + 1]
    /\ isize = 0 /\ osize = 0

\* Where the decoder is in group g.
At(g) ==
  \/ pc = "first"  /\ g <= B!Groups /\ inp = 4 * g     /\ out = 3 * g
  \/ pc = "second" /\ g < B!Groups  /\ inp = 4 * g + 1 /\ out = 3 * g + 1
  \/ pc = "third"  /\ g < B!Groups  /\ inp = 4 * g + 2 /\ out = 3 * g + 2
  \/ pc \in {"pads", "done"} /\ g = B!Groups /\ inp = 4 * g /\ out = 3 * g

First(g)  == 4 * B!Code(4 * g + 1) + B!Code(4 * g + 2) \div 16
Second(g) == ((16 * B!Code(4 * g + 2)) % 256) + B!Code(4 * g + 3) \div 4
Third(g)  == ((64 * B!Code(4 * g + 3)) % 256) + B!Code(4 * g + 4)

\* The characters that have not been overwritten are those of the clean text, the bytes
\* that have been written those that it stands for.
Decoding ==
  pc # "clean" =>
    /\ B!Clean \in Seq(1..127) /\ Len(B!Clean) >= 4 /\ Len(B!Clean) <= Len(text)
    /\ isize = Len(B!Clean)
    /\ \E g \in Nat : At(g)
    /\ \A k \in out..(isize - 1) : buf[k] = B!Clean[k + 1]
    /\ order = "left" =>
         \A g \in Nat : /\ 3 * g < out     => buf[3 * g] = First(g)
                        /\ 3 * g + 1 < out => buf[3 * g + 1] = Second(g)
                        /\ 3 * g + 2 < out => buf[3 * g + 2] = Third(g)
    /\ osize = 3 * B!Groups - (IF pc = "done" THEN B!IsPad(1) + B!IsPad(2) ELSE 0)

Buffered ==
  /\ text \in Texts /\ order \in Orders
  /\ pc \in {"clean", "first", "second", "third", "pads", "done"}
  /\ buf \in [0..Len(text) -> 0..255]
  /\ inp \in 0..Len(text) /\ out \in 0..Len(text)

DecodeInv == Buffered /\ Cleaning /\ Decoding

LEMMA CodeType == \A c : /\ B!decode_base64_char(c) \in Int
                         /\ c \in Int => B!decode_base64_char(c) >= 0 /\ B!decode_base64_char(c) <= 63
BY DEF B!decode_base64_char, B!Capital, B!Small, B!Digit, B!Pad

\* What the shifts of a byte come to.
LEMMA ByteRange ==
  ASSUME NEW x \in Int, NEW y \in Int, x >= 0, x <= 63, y >= 0, y <= 63
  PROVE  /\ ((x * 4) % 256) + y \div 16 \in 0..255
         /\ ((x * 4) % 256) + y \div 16 = 4 * x + y \div 16
         /\ ((x * 16) % 256) + y \div 4 \in 0..255
         /\ ((x * 64) % 256) + y \in 0..255
         /\ x * 16 = 16 * x /\ x * 64 = 64 * x
<1>1. x * 4 \in 0..255 /\ (x * 4) % 256 = x * 4
  OBVIOUS
<1>2. y \div 16 \in 0..3 /\ y \div 4 \in 0..15
  OBVIOUS
<1>3. (x * 16) % 256 \in 0..240
  OBVIOUS
<1>4. (x * 64) % 256 \in 0..192
  OBVIOUS
<1> QED
  BY <1>1, <1>2, <1>3, <1>4

LEMMA BytesOfNumber ==
  ASSUME NEW a \in Int, NEW b \in Int, NEW c \in Int, NEW d \in Int,
         b >= 0, b <= 63, c >= 0, c <= 63
  PROVE  262144 * a + 4096 * b + 64 * c + d
           = 65536 * (4 * a + b \div 16) + 256 * (((16 * b) % 256) + c \div 4)
               + (((64 * c) % 256) + d)
<1>1. (16 * b) % 256 = 16 * b - 256 * (b \div 16)
  OBVIOUS
<1>2. (64 * c) % 256 = 64 * c - 256 * (c \div 4)
  OBVIOUS
<1>3. b \div 16 \in Int /\ c \div 4 \in Int
  OBVIOUS
<1> QED
  BY <1>1, <1>2, <1>3

LEMMA TextType ==
  ASSUME NEW t \in Texts
  PROVE  t \in Seq(1..127) /\ Len(B!CleanOf(t)) >= 4 /\ B!PaddedAtTheEnd(B!CleanOf(t)) /\ Len(t) \in Nat
BY TextAssumed DEF B!TextAssumption

LEMMA CharType ==
  ASSUME NEW s \in Seq(1..127), NEW k \in 1..Len(s)
  PROVE  s[k] \in 1..127 /\ s[k] \in 0..255 /\ s[k] \in Int /\ s[k] # 0
<1> DEFINE c == s[k]
<1>1. c \in 1..127
  BY ElementOfSeq
<1> HIDE DEF c
<1>2. c \in 0..255 /\ c \in Int /\ c # 0
  BY <1>1
<1> QED
  BY <1>1, <1>2 DEF c

LEMMA DecodeStart == B!Init => DecodeInv
<1> SUFFICES ASSUME B!Init PROVE DecodeInv
  OBVIOUS
<1>1. text \in Seq(1..127) /\ Len(text) \in Nat /\ text \in Texts
  BY TextType DEF B!Init
<1>2. \A k \in 0..(Len(text) - 1) : text[k + 1] \in 0..255 /\ k # Len(text) /\ k \in 0..Len(text)
  <2>1. \A k \in 0..(Len(text) - 1) : k + 1 \in 1..Len(text) /\ k # Len(text) /\ k \in 0..Len(text)
    BY <1>1
  <2> QED
    BY <1>1, <2>1, CharType
<1>3. \A k \in 0..Len(text) : k # Len(text) => k \in 0..(Len(text) - 1)
  BY <1>1
<1>4. Buffered
  <2>1. \A k \in 0..Len(text) : (IF k = Len(text) THEN 0 ELSE text[k + 1]) \in 0..255
    BY <1>2, <1>3
  <2>2. buf \in [0..Len(text) -> 0..255]
    BY <2>1 DEF B!Init
  <2> QED
    BY <1>1, <2>2 DEF B!Init, Buffered
<1>5. Cleaning
  <2>1. B!CleanUpTo(text, 0) = <<>>
    BY <1>1, CleanUnfolds
  <2>2. inp = 0 /\ out = 0 /\ isize = 0 /\ osize = 0
    BY DEF B!Init
  <2>3. \A k \in 0..(Len(text) - 1) : buf[k] = text[k + 1]
    BY <1>2 DEF B!Init
  <2>4. B!CleanUpTo(text, inp) = <<>>
    BY <2>1, <2>2
  <2>5. <<>> \in Seq(1..127) /\ Len(<<>>) = 0
    OBVIOUS
  <2>6. \A k \in 0..(out - 1) : FALSE
    BY <2>2
  <2>7. \A k \in inp..(Len(text) - 1) : buf[k] = text[k + 1]
    BY <2>2, <2>3
  <2>8. out <= inp
    BY <2>2
  <2> QED
    BY <2>2, <2>4, <2>5, <2>6, <2>7, <2>8, Zenon DEF Cleaning
<1> QED
  BY <1>4, <1>5 DEF DecodeInv, Decoding, B!Init

LEMMA CleanOneKeeps ==
  ASSUME DecodeInv, B!CleanOne
  PROVE  DecodeInv'
<1> DEFINE K == B!CleanUpTo(text, inp)
           L == B!CleanUpTo(text, inp + 1)
           c == text[inp + 1]
<1>1. /\ pc = "clean" /\ inp < Len(text) /\ inp' = inp + 1
      /\ buf' = [buf EXCEPT ![out] = buf[inp]]
      /\ out' = IF B!is_base64(buf[inp]) THEN out + 1 ELSE out
      /\ text' = text /\ order' = order /\ pc' = pc /\ isize' = isize /\ osize' = osize
  BY DEF B!CleanOne, B!fixed
<1>2. /\ text \in Texts /\ order \in Orders /\ buf \in [0..Len(text) -> 0..255]
      /\ text \in Seq(1..127) /\ Len(text) \in Nat /\ inp \in Nat /\ out \in Nat
  BY TextType DEF DecodeInv, Buffered
<1>3. /\ K \in Seq(1..127) /\ out = Len(K) /\ out <= inp
      /\ \A k \in 0..(out - 1) : buf[k] = K[k + 1]
      /\ \A k \in inp..(Len(text) - 1) : buf[k] = text[k + 1]
      /\ isize = 0 /\ osize = 0
  BY <1>1 DEF DecodeInv, Cleaning
<1>4. /\ buf[inp] = c /\ c \in 1..127 /\ c \in 0..255
      /\ inp + 1 \in 1..Len(text) /\ (inp + 1) - 1 = inp
  <2>1. inp + 1 \in 1..Len(text) /\ (inp + 1) - 1 = inp /\ inp \in inp..(Len(text) - 1)
    BY <1>1, <1>2
  <2>2. c \in 1..127 /\ c \in 0..255
    BY <1>2, <2>1, CharType
  <2> QED
    BY <1>3, <2>1, <2>2
<1>5. L = IF B!is_base64(c) THEN Append(K, c) ELSE K
  <2>1. B!CleanUpTo(text, inp + 1) = IF B!is_base64(text[inp + 1])
                                   THEN Append(B!CleanUpTo(text, (inp + 1) - 1), text[inp + 1])
                                   ELSE B!CleanUpTo(text, (inp + 1) - 1)
    BY <1>2, <1>4, CleanUnfolds
  <2> QED
    BY <1>4, <2>1
<1> HIDE DEF K, L, c
<1>6. /\ buf' \in [0..Len(text) -> 0..255]
      /\ buf'[out] = c
      /\ \A k \in 0..Len(text) : k # out => buf'[k] = buf[k]
  BY <1>1, <1>2, <1>3, <1>4
<1>7. /\ L \in Seq(1..127) /\ out' = Len(L) /\ out' <= inp'
      /\ \A k \in 0..(out' - 1) : buf'[k] = L[k + 1]
  <2>1. CASE B!is_base64(c)
    <3>1. L = Append(K, c) /\ out' = out + 1
      BY <1>1, <1>4, <1>5, <2>1
    <3>2. L \in Seq(1..127) /\ Len(L) = Len(K) + 1 /\ L[Len(K) + 1] = c
          /\ \A k \in 1..Len(K) : L[k] = K[k]
      BY <1>3, <1>4, <3>1
    <3>3. ASSUME NEW k \in 0..(out' - 1)
          PROVE  buf'[k] = L[k + 1]
      <4>1. CASE k = out
        BY <1>3, <1>6, <3>2, <4>1
      <4>2. CASE k # out
        <5>1. k \in 0..(out - 1) /\ k \in 0..Len(text) /\ k + 1 \in 1..Len(K)
          BY <1>1, <1>2, <1>3, <3>1, <4>2
        <5> QED
          BY <1>3, <1>6, <3>2, <4>2, <5>1
      <4> QED
        BY <4>1, <4>2
    <3> QED
      BY <1>1, <1>2, <1>3, <3>1, <3>2, <3>3
  <2>2. CASE ~B!is_base64(c)
    <3>1. L = K /\ out' = out
      BY <1>1, <1>4, <1>5, <2>2
    <3>2. ASSUME NEW k \in 0..(out' - 1)
          PROVE  buf'[k] = L[k + 1]
      <4>1. k \in 0..(out - 1) /\ k \in 0..Len(text) /\ k # out
        BY <1>1, <1>2, <1>3, <3>1
      <4> QED
        BY <1>3, <1>6, <3>1, <4>1
    <3> QED
      BY <1>1, <1>2, <1>3, <3>1, <3>2
  <2> QED
    BY <2>1, <2>2
<1>8. ASSUME NEW k \in inp'..(Len(text) - 1)
      PROVE  buf'[k] = text[k + 1]
  <2>1. k \in inp..(Len(text) - 1) /\ k \in 0..Len(text) /\ k # out
    BY <1>1, <1>2, <1>3
  <2> QED
    BY <1>3, <1>6, <2>1
<1>9. B!CleanUpTo(text, inp)' = L
  BY <1>1 DEF B!CleanUpTo, L
<1>10. Cleaning'
  BY <1>1, <1>3, <1>7, <1>8, <1>9 DEF Cleaning
<1>11. Buffered'
  <2>1. inp' \in 0..Len(text) /\ out' \in 0..Len(text)
    BY <1>1, <1>2, <1>3, <1>7
  <2> QED
    BY <1>1, <1>2, <1>6, <2>1 DEF Buffered
<1>12. Decoding'
  BY <1>1 DEF Decoding
<1> QED
  BY <1>10, <1>11, <1>12 DEF DecodeInv

LEMMA CleanedKeeps ==
  ASSUME DecodeInv, B!Cleaned
  PROVE  DecodeInv'
<1>1. /\ pc = "clean" /\ inp >= Len(text) /\ pc' = "first" /\ inp' = 0 /\ out' = 0
      /\ buf' = [buf EXCEPT ![out] = 0] /\ isize' = B!strlen(buf')
      /\ osize' = (isize' \div 4) * 3 /\ text' = text /\ order' = order
  BY DEF B!Cleaned, B!fixed
<1>2. /\ text \in Texts /\ order \in Orders /\ buf \in [0..Len(text) -> 0..255]
      /\ text \in Seq(1..127) /\ Len(text) \in Nat /\ inp = Len(text) /\ out \in 0..Len(text)
      /\ Len(B!CleanOf(text)) >= 4
  BY <1>1, TextType DEF DecodeInv, Buffered
<1>3. B!Clean = B!CleanUpTo(text, inp)
  BY <1>2 DEF B!Clean, B!CleanOf
<1>4. /\ B!Clean \in Seq(1..127) /\ out = Len(B!Clean) /\ Len(B!Clean) >= 4
      /\ \A k \in 0..(out - 1) : buf[k] = B!Clean[k + 1]
  BY <1>1, <1>2, <1>3 DEF DecodeInv, Cleaning, B!Clean
<1>5. /\ buf' \in [0..Len(text) -> 0..255] /\ buf'[out] = 0
      /\ \A k \in 0..Len(text) : k # out => buf'[k] = buf[k]
  BY <1>1, <1>2
<1>6. ASSUME NEW k \in 0..(out - 1)
      PROVE  buf'[k] = B!Clean[k + 1] /\ buf'[k] # 0
  <2>1. k \in 0..Len(text) /\ k # out /\ k + 1 \in 1..Len(B!Clean)
    BY <1>2, <1>4
  <2>2. B!Clean[k + 1] # 0
    BY <1>4, <2>1, CharType
  <2>3. buf'[k] = B!Clean[k + 1]
    BY <1>4, <1>5, <2>1
  <2> QED
    BY <2>2, <2>3
<1>7. isize' = out
  <2>1. DOMAIN (buf') = 0..Len(text)
    BY <1>5
  <2>2. \A n \in 0..Len(text) : (buf'[n] = 0 /\ \A k \in 0..(n - 1) : buf'[k] # 0) <=> n = out
    <3> SUFFICES ASSUME NEW n \in 0..Len(text)
                 PROVE  (buf'[n] = 0 /\ \A k \in 0..(n - 1) : buf'[k] # 0) <=> n = out
      OBVIOUS
    <3>1. CASE n < out
      <4>1. n \in 0..(out - 1)
        BY <1>2, <3>1
      <4> QED
        BY <1>6, <3>1, <4>1
    <3>2. CASE n = out
      BY <1>5, <1>6, <3>2
    <3>3. CASE n > out
      <4>1. out \in 0..(n - 1)
        BY <1>2, <3>3
      <4> QED
        BY <1>2, <1>5, <3>3, <4>1
    <3> QED
      BY <1>2, <3>1, <3>2, <3>3
  <2>3. B!strlen(buf') = CHOOSE n \in 0..Len(text) : n = out
    BY <2>1, <2>2 DEF B!strlen
  <2> QED
    BY <1>1, <1>2, <2>3
<1>8. B!Clean' = B!Clean /\ B!Groups' = B!Groups
  BY <1>1 DEF B!Clean, B!CleanOf, B!CleanUpTo, B!Groups
<1>9. B!Groups \in Nat /\ B!Groups = Len(B!Clean) \div 4 /\ osize' = 3 * B!Groups
  <2>1. B!Groups = Len(B!Clean) \div 4 /\ Len(B!Clean) \in Nat
    BY <1>4 DEF B!Groups
  <2> QED
    BY <1>1, <1>4, <1>7, <2>1
<1>10. At(0)'
  BY <1>1, <1>8, <1>9 DEF At
<1>11. \A g \in Nat : ~(3 * g < 0) /\ ~(3 * g + 1 < 0) /\ ~(3 * g + 2 < 0)
  OBVIOUS
<1>12. Decoding'
  <2>1. \A k \in out'..(isize' - 1) : buf'[k] = B!Clean[k + 1]
    BY <1>1, <1>6, <1>7
  <2>2. (\E g \in Nat : At(g))'
    BY <1>10
  <2>3. \A g \in Nat : ~(3 * g < out') /\ ~(3 * g + 1 < out') /\ ~(3 * g + 2 < out')
    BY <1>1, <1>11
  <2>4. Len(B!Clean) <= Len(text)
    BY <1>2, <1>4
  <2>5. osize' = 3 * B!Groups - 0
    BY <1>9
  <2> QED
    BY <1>1, <1>4, <1>7, <1>8, <2>1, <2>2, <2>3, <2>4, <2>5 DEF Decoding
<1>13. Buffered'
  BY <1>1, <1>2, <1>5 DEF Buffered
<1>14. Cleaning'
  BY <1>1 DEF Cleaning
<1> QED
  BY <1>12, <1>13, <1>14 DEF DecodeInv

\* Where the decoder is says how much of the text is left, and that it has written less
\* than it has read.
LEMMA Placed ==
  ASSUME NEW g \in Nat, At(g), B!Clean \in Seq(1..127), Len(B!Clean) >= 4
  PROVE  /\ B!Groups \in Nat /\ B!Groups >= 1 /\ 4 * B!Groups <= Len(B!Clean) /\ Len(B!Clean) \in Nat
         /\ B!Groups = Len(B!Clean) \div 4
         /\ inp \in Nat /\ out \in Nat /\ out <= inp /\ inp <= 4 * B!Groups
         /\ pc = "first" => (inp \div 4 < Len(B!Clean) \div 4 <=> g < B!Groups)
<1>1. Len(B!Clean) \in Nat
  OBVIOUS
<1> DEFINE n == Len(B!Clean)
<1>2. n \in Nat /\ n >= 4
  BY <1>1
<1>3. B!Groups = n \div 4
  BY DEF B!Groups
<1> HIDE DEF n
<1>4. B!Groups \in Nat /\ B!Groups >= 1 /\ 4 * B!Groups <= n
  BY <1>2, <1>3
<1>5. inp \in Nat /\ out \in Nat /\ out <= inp /\ inp <= 4 * B!Groups
  BY <1>4 DEF At
<1>6. ASSUME pc = "first"
      PROVE  inp \div 4 = g
  <2>1. inp = 4 * g
    BY <1>6 DEF At
  <2>2. (4 * g) \div 4 = g
    OBVIOUS
  <2> QED
    BY <2>1, <2>2
<1> QED
  BY <1>2, <1>3, <1>4, <1>5, <1>6 DEF n

\* The code of a character that is still there.
LEMMA Coded ==
  ASSUME Decoding, pc # "clean", NEW k \in Int, k >= out, k < isize, out \in Nat
  PROVE  B!decode_base64_char(buf[k]) = B!Code(k + 1)
<1>1. k \in out..(isize - 1) /\ isize \in Nat
  BY DEF Decoding
<1>2. buf[k] = B!Clean[k + 1]
  BY <1>1 DEF Decoding
<1> QED
  BY <1>2 DEF B!Code

\* Any byte that is written is one.
LEMMA ByteType ==
  ASSUME buf \in [0..Len(text) -> 0..255], pc \in {"first", "second", "third"},
         NEW i \in Int, i = inp, i >= 0, i + 1 <= Len(text), Len(text) \in Nat
  PROVE  B!Byte \in 0..255
<1>1. buf[inp + 0] \in 0..255 /\ buf[inp + 1] \in 0..255
  <2>1. inp + 0 \in 0..Len(text) /\ inp + 1 \in 0..Len(text)
    OBVIOUS
  <2> QED
    BY <2>1
<1>2. /\ B!Operand(0) \in Int /\ B!Operand(0) >= 0 /\ B!Operand(0) <= 63
      /\ B!Operand(1) \in Int /\ B!Operand(1) >= 0 /\ B!Operand(1) <= 63
  <2>0. \A x : x \in 0..255 => x \in Int
    OBVIOUS
  <2>1. buf[inp + 0] \in Int /\ buf[inp + 1] \in Int
    BY <1>1, <2>0, Zenon
  <2> QED
    BY <2>1, CodeType DEF B!Operand
<1>3. /\ B!Left \in Int /\ B!Left >= 0 /\ B!Left <= 63
      /\ B!Right \in Int /\ B!Right >= 0 /\ B!Right <= 63
  BY <1>2 DEF B!Left, B!Right
<1>4. /\ ((B!Left * 4) % 256) + B!Right \div 16 \in 0..255
      /\ ((B!Left * 16) % 256) + B!Right \div 4 \in 0..255
      /\ ((B!Left * 64) % 256) + B!Right \in 0..255
  BY <1>3, ByteRange
<1> QED
  BY <1>4 DEF B!Byte

\* What the byte is, if the operands are evaluated from left to right.
LEMMA ByteIs ==
  ASSUME DecodeInv, order = "left", NEW g \in Nat, At(g), g < B!Groups,
         pc \in {"first", "second", "third"}
  PROVE  B!Byte = CASE pc = "first" -> First(g) [] pc = "second" -> Second(g)
                  [] pc = "third" -> Third(g)
<1>1. /\ B!Clean \in Seq(1..127) /\ Len(B!Clean) >= 4 /\ isize = Len(B!Clean) /\ Decoding
      /\ pc # "clean"
  BY DEF DecodeInv, Decoding
<1>2. /\ B!Groups \in Nat /\ 4 * B!Groups <= isize /\ isize \in Nat
      /\ inp \in Nat /\ out \in Nat /\ out <= inp
  BY <1>1, Placed
<1>3. \A k \in 1..isize : B!Code(k) \in Int /\ B!Code(k) >= 0 /\ B!Code(k) <= 63
  BY <1>1, CharType, CodeType DEF B!Code
<1>4. 4 * g + 4 <= isize
  BY <1>2
<1>5. CASE pc = "first"
  <2>1. inp = 4 * g
    BY <1>5 DEF At
  <2>2. /\ inp + 0 \in Int /\ inp + 0 >= out /\ inp + 0 < isize /\ (inp + 0) + 1 = 4 * g + 1
        /\ inp + 1 \in Int /\ inp + 1 >= out /\ inp + 1 < isize /\ (inp + 1) + 1 = 4 * g + 2
    BY <1>2, <1>4, <2>1
  <2>3. B!Left = B!Code(4 * g + 1) /\ B!Right = B!Code(4 * g + 2)
    BY <1>1, <1>2, <1>5, <2>2, Coded DEF B!Left, B!Right, B!Operand
  <2>4. 4 * g + 1 \in 1..isize /\ 4 * g + 2 \in 1..isize
    BY <1>2, <1>4
  <2>5. ((B!Left * 4) % 256) + B!Right \div 16 = 4 * B!Left + B!Right \div 16
    BY <1>3, <2>3, <2>4, ByteRange
  <2> QED
    BY <1>5, <2>3, <2>5 DEF B!Byte, First
<1>6. CASE pc = "second"
  <2>1. inp = 4 * g + 1
    BY <1>6 DEF At
  <2>2. /\ inp + 0 \in Int /\ inp + 0 >= out /\ inp + 0 < isize /\ (inp + 0) + 1 = 4 * g + 2
        /\ inp + 1 \in Int /\ inp + 1 >= out /\ inp + 1 < isize /\ (inp + 1) + 1 = 4 * g + 3
    BY <1>2, <1>4, <2>1
  <2>3. B!Left = B!Code(4 * g + 2) /\ B!Right = B!Code(4 * g + 3)
    BY <1>1, <1>2, <1>6, <2>2, Coded DEF B!Left, B!Right, B!Operand
  <2>4. 4 * g + 2 \in 1..isize /\ 4 * g + 3 \in 1..isize
    BY <1>2, <1>4
  <2>5. B!Left * 16 = 16 * B!Left
    BY <1>3, <2>3, <2>4, ByteRange
  <2> QED
    BY <1>6, <2>3, <2>5 DEF B!Byte, Second
<1>7. CASE pc = "third"
  <2>1. inp = 4 * g + 2
    BY <1>7 DEF At
  <2>2. /\ inp + 0 \in Int /\ inp + 0 >= out /\ inp + 0 < isize /\ (inp + 0) + 1 = 4 * g + 3
        /\ inp + 1 \in Int /\ inp + 1 >= out /\ inp + 1 < isize /\ (inp + 1) + 1 = 4 * g + 4
    BY <1>2, <1>4, <2>1
  <2>3. B!Left = B!Code(4 * g + 3) /\ B!Right = B!Code(4 * g + 4)
    BY <1>1, <1>2, <1>7, <2>2, Coded DEF B!Left, B!Right, B!Operand
  <2>4. 4 * g + 3 \in 1..isize /\ 4 * g + 4 \in 1..isize
    BY <1>2, <1>4
  <2>5. B!Left * 64 = 64 * B!Left
    BY <1>3, <2>3, <2>4, ByteRange
  <2> QED
    BY <1>7, <2>3, <2>5 DEF B!Byte, Third
<1> QED
  BY <1>5, <1>6, <1>7

LEMMA CleanKept ==
  ASSUME text' = text
  PROVE  /\ B!Clean' = B!Clean /\ B!Groups' = B!Groups
         /\ \A g : First(g)' = First(g) /\ Second(g)' = Second(g) /\ Third(g)' = Third(g)
BY
  DEF B!Clean, B!CleanOf, B!CleanUpTo, B!Groups, First, Second, Third, B!Code,
      B!decode_base64_char

LEMMA DecodeStep ==
  ASSUME DecodeInv, B!Decode
  PROVE  DecodeInv'
<1>1. /\ pc \in {"first", "second", "third"} /\ (pc = "first" => B!MoreGroups)
      /\ buf' = [buf EXCEPT ![out] = B!Byte] /\ out' = out + 1
      /\ inp' = IF pc = "third" THEN inp + 2 ELSE inp + 1
      /\ pc' = B!Follows[pc]
      /\ text' = text /\ order' = order /\ isize' = isize /\ osize' = osize
  BY DEF B!Decode, B!fixed
<1>2. /\ text \in Texts /\ order \in Orders /\ buf \in [0..Len(text) -> 0..255]
      /\ Len(text) \in Nat
  BY TextType DEF DecodeInv, Buffered
<1>3. /\ B!Clean \in Seq(1..127) /\ Len(B!Clean) >= 4 /\ Len(B!Clean) <= Len(text)
      /\ isize = Len(B!Clean)
      /\ \A k \in out..(isize - 1) : buf[k] = B!Clean[k + 1]
      /\ osize = 3 * B!Groups - 0
  BY <1>1 DEF DecodeInv, Decoding
<1>4. PICK g \in Nat : At(g)
  BY <1>1 DEF DecodeInv, Decoding
<1>5. /\ B!Groups \in Nat /\ 4 * B!Groups <= isize /\ isize \in Nat
      /\ inp \in Nat /\ out \in Nat /\ out <= inp /\ inp <= 4 * B!Groups
      /\ pc = "first" => (inp \div 4 < Len(B!Clean) \div 4 <=> g < B!Groups)
  BY <1>3, <1>4, Placed
<1>6. g < B!Groups
  <2>1. CASE pc = "first"
    BY <1>1, <1>3, <1>5, <2>1 DEF B!MoreGroups
  <2>2. CASE pc # "first"
    BY <1>1, <1>4, <2>2 DEF At
  <2> QED
    BY <2>1, <2>2
<1>7. /\ 4 * g + 4 <= isize
      /\ pc = "first" => inp = 4 * g /\ out = 3 * g
      /\ pc = "second" => inp = 4 * g + 1 /\ out = 3 * g + 1
      /\ pc = "third" => inp = 4 * g + 2 /\ out = 3 * g + 2
  BY <1>4, <1>5, <1>6 DEF At
<1>8. inp + 1 < isize /\ inp + 1 <= Len(text) /\ out < isize /\ out \in 0..Len(text)
  BY <1>1, <1>2, <1>3, <1>5, <1>7
<1>9. B!Byte \in 0..255
  BY <1>1, <1>2, <1>5, <1>8, ByteType
<1>10. /\ buf' \in [0..Len(text) -> 0..255] /\ buf'[out] = B!Byte
       /\ \A k \in 0..Len(text) : k # out => buf'[k] = buf[k]
  <2> HIDE DEF B!Byte
  <2> QED
    BY <1>1, <1>2, <1>8, <1>9
<1>11. /\ pc = "first" => pc' = "second" /\ inp' = inp + 1
       /\ pc = "second" => pc' = "third" /\ inp' = inp + 1
       /\ pc = "third" => pc' = "first" /\ inp' = inp + 2
  BY <1>1 DEF B!Follows
<1>12. /\ B!Clean' = B!Clean /\ B!Groups' = B!Groups
       /\ \A h : First(h)' = First(h) /\ Second(h)' = Second(h) /\ Third(h)' = Third(h)
  BY <1>1, CleanKept
<1>13. inp' \in 0..Len(text) /\ out' \in 0..Len(text)
  BY <1>1, <1>2, <1>3, <1>5, <1>7, <1>8, <1>11
<1>14. (\E h \in Nat : At(h))'
  <2>1. CASE pc = "first" \/ pc = "second"
    <3>1. At(g)'
      BY <1>1, <1>6, <1>7, <1>11, <1>12, <2>1 DEF At
    <3> QED
      BY <3>1
  <2>2. CASE pc = "third"
    <3>1. At(g + 1)'
      <4>1. /\ pc' = "first" /\ inp' = 4 * (g + 1) /\ out' = 3 * (g + 1) /\ g + 1 <= B!Groups
        BY <1>1, <1>5, <1>6, <1>7, <1>11, <2>2
      <4> QED
        BY <1>12, <4>1 DEF At
    <3>2. g + 1 \in Nat
      OBVIOUS
    <3> QED
      BY <3>1, <3>2
  <2> QED
    BY <1>1, <2>1, <2>2
<1>15. ASSUME NEW k \in out'..(isize' - 1)
       PROVE  buf'[k] = B!Clean[k + 1]
  <2>1. k \in out..(isize - 1) /\ k \in 0..Len(text) /\ k # out
    BY <1>1, <1>2, <1>3, <1>5
  <2> QED
    BY <1>3, <1>10, <2>1
<1>16. ASSUME order = "left", NEW h \in Nat
       PROVE  /\ 3 * h < out'     => buf'[3 * h] = First(h)
              /\ 3 * h + 1 < out' => buf'[3 * h + 1] = Second(h)
              /\ 3 * h + 2 < out' => buf'[3 * h + 2] = Third(h)
  <2>1. /\ 3 * h < out     => buf[3 * h] = First(h)
        /\ 3 * h + 1 < out => buf[3 * h + 1] = Second(h)
        /\ 3 * h + 2 < out => buf[3 * h + 2] = Third(h)
    BY <1>1, <1>16 DEF DecodeInv, Decoding
  <2>2. B!Byte = CASE pc = "first" -> First(g) [] pc = "second" -> Second(g)
                 [] pc = "third" -> Third(g)
    BY <1>1, <1>4, <1>6, <1>16, ByteIs
  <2>3. ASSUME NEW k \in Nat, k < out
        PROVE  buf'[k] = buf[k]
    <3>1. k \in 0..Len(text) /\ k # out
      BY <1>2, <1>3, <1>5, <1>8, <2>3
    <3> QED
      BY <1>10, <3>1
  <2>4. 3 * h \in Nat /\ 3 * h + 1 \in Nat /\ 3 * h + 2 \in Nat
    OBVIOUS
  <2>5. \A k \in Nat : k < out' => k < out \/ k = out
    BY <1>1, <1>5
  <2>6. 3 * h = out => pc = "first" /\ h = g
    BY <1>1, <1>7
  <2>7. 3 * h + 1 = out => pc = "second" /\ h = g
    BY <1>1, <1>7
  <2>8. 3 * h + 2 = out => pc = "third" /\ h = g
    BY <1>1, <1>7
  <2>9. 3 * h < out' => buf'[3 * h] = First(h)
    BY <1>10, <2>1, <2>2, <2>3, <2>4, <2>5, <2>6
  <2>10. 3 * h + 1 < out' => buf'[3 * h + 1] = Second(h)
    BY <1>10, <2>1, <2>2, <2>3, <2>4, <2>5, <2>7
  <2>11. 3 * h + 2 < out' => buf'[3 * h + 2] = Third(h)
    BY <1>10, <2>1, <2>2, <2>3, <2>4, <2>5, <2>8
  <2> QED
    BY <2>9, <2>10, <2>11
<1>17. pc' \in {"first", "second", "third"}
  BY <1>1, <1>11
<1>18. Decoding'
  BY <1>1, <1>3, <1>12, <1>14, <1>15, <1>16, <1>17 DEF Decoding
<1>19. Buffered'
  BY <1>1, <1>2, <1>10, <1>13, <1>17 DEF Buffered
<1>20. Cleaning'
  BY <1>17 DEF Cleaning
<1> QED
  BY <1>18, <1>19, <1>20 DEF DecodeInv

LEMMA DecodedKeeps ==
  ASSUME DecodeInv, B!Decoded
  PROVE  DecodeInv'
<1>1. /\ pc = "first" /\ ~B!MoreGroups /\ pc' = "pads"
      /\ buf' = buf /\ inp' = inp /\ out' = out
      /\ text' = text /\ order' = order /\ isize' = isize /\ osize' = osize
  BY DEF B!Decoded, B!fixed
<1>2. /\ B!Clean \in Seq(1..127) /\ Len(B!Clean) >= 4 /\ isize = Len(B!Clean)
  BY <1>1 DEF DecodeInv, Decoding
<1>3. PICK g \in Nat : At(g)
  BY <1>1 DEF DecodeInv, Decoding
<1>4. g = B!Groups
  <2>1. /\ B!Groups \in Nat /\ (inp \div 4 < Len(B!Clean) \div 4 <=> g < B!Groups)
    BY <1>1, <1>2, <1>3, Placed
  <2>2. g <= B!Groups
    BY <1>1, <1>3 DEF At
  <2> QED
    BY <1>1, <1>2, <2>1, <2>2 DEF B!MoreGroups
<1>5. /\ B!Clean' = B!Clean /\ B!Groups' = B!Groups
      /\ \A h : First(h)' = First(h) /\ Second(h)' = Second(h) /\ Third(h)' = Third(h)
  BY <1>1, CleanKept
<1>6. At(g)'
  BY <1>1, <1>3, <1>4, <1>5 DEF At
<1>7. (\E h \in Nat : At(h))'
  BY <1>6
<1>8. Decoding'
  BY <1>1, <1>5, <1>7 DEF DecodeInv, Decoding
<1> QED
  BY <1>1, <1>8 DEF DecodeInv, Buffered, Cleaning

LEMMA PadsKeeps ==
  ASSUME DecodeInv, B!Pads
  PROVE  DecodeInv'
<1>1. /\ pc = "pads" /\ pc' = "done" /\ osize' = osize - B!IsPad(1) - B!IsPad(2)
      /\ buf' = buf /\ inp' = inp /\ out' = out
      /\ text' = text /\ order' = order /\ isize' = isize
  BY DEF B!Pads, B!fixed
<1>2. PICK g \in Nat : At(g)
  BY <1>1 DEF DecodeInv, Decoding
<1>3. /\ B!Clean' = B!Clean /\ B!Groups' = B!Groups
      /\ \A h : First(h)' = First(h) /\ Second(h)' = Second(h) /\ Third(h)' = Third(h)
  BY <1>1, CleanKept
<1>4. At(g)'
  BY <1>1, <1>2, <1>3 DEF At
<1>5. (\E h \in Nat : At(h))'
  BY <1>4
<1>6. osize' = 3 * B!Groups - (B!IsPad(1) + B!IsPad(2))
  <2>1. osize = 3 * B!Groups - 0 /\ B!Clean \in Seq(1..127) /\ Len(B!Clean) >= 4
    BY <1>1 DEF DecodeInv, Decoding
  <2>2. B!Groups \in Nat
    BY <1>2, <2>1, Placed
  <2>3. B!IsPad(1) \in Int /\ B!IsPad(2) \in Int
    BY DEF B!IsPad
  <2> QED
    BY <1>1, <2>1, <2>2, <2>3
<1>7. B!IsPad(1)' = B!IsPad(1) /\ B!IsPad(2)' = B!IsPad(2)
  BY <1>1 DEF B!IsPad
<1>8. Decoding'
  BY <1>1, <1>3, <1>5, <1>6, <1>7 DEF DecodeInv, Decoding
<1> QED
  BY <1>1, <1>8 DEF DecodeInv, Buffered, Cleaning

LEMMA DecodeKept ==
  ASSUME DecodeInv, B!Decoder
  PROVE  DecodeInv'
BY CleanOneKeeps, CleanedKeeps, DecodeStep, DecodedKeeps, PadsKeeps DEF B!Decoder

LEMMA DecodeImplies ==
  ASSUME DecodeInv
  PROVE  B!TypeOK /\ B!DecodesText /\ B!SizeRight
<1>1. /\ text \in Texts /\ order \in Orders
      /\ pc \in {"clean", "first", "second", "third", "pads", "done"}
      /\ buf \in [0..Len(text) -> 0..255]
      /\ inp \in 0..Len(text) /\ out \in 0..Len(text)
      /\ text \in Seq(1..127) /\ Len(text) \in Nat
  BY TextType DEF DecodeInv, Buffered
<1>2. CASE pc = "clean"
  <2>1. out <= inp /\ isize = 0 /\ osize = 0
    BY <1>2 DEF DecodeInv, Cleaning
  <2>2. out \in 0..inp /\ isize \in 0..Len(text) /\ osize \in 0..Len(text)
    BY <1>1, <2>1
  <2>3. B!TypeOK
    BY <1>1, <2>1, <2>2 DEF B!TypeOK
  <2> QED
    BY <1>2, <2>3 DEF B!DecodesText, B!SizeRight
<1>3. CASE pc # "clean"
  <2>1. /\ B!Clean \in Seq(1..127) /\ Len(B!Clean) >= 4 /\ Len(B!Clean) <= Len(text)
        /\ isize = Len(B!Clean)
        /\ \A k \in out..(isize - 1) : buf[k] = B!Clean[k + 1]
        /\ osize = 3 * B!Groups - (IF pc = "done" THEN B!IsPad(1) + B!IsPad(2) ELSE 0)
    BY <1>3 DEF DecodeInv, Decoding
  <2>2. PICK g \in Nat : At(g)
    BY <1>3 DEF DecodeInv, Decoding
  <2>3. /\ B!Groups \in Nat /\ B!Groups >= 1 /\ 4 * B!Groups <= Len(B!Clean) /\ Len(B!Clean) \in Nat
        /\ inp \in Nat /\ out \in Nat /\ out <= inp
    BY <2>1, <2>2, Placed
  <2>4. B!IsPad(1) \in {0, 1} /\ B!IsPad(2) \in {0, 1}
    BY DEF B!IsPad
  <2>5. B!TypeOK
    <3>1. isize \in 0..Len(text) /\ out \in 0..inp
      BY <1>1, <2>1, <2>3
    <3>2. osize \in 0..Len(text)
      BY <1>1, <2>1, <2>3, <2>4
    <3> QED
      BY <1>1, <3>1, <3>2 DEF B!TypeOK
  <2>6. pc \in {"pads", "done"} => inp = 4 * B!Groups /\ out = 3 * B!Groups
    BY <2>2 DEF At
  <2>7. B!DecodesText
    <3> SUFFICES ASSUME pc \in {"pads", "done"}, order = "left", NEW h \in 0..(B!Groups - 1)
                 PROVE  B!Number(h) = 65536 * buf[3 * h] + 256 * buf[3 * h + 1] + buf[3 * h + 2]
      BY <2>1 DEF B!DecodesText
    <3>1. /\ h \in Nat /\ 3 * h < out /\ 3 * h + 1 < out /\ 3 * h + 2 < out
      BY <2>3, <2>6
    <3>2. buf[3 * h] = First(h) /\ buf[3 * h + 1] = Second(h) /\ buf[3 * h + 2] = Third(h)
      BY <1>3, <3>1 DEF DecodeInv, Decoding
    <3>3. /\ 4 * h + 1 \in 1..Len(B!Clean) /\ 4 * h + 2 \in 1..Len(B!Clean)
          /\ 4 * h + 3 \in 1..Len(B!Clean) /\ 4 * h + 4 \in 1..Len(B!Clean)
      BY <2>3
    <3>4. \A k \in 1..Len(B!Clean) : B!Code(k) \in Int /\ B!Code(k) >= 0 /\ B!Code(k) <= 63
      BY <2>1, CharType, CodeType DEF B!Code
    <3> DEFINE a == B!Code(4 * h + 1)
               b == B!Code(4 * h + 2)
               c == B!Code(4 * h + 3)
               d == B!Code(4 * h + 4)
    <3>5. /\ a \in Int /\ b \in Int /\ c \in Int /\ d \in Int
          /\ b >= 0 /\ b <= 63 /\ c >= 0 /\ c <= 63
      BY <3>3, <3>4
    <3>6. /\ B!Number(h) = 262144 * a + 4096 * b + 64 * c + d
          /\ First(h) = 4 * a + b \div 16
          /\ Second(h) = ((16 * b) % 256) + c \div 4
          /\ Third(h) = ((64 * c) % 256) + d
      BY DEF B!Number, First, Second, Third
    <3> HIDE DEF a, b, c, d
    <3>7. B!Number(h) = 65536 * (4 * a + b \div 16) + 256 * (((16 * b) % 256) + c \div 4)
                        + (((64 * c) % 256) + d)
      BY <3>5, <3>6, BytesOfNumber
    <3>8. B!Number(h) = 65536 * First(h) + 256 * Second(h) + Third(h)
      BY <3>6, <3>7
    <3> QED
      BY <3>2, <3>8
  <2>8. B!SizeRight
    <3> SUFFICES ASSUME pc = "done", ~(B!Groups = 1 /\ (B!PadsOfText = 2 \/ buf[2] = B!Pad))
                 PROVE  osize = 3 * B!Groups - B!PadsOfText
      BY DEF B!SizeRight
    <3>1. inp = 4 * B!Groups /\ out = 3 * B!Groups /\ osize = 3 * B!Groups - (B!IsPad(1) + B!IsPad(2))
      BY <2>1, <2>6
    <3>2. buf[inp - 1] = B!Clean[4 * B!Groups]
      <4>1. inp - 1 \in out..(isize - 1) /\ (inp - 1) + 1 = 4 * B!Groups
        BY <2>1, <2>3, <3>1
      <4> QED
        BY <2>1, <4>1
    <3>3. B!Clean[4 * B!Groups - 1] = B!Pad => B!Clean[4 * B!Groups] = B!Pad
      <4>1. B!PaddedAtTheEnd(B!Clean)
        BY <1>1, TextType DEF B!Clean
      <4> QED
        BY <4>1 DEF B!PaddedAtTheEnd, B!Groups
    <3>4. CASE B!Groups = 1
      <4>1. buf[inp - 2] = buf[2]
        <5>1. inp - 2 = 2
          BY <3>1, <3>4
        <5> QED
          BY <5>1
      <4>2. B!IsPad(2) = 0 /\ B!PadsOfText # 2
        BY <3>4, <4>1 DEF B!IsPad
      <4>3. B!IsPad(1) = B!PadsOfText
        BY <3>2, <4>2 DEF B!IsPad, B!PadsOfText
      <4> QED
        BY <2>3, <2>4, <3>1, <4>2, <4>3
    <3>5. CASE B!Groups # 1
      <4>1. buf[inp - 2] = B!Clean[4 * B!Groups - 1]
        <5>1. inp - 2 \in out..(isize - 1) /\ (inp - 2) + 1 = 4 * B!Groups - 1
          BY <2>1, <2>3, <3>1, <3>5
        <5> QED
          BY <2>1, <5>1
      <4>2. B!IsPad(1) + B!IsPad(2) = B!PadsOfText
        BY <3>2, <3>3, <4>1 DEF B!IsPad, B!PadsOfText
      <4> QED
        BY <3>1, <4>2
    <3> QED
      BY <3>4, <3>5
  <2> QED
    BY <2>5, <2>7, <2>8
<1> QED
  BY <1>2, <1>3

-----------------------------------------------------------------------------
(* One call *)

\* What holds of the call that is made.
CallInv ==
  /\ call = "download" => HttpInv
  /\ call = "copy" => CopyInv
  /\ call = "walk" => WalkInv
  /\ call = "decode" => DecodeInv

LEMMA CallStarts == Init => CallInv
BY HttpStart, CopyStart, WalkStart, DecodeStart DEF Init, CallInv

LEMMA HttpStays == HttpInv /\ UNCHANGED H!vars => HttpInv'
BY
  DEF HttpInv, H!TypeOK, Places, Stored, Come, Counted, Length, H!ShortOnlyIfCut, H!Total,
      H!vars

LEMMA CopyStays == CopyInv /\ UNCHANGED F!vars => CopyInv'
BY DEF CopyInv, F!TypeOK, F!ShiftedForGood, Shifted, F!vars

LEMMA WalkStays == WalkInv /\ UNCHANGED R!vars => WalkInv'
<1> SUFFICES ASSUME WalkInv, UNCHANGED R!vars PROVE WalkInv'
  OBVIOUS
<1>1. Loss' = Loss
  BY LossKept DEF R!vars, R!trees
<1>2. Accounted'
  BY <1>1, AllowedPrimed DEF WalkInv, Accounted, R!vars
<1> QED
  BY <1>2
    DEF WalkInv, R!TypeOK, Visited, Faultless, Missed, R!RootUntouched, Waiting, Batch,
              R!Biggest, R!Max, R!vars

LEMMA DecodeStays == DecodeInv /\ UNCHANGED B!vars => DecodeInv'
<1> SUFFICES ASSUME DecodeInv, UNCHANGED B!vars PROVE DecodeInv'
  OBVIOUS
<1>1. /\ text' = text /\ order' = order /\ pc' = pc /\ buf' = buf /\ inp' = inp /\ out' = out
      /\ isize' = isize /\ osize' = osize
  BY DEF B!vars
<1>2. /\ B!Clean' = B!Clean /\ B!Groups' = B!Groups
      /\ \A g : First(g)' = First(g) /\ Second(g)' = Second(g) /\ Third(g)' = Third(g)
  BY <1>1, CleanKept
<1>3. B!CleanUpTo(text, inp)' = B!CleanUpTo(text, inp)
  BY <1>1 DEF B!CleanUpTo
<1>4. B!IsPad(1)' = B!IsPad(1) /\ B!IsPad(2)' = B!IsPad(2)
  BY <1>1 DEF B!IsPad
<1>5. (\E g \in Nat : At(g))' <=> \E g \in Nat : At(g)
  BY <1>1, <1>2 DEF At
<1>6. Decoding'
  BY <1>1, <1>2, <1>4, <1>5 DEF DecodeInv, Decoding
<1>7. Cleaning'
  BY <1>1, <1>3 DEF DecodeInv, Cleaning
<1> QED
  BY <1>1, <1>6, <1>7 DEF DecodeInv, Buffered

LEMMA CallStays ==
  ASSUME CallInv, UNCHANGED vars
  PROVE  CallInv'
<1>1. call' = call /\ pc' = pc
  BY DEF vars
<1>2. UNCHANGED H!vars /\ UNCHANGED F!vars /\ UNCHANGED R!vars
      /\ UNCHANGED B!vars
  BY DEF vars, http, loop, both, walk, codes, H!vars, F!vars, R!vars, B!vars
<1>3. HttpInv => HttpInv'
  BY <1>2, HttpStays
<1>4. CopyInv => CopyInv'
  BY <1>2, CopyStays
<1>5. WalkInv => WalkInv'
  BY <1>2, WalkStays
<1>6. DecodeInv => DecodeInv'
  BY <1>2, DecodeStays
<1> QED
  BY <1>1, <1>3, <1>4, <1>5, <1>6 DEF CallInv

LEMMA CallKept == CallInv /\ [Next]_vars => CallInv'
<1> SUFFICES ASSUME CallInv, [Next]_vars PROVE CallInv'
  OBVIOUS
<1>1. CASE Running
  <2>1. call' = call
    BY <1>1 DEF Running
  <2>2. CASE call = "download" /\ H!Client
    <3>1. HttpInv'
      BY <2>2, HttpKept DEF CallInv
    <3> QED
      BY <2>1, <2>2, <3>1 DEF CallInv
  <2>3. CASE call = "copy" /\ F!Step
    <3>1. CopyInv'
      BY <2>3, CopyKept DEF CallInv
    <3> QED
      BY <2>1, <2>3, <3>1 DEF CallInv
  <2>4. CASE call = "walk" /\ R!Walk
    <3>1. WalkInv'
      BY <2>4, WalkKept DEF CallInv
    <3> QED
      BY <2>1, <2>4, <3>1 DEF CallInv
  <2>5. CASE call = "decode" /\ B!Decoder
    <3>1. DecodeInv'
      BY <2>5, DecodeKept DEF CallInv
    <3> QED
      BY <2>1, <2>5, <3>1 DEF CallInv
  <2> QED
    BY <1>1, <2>2, <2>3, <2>4, <2>5 DEF Running
<1>2. CASE UNCHANGED vars
  BY <1>2, CallStays
<1> QED
  BY <1>1, <1>2 DEF Next, Ended

LEMMA CallHolds == Spec => []CallInv
BY CallStarts, CallKept, PTL DEF Spec

\* However the answer of the server is cut into reads, wherever the header ends in one
\* and whatever length is announced: what is in the file is what has come of the body.
THEOREM DownloadIsBody == Spec => []FileIsBody
<1>1. CallInv => FileIsBody
  BY HttpImplies DEF CallInv, FileIsBody
<1> QED
  BY <1>1, CallHolds, PTL

\* For every length, buffer and destination that is too small: a copy is right unless
\* a write failed, and from there on it is nowhere right.
THEOREM CopyIsRight == Spec => []RightUnlessWriteFailed
<1>1. CallInv => RightUnlessWriteFailed
  BY CopyImplies DEF CallInv, RightUnlessWriteFailed
<1> QED
  BY <1>1, CallHolds, PTL

\* For every tree, every size of its files and every limit: the remounts lose nothing,
\* what waits in the cache is less than the limit and the largest file, and what is
\* missing is no more than a batch for each command that failed.
THEOREM WalkIsSafe == Spec => []RemountsHarmless
<1>1. CallInv => RemountsHarmless
  BY WalkImplies DEF CallInv, RemountsHarmless
<1> QED
  BY <1>1, CallHolds, PTL

\* For every text: what the decoder leaves in the buffer that it reads from is what the
\* text stands for, if the build evaluates the operands from left to right; and the size
\* is wrong only for a text of a single group.
THEOREM TextIsDecoded == Spec => []DecodesText
<1>1. CallInv => DecodesText
  BY DecodeImplies DEF CallInv, DecodesText
<1> QED
  BY <1>1, CallHolds, PTL
=============================================================================
