------------------------ MODULE ParallelFilterProofs ------------------------
(***************************************************************************)
(* Proofs about ParallelFilter, for any number of goroutines and clusters  *)
(* and any sampling percentage: the goroutines' shared counter allots      *)
(* every place once, the search leaves out no cluster, and the next one    *)
(* passes over few.                                                        *)
(***************************************************************************)
EXTENDS ParallelFilter, FiniteSetTheorems, TLAPS

-----------------------------------------------------------------------------
(* The arithmetic of the rotating list and of the sample's size.           *)

(* Quotient and remainder of an index by the length of the list.           *)
LEMMA DivMod == ASSUME NEW n \in Nat \ {0}, NEW a \in Nat
 PROVE /\ a % n \in 0..(n-1) /\ a \div n \in Nat /\ a = n * (a \div n) + (a % n)
 OBVIOUS

(* A larger quotient is larger by a whole list at least.                   *)
LEMMA Mul == ASSUME NEW n \in Nat \ {0}, NEW q \in Nat, NEW p \in Nat, q < p
 PROVE n * q + n <= n * p
<1>1. PICK d \in Nat : p = q + 1 + d 
  <2>1. p - q - 1 \in Nat /\ p = q + 1 + (p - q - 1) OBVIOUS
  <2> QED BY <2>1
<1>2. n * p = n * q + n + n * d BY <1>1
<1>3. n * d >= 0 OBVIOUS
<1> QED BY <1>2, <1>3

(* A percentage of the clusters is at most all of them.                    *)
LEMMA Share == ASSUME NEW n \in Nat \ {0}, NEW p \in 0..100
 PROVE (n * p) \div 100 \in 0..n
<1>1. n * p <= n * 100
 <2>1. n * (100 - p) >= 0 OBVIOUS
 <2> QED BY <2>1
<1>2. n * p \in Nat OBVIOUS
<1> QED BY <1>1, <1>2

(* Different pieces of a search are different clusters.                    *)
LEMMA ModInj == ASSUME NEW n \in Nat \ {0}, NEW a \in Nat, NEW i \in 0..(n-1), NEW j \in 0..(n-1),
   (a + i) % n = (a + j) % n
 PROVE i = j
<1> DEFINE p == (a + i) \div n
           q == (a + j) \div n
           r == (a + i) % n
<1>1. /\ p \in Nat /\ q \in Nat /\ r \in 0..(n-1) /\ a + i = n * p + r /\ a + j = n * q + r
  BY DivMod, a+i \in Nat, a+j \in Nat
<1> HIDE DEF p, q, r
<1>2. ~(p < q)
  <2> SUFFICES ASSUME p < q PROVE FALSE OBVIOUS
  <2>1. n * p + n <= n * q BY <1>1, Mul
  <2>2. n * p \in Nat /\ n * q \in Nat BY <1>1
  <2> QED BY <1>1, <2>1, <2>2
<1>3. ~(q < p)
  <2> SUFFICES ASSUME q < p PROVE FALSE OBVIOUS
  <2>1. n * q + n <= n * p BY <1>1, Mul
  <2>2. n * p \in Nat /\ n * q \in Nat BY <1>1
  <2> QED BY <1>1, <2>1, <2>2
<1>4. p = q BY <1>1, <1>2, <1>3
<1>5. a + i = a + j BY <1>1, <1>4
<1> QED BY <1>5

(* Every cluster of the list is some piece of the search.                  *)
LEMMA ModOnto == ASSUME NEW n \in Nat \ {0}, NEW a \in Nat, NEW c \in 0..(n-1)
 PROVE \E i \in 0..(n-1) : (a + i) % n = c
<1> DEFINE q == a \div n
           r == a % n
<1>1. q \in Nat /\ r \in 0..(n-1) /\ a = n * q + r BY DivMod
<1> HIDE DEF q, r
<1>3. ASSUME NEW k \in Nat PROVE (n * k + c) % n = c
  <2>1. n * k + c \in Nat OBVIOUS
  <2> DEFINE m == n * k + c
  <2>2. /\ m % n \in 0..(n-1) /\ m \div n \in Nat /\ m = n * (m \div n) + (m % n) BY <2>1, DivMod
  <2> DEFINE d == m \div n
             e == m % n
  <2>3. d \in Nat /\ e \in 0..(n-1) /\ n * k + c = n * d + e BY <2>2
  <2> HIDE DEF d, e
  <2>4. n * d \in Nat /\ n * k \in Nat BY <2>3
  <2>5. ~(d < k)
     <3> SUFFICES ASSUME d < k PROVE FALSE OBVIOUS
     <3>1. n * d + n <= n * k BY <2>3, Mul
     <3> QED BY <3>1, <2>3, <2>4
  <2>6. ~(k < d)
     <3> SUFFICES ASSUME k < d PROVE FALSE OBVIOUS
     <3>1. n * k + n <= n * d BY <2>3, Mul
     <3> QED BY <3>1, <2>3, <2>4
  <2>7. d = k BY <2>3, <2>5, <2>6
  <2>8. e = c BY <2>3, <2>7, <2>4
  <2> QED BY <2>8 DEF e
<1>4. CASE r <= c
  <2>1. c - r \in 0..(n-1) BY <1>1, <1>4
  <2>2. a + (c - r) = n * q + c BY <1>1
  <2> QED BY <2>1, <2>2, <1>3, <1>1
<1>5. CASE r > c
  <2>1. c - r + n \in 0..(n-1) BY <1>1, <1>5
  <2>2. a + (c - r + n) = n * (q + 1) + c BY <1>1
  <2>3. (n * (q + 1) + c) % n = c BY <1>1, <1>3
  <2> QED BY <2>1, <2>2, <2>3
<1> QED BY <1>1, <1>4, <1>5

-----------------------------------------------------------------------------
(* The inductive invariant.                                                *)

(* The goroutines that hold pieces of the list.                            *)
Busy(w) == worker[w].pc \notin {"take", "exit"}

(* the first piece of w that has not been examined *)
FirstLeft(w) == IF worker[w].pc \in {"next", "filter"} THEN worker[w].piece ELSE worker[w].piece + 1

(* the cluster that w is at *)
Current(w) == ClusterAt(search, worker[w].piece)

(* the goroutines that have added one too many and not taken it back *)
Over == {w \in Worker : worker[w].pc \in {"cancel", "undo"}}

(* Chunks are disjoint parts of what has been handed out.                  *)
Chunks ==
  /\ toProcess <= search.n
  /\ search.want <= search.n
  /\ \A w \in Worker : Busy(w) =>
       /\ worker[w].piece <= worker[w].end
       /\ worker[w].end <= toProcess
       /\ worker[w].pc # "next" => worker[w].piece < worker[w].end
  /\ \A v, w \in Worker : v # w /\ Busy(v) /\ Busy(w) =>
       worker[v].end <= worker[w].piece \/ worker[w].end <= worker[v].piece

(* What is ahead of the goroutines is unknown, and what is unknown is      *)
(* ahead of one of them, as long as nobody has cancelled.                  *)
Ahead ==
  /\ \A i \in toProcess..(search.n - 1) : verdict[ClusterAt(search, i)] = "unknown"
  /\ \A w \in Worker : Busy(w) =>
       \A i \in FirstLeft(w)..(worker[w].end - 1) : verdict[ClusterAt(search, i)] = "unknown"
  /\ \A i \in 0..(toProcess - 1) :
       verdict[ClusterAt(search, i)] = "unknown" =>
         cancelled \/ \E w \in Worker : Busy(w) /\ i \in FirstLeft(w)..(worker[w].end - 1)
  /\ \A w \in Worker : worker[w].pc = "exit" => cancelled \/ toProcess = search.n

(* Why a search is cancelled, and what becomes of an error.                *)
Causes ==
  /\ cancelled => stopped \/ errCh \/ feasibleClustersLen >= search.want
  /\ \A c \in 0..(search.n - 1) : verdict[c] = "error" =>
       errCh \/ \E w \in Worker : worker[w].pc = "fail" /\ Current(w) = c

(* The counter is at most the number of places until somebody overshoots,  *)
(* and from then on exceeds it by the number of those who did.             *)
Counted ==
  /\ feasibleClustersLen < search.want => Over = {}
  /\ feasibleClustersLen >= search.want =>
       feasibleClustersLen = search.want + Cardinality(Over)

(* A place that was counted is filled or will be, by one goroutine.        *)
Places ==
  /\ \A k \in 1..search.want : feasibleClusters[k] # None => k <= feasibleClustersLen
  /\ \A k \in 1..search.want : k <= feasibleClustersLen =>
       \/ feasibleClusters[k] # None
       \/ \E w \in Worker : worker[w].pc = "store" /\ worker[w].slot = k
  /\ \A w \in Worker : worker[w].pc = "store" =>
       /\ worker[w].slot \in 1..search.want
       /\ worker[w].slot <= feasibleClustersLen
       /\ feasibleClusters[worker[w].slot] = None
  /\ \A v, w \in Worker :
       worker[v].pc = "store" /\ worker[w].pc = "store" /\ worker[v].slot = worker[w].slot => v = w

(* No cluster has two places, and one that fits has one while some are free. *)
Contents ==
  /\ \A k \in 1..search.want : feasibleClusters[k] # None =>
       /\ feasibleClusters[k] \in 0..(search.n - 1)
       /\ verdict[feasibleClusters[k]] = "fit"
  /\ \A j, k \in 1..search.want :
       feasibleClusters[j] # None /\ feasibleClusters[j] = feasibleClusters[k] => j = k
  /\ \A w \in Worker : worker[w].pc = "store" =>
       /\ verdict[Current(w)] = "fit"
       /\ \A k \in 1..search.want : feasibleClusters[k] # Current(w)
  /\ \A c \in 0..(search.n - 1) : verdict[c] = "fit" =>
       \/ feasibleClustersLen >= search.want
       \/ \E k \in 1..search.want : feasibleClusters[k] = c
       \/ \E w \in Worker : worker[w].pc = "store" /\ Current(w) = c

(* The inductive invariant: SearchComplete speaks of a search that has     *)
(* ended, Running of what its goroutines keep true until then.             *)
Running == Chunks /\ Ahead /\ Causes /\ Counted /\ Places /\ Contents

IndInv ==
  /\ TypeOK
  /\ search.stage = "run" => Running
  /\ SearchComplete

-----------------------------------------------------------------------------
(* What the definitions used by the steps return.                          *)

(* The pieces of a search are its clusters, each exactly once.             *)
LEMMA ClusterFacts ==
  ASSUME NEW s \in Searches
  PROVE  /\ \A i \in 0..(s.n - 1) : ClusterAt(s, i) \in 0..(s.n - 1)
         /\ \A i, j \in 0..(s.n - 1) : ClusterAt(s, i) = ClusterAt(s, j) => i = j
         /\ \A c \in 0..(s.n - 1) : \E i \in 0..(s.n - 1) : ClusterAt(s, i) = c
<1>1. s.n \in Nat \ {0} /\ s.from \in Nat
  BY SizeAssumption DEF Searches, Index
<1>2. \A i \in 0..(s.n - 1) : ClusterAt(s, i) \in 0..(s.n - 1)
  BY <1>1 DEF ClusterAt
<1>3. \A i, j \in 0..(s.n - 1) : ClusterAt(s, i) = ClusterAt(s, j) => i = j
  BY <1>1, ModInj DEF ClusterAt
<1>4. \A c \in 0..(s.n - 1) : \E i \in 0..(s.n - 1) : ClusterAt(s, i) = c
  BY <1>1, ModOnto DEF ClusterAt
<1> QED
  BY <1>2, <1>3, <1>4

(* A function on 1..k is a sequence of length k.                           *)
LEMMA SeqFacts ==
  ASSUME NEW S, NEW k \in Nat, NEW f \in [1..k -> S]
  PROVE  f \in Seq(S) /\ Len(f) = k /\ DOMAIN f = 1..k
OBVIOUS

(* numFeasibleClustersToFind asks for at least one cluster and for no more *)
(* than there are.                                                         *)
LEMMA WantFacts ==
  ASSUME NEW n \in 1..MaxClusters, NEW strategy \in Strategy
  PROVE  numFeasibleClustersToFind(n, strategy) \in 1..n
<1> DEFINE m == (n * AdaptivePercentage(n)) \div 100
<1>1. n \in Nat \ {0} /\ MinFeasible \in Nat \ {0} /\ Percentage \in Nat
  BY SizeAssumption
<1>2. CASE n < MinFeasible \/ Percentage >= 100 \/ strategy = "Replication"
  BY <1>1, <1>2 DEF numFeasibleClustersToFind
<1>3. CASE ~(n < MinFeasible \/ Percentage >= 100 \/ strategy = "Replication")
  <2>1. AdaptivePercentage(n) \in 0..100
    BY <1>1, <1>3 DEF AdaptivePercentage, minFeasibleClustersPercentageToFind
  <2>2. m \in 0..n
    BY <1>1, <2>1, Share
  <2>3. numFeasibleClustersToFind(n, strategy) = IF m < MinFeasible THEN MinFeasible ELSE m
    BY <1>3 DEF numFeasibleClustersToFind
  <2> HIDE DEF m
  <2> QED
    BY <1>1, <1>3, <2>2, <2>3
<1> QED
  BY <1>2, <1>3

(* A chunk holds at least one piece.                                       *)
LEMMA ChunkFacts ==
  ASSUME NEW n \in 1..MaxClusters
  PROVE  chunkSizeFor(n) \in Nat \ {0}
<1>1. Sqrt(n) \in Nat
  <2>1. IsFiniteSet(1..n)
    BY FS_Interval, SizeAssumption
  <2>2. IsFiniteSet({s \in 1..n : s * s <= n})
    BY <2>1, FS_Subset
  <2> QED
    BY <2>2, FS_CardinalityType DEF Sqrt
<1>2. Cardinality(Worker) \in Nat \ {0}
  BY WorkerAssumption, FS_CardinalityType, FS_EmptySet
<1>3. n \div Cardinality(Worker) \in Nat
  BY <1>2, DivMod, SizeAssumption
<1> QED
  BY <1>1, <1>3 DEF chunkSizeFor

-----------------------------------------------------------------------------
(* Every step keeps the invariant.                                         *)

(* What a goroutine's state is, spelled out.                               *)
LEMMA WorkerFacts ==
  ASSUME TypeOK
  PROVE  /\ search.n \in 1..MaxClusters /\ search.want \in 1..MaxClusters
         /\ \A v \in Worker :
              /\ worker[v].pc \in Steps
              /\ worker[v].piece \in Nat /\ worker[v].piece <= MaxClusters
              /\ worker[v].end \in Nat /\ worker[v].end <= MaxClusters
              /\ worker[v].slot \in Nat /\ worker[v].slot <= MaxClusters
BY SizeAssumption DEF TypeOK, Workers, Searches

(* A goroutine takes the next chunk, or finds none left.                   *)
LEMMA TakeChunkInv ==
  ASSUME TypeOK, Running, NEW w \in Worker, TakeChunk(w)
  PROVE  TypeOK' /\ Running'
<1>1. MaxClusters \in Nat \ {0} /\ toProcess \in Nat /\ toProcess <= search.n
  BY SizeAssumption DEF TypeOK, Running, Chunks
<1>2. CASE toProcess = search.n
  <2>1. /\ worker' = [worker EXCEPT ![w] = Exited]
        /\ UNCHANGED <<nextStartClusterIndex, search, toProcess, feasibleClustersLen,
                       feasibleClusters, verdict, errCh, cancelled, stopped, result>>
    BY <1>2 DEF TakeChunk, Leave, found, signals
  <2>2. TypeOK'
    BY <1>1, <2>1 DEF TypeOK, Workers, Exited, Steps
  <2>3. /\ \A v \in Worker : v # w => worker'[v] = worker[v]
        /\ worker'[w].pc = "exit" /\ worker[w].pc = "take"
    BY <2>1 DEF TypeOK, Exited, TakeChunk
  <2>4. Chunks'
    BY <2>1, <2>3 DEF Running, Chunks, Busy
  <2>5. Ahead'
    BY <1>2, <2>1, <2>3 DEF Running, Ahead, Busy, FirstLeft
  <2>6. Causes'
    BY <2>1, <2>3 DEF Running, Causes, Current
  <2>7. Over' = Over
    BY <2>3 DEF Over
  <2>8. Counted'
    BY <2>1, <2>7 DEF Running, Counted
  <2>9. Places' 
    BY <2>1, <2>3 DEF Running, Places
  <2>10. Contents'
    BY <2>1, <2>3 DEF Running, Contents, Current
  <2> QED
    BY <2>2, <2>4, <2>5, <2>6, <2>8, <2>9, <2>10 DEF Running
<1>3. CASE toProcess # search.n
  <2> DEFINE end == MinOf(toProcess + chunkSizeFor(search.n), search.n)
  <2>1. /\ worker' = [worker EXCEPT ![w] =
                        [pc |-> "next", piece |-> toProcess, end |-> end, slot |-> 0]]
        /\ toProcess' = end
        /\ UNCHANGED <<nextStartClusterIndex, search, feasibleClustersLen,
                       feasibleClusters, verdict, errCh, cancelled, stopped, result>>
    BY <1>3 DEF TakeChunk, found, signals
  <2>2. end \in Nat /\ toProcess < end /\ end <= search.n
    BY <1>1, <1>3, WorkerFacts, ChunkFacts DEF MinOf
  <2> HIDE DEF end
  <2>3. TypeOK'
    BY <1>1, <2>1, <2>2, WorkerFacts DEF TypeOK, Workers, Steps
  <2>4. /\ \A v \in Worker : v # w => worker'[v] = worker[v]
        /\ worker'[w] = [pc |-> "next", piece |-> toProcess, end |-> end, slot |-> 0]
        /\ worker[w].pc = "take"
    BY <2>1 DEF TypeOK, TakeChunk
  <2>5. Chunks'
    BY <1>1, <2>1, <2>2, <2>4, WorkerFacts DEF Running, Chunks, Busy
  <2>6. Ahead'
    BY <1>1, <2>1, <2>2, <2>4, WorkerFacts DEF Running, Ahead, Busy, FirstLeft
  <2>7. Causes'
    BY <2>1, <2>4 DEF Running, Causes, Current
  <2>8. Over' = Over
    BY <2>4 DEF Over
  <2>9. Counted'
    BY <2>1, <2>8 DEF Running, Counted
  <2>10. Places'
    BY <2>1, <2>4 DEF Running, Places
  <2>11. Contents'
    BY <2>1, <2>4 DEF Running, Contents, Current
  <2> QED
    BY <2>3, <2>5, <2>6, <2>7, <2>9, <2>10, <2>11 DEF Running
<1> QED
  BY <1>2, <1>3

(* A goroutine looks at the context before its next piece.                 *)
LEMMA NextPieceInv ==
  ASSUME TypeOK, Running, NEW w \in Worker, NextPiece(w)
  PROVE  TypeOK' /\ Running'
<1>1. UNCHANGED <<nextStartClusterIndex, search, toProcess, feasibleClustersLen,
                  feasibleClusters, verdict, errCh, cancelled, stopped, result>>
  BY DEF NextPiece, found, signals
<1>2. /\ worker[w].pc = "next"
      /\ \A v \in Worker : v # w => worker'[v] = worker[v]
      /\ worker' \in [Worker -> Workers]
      /\ \/ worker'[w].pc = "take" /\ worker[w].piece = worker[w].end
         \/ worker'[w].pc = "exit" /\ cancelled
         \/ /\ worker'[w].pc = "filter" /\ worker[w].piece # worker[w].end
            /\ worker'[w].piece = worker[w].piece /\ worker'[w].end = worker[w].end
  <2>1. worker[w].pc = "next" /\ worker \in [Worker -> Workers] /\ worker[w] \in Workers
    BY DEF NextPiece, TypeOK
  <2>2. CASE worker[w].piece = worker[w].end
    <3>1. worker' = [worker EXCEPT ![w].pc = "take"]
      BY <2>2 DEF NextPiece, Goto
    <3> QED
      BY <2>1, <2>2, <3>1 DEF Workers, Steps
  <2>3. CASE worker[w].piece # worker[w].end /\ cancelled
    <3>1. worker' = [worker EXCEPT ![w] = Exited]
      BY <2>3 DEF NextPiece, Leave
    <3>2. Exited \in Workers /\ Exited.pc = "exit"
      BY SizeAssumption DEF Exited, Workers, Steps
    <3> QED
      BY <2>1, <2>3, <3>1, <3>2
  <2>4. CASE worker[w].piece # worker[w].end /\ ~cancelled
    <3>1. worker' = [worker EXCEPT ![w].pc = "filter"]
      BY <2>4 DEF NextPiece, Goto
    <3> QED
      BY <2>1, <2>4, <3>1 DEF Workers, Steps
  <2> QED
    BY <2>2, <2>3, <2>4
<1>3. TypeOK'
  BY <1>1, <1>2 DEF TypeOK
<1>4. Chunks'
  BY <1>1, <1>2, WorkerFacts DEF Running, Chunks, Busy
<1>5. Ahead'
  BY <1>1, <1>2, WorkerFacts DEF Running, Chunks, Ahead, Busy, FirstLeft
<1>6. Causes'
  BY <1>1, <1>2 DEF Running, Causes, Current
<1>7. Over' = Over
  BY <1>2 DEF Over
<1>8. Counted'
  BY <1>1, <1>7 DEF Running, Counted
<1>9. Places'
  BY <1>1, <1>2 DEF Running, Places
<1>10. Contents'
  BY <1>1, <1>2 DEF Running, Contents, Current
<1> QED
  BY <1>3, <1>4, <1>5, <1>6, <1>8, <1>9, <1>10 DEF Running

(* A goroutine is at a cluster of the list, and no two at the same one.    *)
LEMMA CurrentFacts ==
  ASSUME TypeOK, Running, NEW w \in Worker, Busy(w), worker[w].pc # "next"
  PROVE  /\ worker[w].piece \in 0..(search.n - 1)
         /\ Current(w) \in 0..(search.n - 1)
         /\ \A v \in Worker : v # w /\ Busy(v) /\ worker[v].pc # "next" => Current(v) # Current(w)
<1>1. search \in Searches /\ toProcess \in Nat /\ search.n \in Nat /\ toProcess <= search.n
  BY WorkerFacts, SizeAssumption DEF TypeOK, Running, Chunks
<1>2. \A v \in Worker : Busy(v) /\ worker[v].pc # "next" => worker[v].piece \in 0..(search.n - 1)
  BY <1>1, WorkerFacts DEF Running, Chunks
<1>3. \A v \in Worker : v # w /\ Busy(v) /\ worker[v].pc # "next" => worker[v].piece # worker[w].piece
  BY WorkerFacts DEF Running, Chunks
<1> QED
  BY <1>1, <1>2, <1>3, ClusterFacts DEF Current

(* The goroutine goes on to its next piece.                                *)
LEMMA NextOfFacts ==
  ASSUME TypeOK, Running, NEW w \in Worker, Busy(w), worker[w].pc # "next",
         worker' = [worker EXCEPT ![w] = NextOf(w)]
  PROVE  /\ worker' \in [Worker -> Workers]
         /\ \A v \in Worker : v # w => worker'[v] = worker[v]
         /\ worker'[w].pc = "next" /\ worker'[w].piece = worker[w].piece + 1
         /\ worker'[w].end = worker[w].end
<1>1. worker \in [Worker -> Workers] /\ worker[w] \in Workers
  BY DEF TypeOK
<1>2. worker[w].piece < worker[w].end
  BY DEF Running, Chunks
<1>3. NextOf(w) \in Workers
  BY <1>1, <1>2, SizeAssumption DEF NextOf, Workers, Steps
<1> QED
  BY <1>1, <1>3 DEF NextOf

(* Moving on to the next piece after one that was examined leaves the      *)
(* chunks disjoint and what is ahead unknown.                              *)
LEMMA MoveOn ==
  ASSUME TypeOK, Running, NEW w \in Worker, Busy(w), worker[w].pc \notin {"next", "filter"},
         worker' = [worker EXCEPT ![w] = NextOf(w)],
         UNCHANGED <<search, toProcess, verdict>>, cancelled => cancelled'
  PROVE  Chunks' /\ Ahead'
<1>1. /\ \A v \in Worker : v # w => worker'[v] = worker[v]
      /\ worker'[w].pc = "next" /\ worker'[w].piece = worker[w].piece + 1
      /\ worker'[w].end = worker[w].end
  BY NextOfFacts
<1>2. /\ toProcess \in Nat /\ search.n \in Nat
      /\ worker[w].piece < worker[w].end
  BY WorkerFacts, SizeAssumption DEF TypeOK, Running, Chunks
<1>3. Chunks'
  BY <1>1, <1>2, WorkerFacts DEF Running, Chunks, Busy
<1>4. Ahead'
  BY <1>1, <1>2, WorkerFacts DEF Running, Ahead, Busy, FirstLeft
<1> QED
  BY <1>3, <1>4

(* A goroutine fills the place that it was allotted.                       *)
LEMMA StoreInv ==
  ASSUME TypeOK, Running, NEW w \in Worker, StoreCluster(w)
  PROVE  TypeOK' /\ Running'
<1>1. /\ worker[w].pc = "store"
      /\ feasibleClusters' = [feasibleClusters EXCEPT ![worker[w].slot] = Current(w)]
      /\ worker' = [worker EXCEPT ![w] = NextOf(w)]
      /\ UNCHANGED <<nextStartClusterIndex, search, toProcess, feasibleClustersLen, verdict,
                     errCh, cancelled, stopped, result>>
  BY DEF StoreCluster, Current, signals
<1>2. Busy(w)
  BY <1>1 DEF Busy
<1>3. /\ worker' \in [Worker -> Workers]
      /\ \A v \in Worker : v # w => worker'[v] = worker[v]
      /\ worker'[w].pc = "next"
  BY <1>1, <1>2, NextOfFacts
<1>5. /\ Current(w) \in 0..(search.n - 1)
      /\ \A v \in Worker : v # w /\ Busy(v) /\ worker[v].pc # "next" => Current(v) # Current(w)
  BY <1>1, <1>2, CurrentFacts
<1>6. /\ worker[w].slot \in 1..search.want /\ worker[w].slot <= feasibleClustersLen
      /\ feasibleClusters[worker[w].slot] = None
  BY <1>1 DEF Running, Places
<1>7. Current(w) \in Index /\ Current(w) # None
  BY <1>5, WorkerFacts, NoneAssumption, SizeAssumption DEF Index
<1>8. TypeOK'
  BY <1>1, <1>3, <1>6, <1>7 DEF TypeOK
<1>9. /\ feasibleClusters'[worker[w].slot] = Current(w)
      /\ \A k \in 1..search.want : k # worker[w].slot => feasibleClusters'[k] = feasibleClusters[k]
  BY <1>1, <1>6 DEF TypeOK
<1>10. Chunks' /\ Ahead'
  BY <1>1, <1>2, MoveOn
<1>11. Causes'
  BY <1>1, <1>3 DEF Running, Causes, Current
<1>12. Over' = Over
  BY <1>1, <1>3 DEF Over
<1>13. Counted'
  BY <1>1, <1>12 DEF Running, Counted
<1>14. Places'
  BY <1>1, <1>3, <1>6, <1>7, <1>9, WorkerFacts DEF Running, Places
<1>15. Contents'
  <2>1. \A v \in Worker : worker'[v].pc = "store" =>
          v # w /\ worker[v].pc = "store" /\ Busy(v) /\ Current(v)' = Current(v) /\ worker'[v] = worker[v]
    BY <1>1, <1>3 DEF Busy, Current
  <2>2. verdict[Current(w)] = "fit" /\ \A k \in 1..search.want : feasibleClusters[k] # Current(w)
    BY <1>1 DEF Running, Contents
  <2>3. \A k \in 1..search.want : feasibleClusters'[k] # None =>
          /\ feasibleClusters'[k] \in 0..(search.n - 1)
          /\ verdict[feasibleClusters'[k]] = "fit"
    BY <1>5, <1>6, <1>9, <2>2 DEF Running, Contents
  <2>4. \A j, k \in 1..search.want :
          feasibleClusters'[j] # None /\ feasibleClusters'[j] = feasibleClusters'[k] => j = k
    BY <1>6, <1>9, <2>2 DEF Running, Contents
  <2>5. \A v \in Worker : worker'[v].pc = "store" =>
          /\ verdict[Current(v)'] = "fit"
          /\ \A k \in 1..search.want : feasibleClusters'[k] # Current(v)'
    BY <1>5, <1>6, <1>9, <2>1 DEF Running, Contents
  <2>6. \A c \in 0..(search.n - 1) : verdict[c] = "fit" =>
          \/ feasibleClustersLen >= search.want
          \/ \E k \in 1..search.want : feasibleClusters'[k] = c
          \/ \E v \in Worker : worker'[v].pc = "store" /\ Current(v)' = c
    <3> SUFFICES ASSUME NEW c \in 0..(search.n - 1), verdict[c] = "fit",
                        ~(feasibleClustersLen >= search.want), c # Current(w)
                 PROVE  \/ \E k \in 1..search.want : feasibleClusters'[k] = c
                        \/ \E v \in Worker : worker'[v].pc = "store" /\ Current(v)' = c
      BY <1>6, <1>9
    <3>1. CASE \E k \in 1..search.want : feasibleClusters[k] = c
      <4>1. c # None
        BY NoneAssumption, WorkerFacts
      <4> QED
        BY <3>1, <4>1, <1>6, <1>9
    <3>2. CASE \E v \in Worker : worker[v].pc = "store" /\ Current(v) = c
      <4>1. PICK v \in Worker : worker[v].pc = "store" /\ Current(v) = c
        BY <3>2
      <4>2. v # w
        BY <4>1
      <4>3. worker'[v] = worker[v] /\ Current(v)' = Current(v)
        BY <1>1, <1>3, <4>2 DEF Current
      <4> QED
        BY <4>1, <4>3
    <3> QED
      BY <3>1, <3>2 DEF Running, Contents
  <2> QED
    BY <1>1, <2>3, <2>4, <2>5, <2>6 DEF Contents
<1> QED
  BY <1>8, <1>10, <1>11, <1>13, <1>14, <1>15 DEF Running

(* A goroutine that overshot cancels the search.                           *)
LEMMA CancelInv ==
  ASSUME TypeOK, Running, NEW w \in Worker, Cancel(w)
  PROVE  TypeOK' /\ Running'
<1>1. /\ worker[w].pc = "cancel"
      /\ cancelled' = TRUE
      /\ worker' = [worker EXCEPT ![w].pc = "undo"]
      /\ UNCHANGED <<nextStartClusterIndex, search, toProcess, feasibleClustersLen,
                     feasibleClusters, verdict, errCh, stopped, result>>
  BY DEF Cancel, Goto, found
<1>2. /\ worker' \in [Worker -> Workers]
      /\ \A v \in Worker : v # w => worker'[v] = worker[v]
      /\ worker'[w].pc = "undo" /\ worker'[w].piece = worker[w].piece
      /\ worker'[w].end = worker[w].end
  BY <1>1 DEF TypeOK, Workers, Steps
<1>3. TypeOK'
  BY <1>1, <1>2 DEF TypeOK
<1>4. Chunks'
  BY <1>1, <1>2, WorkerFacts DEF Running, Chunks, Busy
<1>5. Ahead'
  BY <1>1, <1>2, WorkerFacts DEF Running, Ahead, Busy, FirstLeft
<1>6. Over' = Over /\ w \in Over
  BY <1>1, <1>2 DEF Over
<1>7. Counted'
  BY <1>1, <1>6 DEF Running, Counted
<1>8. feasibleClustersLen >= search.want
  BY <1>6, WorkerFacts DEF Running, Counted, TypeOK
<1>9. Causes'
  BY <1>1, <1>2, <1>8 DEF Running, Causes, Current
<1>10. Places'
  BY <1>1, <1>2 DEF Running, Places
<1>11. Contents'
  BY <1>1, <1>2 DEF Running, Contents, Current
<1> QED
  BY <1>3, <1>4, <1>5, <1>7, <1>9, <1>10, <1>11 DEF Running

(* It takes back what it added.                                            *)
LEMMA UndoInv ==
  ASSUME TypeOK, Running, NEW w \in Worker, UndoAdd(w)
  PROVE  TypeOK' /\ Running'
<1>1. /\ worker[w].pc = "undo"
      /\ feasibleClustersLen' = feasibleClustersLen - 1
      /\ worker' = [worker EXCEPT ![w] = NextOf(w)]
      /\ UNCHANGED <<nextStartClusterIndex, search, toProcess, feasibleClusters, verdict,
                     errCh, cancelled, stopped, result>>
  BY DEF UndoAdd, signals
<1>2. Busy(w)
  BY <1>1 DEF Busy
<1>3. /\ worker' \in [Worker -> Workers]
      /\ \A v \in Worker : v # w => worker'[v] = worker[v]
      /\ worker'[w].pc = "next"
  BY <1>1, <1>2, NextOfFacts
<1>4. Over' = Over \ {w} /\ w \in Over
  BY <1>1, <1>3 DEF Over
<1>5. IsFiniteSet(Over)
  BY WorkerAssumption, FS_Subset DEF Over
<1>6. Cardinality(Over') = Cardinality(Over) - 1 /\ Cardinality(Over) \in Nat
      /\ Cardinality(Over') \in Nat
  BY <1>4, <1>5, FS_RemoveElement, FS_CardinalityType
<1>7. feasibleClustersLen = search.want + Cardinality(Over)
  BY <1>4, WorkerFacts DEF Running, Counted, TypeOK
<1>8. feasibleClustersLen' \in Nat /\ feasibleClustersLen' = search.want + Cardinality(Over')
      /\ feasibleClustersLen' >= search.want
  BY <1>1, <1>6, <1>7, WorkerFacts, SizeAssumption
<1>9. TypeOK'
  BY <1>1, <1>3, <1>8 DEF TypeOK
<1>10. Chunks' /\ Ahead'
  BY <1>1, <1>2, MoveOn
<1>11. Causes'
  BY <1>1, <1>3, <1>8 DEF Running, Causes, Current
<1>12. Counted'
  BY <1>1, <1>8, WorkerFacts DEF Counted
<1>13. Places'
  <2>1. \A k \in 1..search.want : k <= feasibleClustersLen' /\ k <= feasibleClustersLen
    BY <1>7, <1>6, <1>8, WorkerFacts, SizeAssumption
  <2>2. \A v \in Worker : worker'[v].pc = "store" \/ worker[v].pc = "store" =>
          worker'[v] = worker[v]
    BY <1>1, <1>3
  <2> QED
    BY <1>1, <2>1, <2>2 DEF Running, Places
<1>14. Contents'
  BY <1>1, <1>3, <1>8 DEF Running, Contents, Current
<1> QED
  BY <1>9, <1>10, <1>11, <1>12, <1>13, <1>14 DEF Running

(* A goroutine whose filter failed puts the error into the channel.        *)
LEMMA FailInv ==
  ASSUME TypeOK, Running, NEW w \in Worker, SendErrorWithCancel(w)
  PROVE  TypeOK' /\ Running'
<1>1. /\ worker[w].pc = "fail"
      /\ errCh' = TRUE /\ cancelled' = TRUE
      /\ worker' = [worker EXCEPT ![w] = NextOf(w)]
      /\ UNCHANGED <<nextStartClusterIndex, search, toProcess, feasibleClustersLen,
                     feasibleClusters, verdict, stopped, result>>
  BY DEF SendErrorWithCancel, SendError, found
<1>2. Busy(w)
  BY <1>1 DEF Busy
<1>3. /\ worker' \in [Worker -> Workers]
      /\ \A v \in Worker : v # w => worker'[v] = worker[v]
      /\ worker'[w].pc = "next"
  BY <1>1, <1>2, NextOfFacts
<1>4. TypeOK'
  BY <1>1, <1>3 DEF TypeOK
<1>5. Chunks' /\ Ahead'
  BY <1>1, <1>2, MoveOn
<1>6. Causes'
  BY <1>1 DEF Causes
<1>7. Over' = Over
  BY <1>1, <1>3 DEF Over
<1>8. Counted'
  BY <1>1, <1>7 DEF Running, Counted
<1>9. Places'
  BY <1>1, <1>3 DEF Running, Places
<1>10. Contents'
  BY <1>1, <1>3 DEF Running, Contents, Current
<1> QED
  BY <1>4, <1>5, <1>6, <1>8, <1>9, <1>10 DEF Running

(* The scheduler is stopped.                                               *)
LEMMA ShutdownInv ==
  ASSUME TypeOK, Running, Shutdown
  PROVE  TypeOK' /\ Running'
<1>1. /\ stopped' = TRUE /\ cancelled' = TRUE
      /\ UNCHANGED <<nextStartClusterIndex, search, toProcess, worker, feasibleClustersLen,
                     feasibleClusters, verdict, errCh, result>>
  BY DEF Shutdown, found
<1>2. TypeOK'
  BY <1>1 DEF TypeOK
<1>3. Chunks'
  BY <1>1 DEF Running, Chunks, Busy
<1>4. Ahead'
  BY <1>1 DEF Running, Ahead, Busy, FirstLeft
<1>5. Causes'
  BY <1>1 DEF Running, Causes, Current
<1>6. Counted'
  BY <1>1 DEF Running, Counted, Over
<1>7. Places'
  BY <1>1 DEF Running, Places
<1>8. Contents'
  BY <1>1 DEF Running, Contents, Current
<1> QED
  BY <1>2, <1>3, <1>4, <1>5, <1>6, <1>7, <1>8 DEF Running

(* The piece that a goroutine examines is no longer unknown, nobody else's *)
(* is touched, and no examined cluster changes.                            *)
LEMMA ExamineFacts ==
  ASSUME TypeOK, Running, NEW w \in Worker, NEW v \in {"fit", "unfit", "error"},
         FilterCluster(w, v)
  PROVE  /\ worker[w].pc = "filter" /\ Busy(w)
         /\ Current(w) \in 0..(search.n - 1)
         /\ verdict[Current(w)] = "unknown"
         /\ verdict' \in [0..(search.n - 1) -> Verdict]
         /\ verdict'[Current(w)] = v
         /\ \A c \in 0..(search.n - 1) : c # Current(w) => verdict'[c] = verdict[c]
         /\ UNCHANGED <<nextStartClusterIndex, search, toProcess, feasibleClusters,
                        errCh, cancelled, stopped, result>>
<1>1. /\ worker[w].pc = "filter"
      /\ verdict' = [verdict EXCEPT ![Current(w)] = v]
      /\ UNCHANGED <<nextStartClusterIndex, search, toProcess, feasibleClusters,
                     errCh, cancelled, stopped, result>>
  BY DEF FilterCluster, Current, signals
<1>2. Busy(w)
  BY <1>1 DEF Busy
<1>3. Current(w) \in 0..(search.n - 1)
  BY <1>1, <1>2, CurrentFacts
<1>4. verdict[Current(w)] = "unknown"
  <2>1. worker[w].piece \in FirstLeft(w)..(worker[w].end - 1)
    BY <1>1, <1>2, WorkerFacts DEF Running, Chunks, FirstLeft
  <2> QED
    BY <1>2, <2>1 DEF Running, Ahead, Current
<1> QED
  BY <1>1, <1>2, <1>3, <1>4 DEF TypeOK, Verdict

(* After an examination the chunks are still disjoint, and exactly the     *)
(* piece examined has left the unknown part.                               *)
LEMMA ExamineKeeps ==
  ASSUME TypeOK, Running, NEW w \in Worker, NEW v \in {"fit", "unfit", "error"},
         FilterCluster(w, v),
         \A u \in Worker : u # w => worker'[u] = worker[u],
         worker'[w].end = worker[w].end,
         \/ worker'[w].pc = "next" /\ worker'[w].piece = worker[w].piece + 1
         \/ /\ worker'[w].pc \in {"store", "cancel", "undo", "fail"}
            /\ worker'[w].piece = worker[w].piece
  PROVE  Chunks' /\ Ahead'
<1>1. /\ worker[w].pc = "filter" /\ Busy(w)
      /\ \A c \in 0..(search.n - 1) : c # Current(w) => verdict'[c] = verdict[c]
      /\ verdict'[Current(w)] # "unknown"
      /\ UNCHANGED <<search, toProcess, cancelled>>
  BY ExamineFacts
<1>2. /\ toProcess \in Nat /\ search.n \in Nat /\ search \in Searches
      /\ worker[w].piece \in Nat /\ worker[w].end \in Nat
      /\ worker[w].piece < worker[w].end /\ worker[w].end <= toProcess /\ toProcess <= search.n
  BY <1>1, WorkerFacts, SizeAssumption DEF TypeOK, Running, Chunks
<1>3. Chunks'
  BY <1>1, <1>2, WorkerFacts DEF Running, Chunks, Busy
<1>4. FirstLeft(w)' = worker[w].piece + 1 /\ FirstLeft(w) = worker[w].piece /\ Busy(w)'
      /\ worker'[w].pc # "exit"
  BY <1>1 DEF FirstLeft, Busy
<1>5. \A u \in Worker : u # w => (FirstLeft(u)' = FirstLeft(u) /\ (Busy(u)' <=> Busy(u)))
  BY DEF FirstLeft, Busy
<1>6. \A i \in 0..(search.n - 1) : i # worker[w].piece =>
        verdict'[ClusterAt(search, i)] = verdict[ClusterAt(search, i)]
  BY <1>1, <1>2, ClusterFacts DEF Current
<1>7. verdict'[ClusterAt(search, worker[w].piece)] # "unknown"
  BY <1>1 DEF Current
<1>8. \A i \in toProcess..(search.n - 1) : verdict'[ClusterAt(search, i)] = "unknown"
  BY <1>2, <1>6 DEF Running, Ahead
<1>9. \A u \in Worker : Busy(u)' =>
        \A i \in FirstLeft(u)'..(worker'[u].end - 1) : verdict'[ClusterAt(search, i)] = "unknown"
  <2>1. \A i \in (worker[w].piece + 1)..(worker[w].end - 1) : verdict[ClusterAt(search, i)] = "unknown"
    BY <1>1, <1>2, <1>4 DEF Running, Ahead
  <2>2. \A i \in (worker[w].piece + 1)..(worker[w].end - 1) : verdict'[ClusterAt(search, i)] = "unknown"
    BY <1>2, <1>6, <2>1
  <2>3. ASSUME NEW u \in Worker, u # w, Busy(u), NEW i \in FirstLeft(u)..(worker[u].end - 1)
        PROVE  verdict'[ClusterAt(search, i)] = "unknown"
    <3>1. /\ worker[u].piece \in Nat /\ worker[u].end \in Nat /\ worker[u].end <= toProcess
          /\ worker[u].end <= worker[w].piece \/ worker[w].end <= worker[u].piece
      BY <1>1, <2>3, WorkerFacts DEF Running, Chunks
    <3>2. FirstLeft(u) \in Nat /\ FirstLeft(u) >= worker[u].piece
      BY <3>1 DEF FirstLeft
    <3>3. i \in 0..(search.n - 1) /\ i # worker[w].piece
      BY <1>2, <3>1, <3>2
    <3> QED
      BY <1>6, <2>3, <3>3 DEF Running, Ahead
  <2> QED
    BY <1>4, <1>5, <2>2, <2>3
<1>10. \A i \in 0..(toProcess - 1) :
         verdict'[ClusterAt(search, i)] = "unknown" =>
           cancelled \/ \E u \in Worker : Busy(u)' /\ i \in FirstLeft(u)'..(worker'[u].end - 1)
  <2> SUFFICES ASSUME NEW i \in 0..(toProcess - 1), verdict'[ClusterAt(search, i)] = "unknown",
                      ~cancelled
               PROVE  \E u \in Worker : Busy(u)' /\ i \in FirstLeft(u)'..(worker'[u].end - 1)
    OBVIOUS
  <2>1. i # worker[w].piece /\ verdict[ClusterAt(search, i)] = "unknown"
    BY <1>2, <1>6, <1>7
  <2>2. PICK u \in Worker : Busy(u) /\ i \in FirstLeft(u)..(worker[u].end - 1)
    BY <2>1 DEF Running, Ahead
  <2>3. CASE u = w
    BY <1>2, <1>4, <2>1, <2>2, <2>3
  <2>4. CASE u # w
    BY <1>5, <2>2, <2>4
  <2> QED
    BY <2>3, <2>4
<1>11. \A u \in Worker : worker'[u].pc = "exit" => cancelled \/ toProcess = search.n
  BY <1>4 DEF Running, Ahead
<1>12. Ahead'
  BY <1>1, <1>8, <1>9, <1>10, <1>11 DEF Ahead
<1> QED
  BY <1>3, <1>12

(* A cluster that does not fit, or whose filter fails, takes no place.     *)
LEMMA RejectInv ==
  ASSUME TypeOK, Running, NEW w \in Worker, NEW v \in {"unfit", "error"}, FilterCluster(w, v)
  PROVE  TypeOK' /\ Running'
<1>1. /\ worker[w].pc = "filter" /\ Busy(w)
      /\ Current(w) \in 0..(search.n - 1)
      /\ verdict[Current(w)] = "unknown"
      /\ verdict' \in [0..(search.n - 1) -> Verdict]
      /\ verdict'[Current(w)] = v
      /\ \A c \in 0..(search.n - 1) : c # Current(w) => verdict'[c] = verdict[c]
      /\ UNCHANGED <<nextStartClusterIndex, search, toProcess, feasibleClusters,
                     errCh, cancelled, stopped, result>>
  BY ExamineFacts
<1>2. /\ feasibleClustersLen' = feasibleClustersLen
      /\ \/ v = "unfit" /\ worker' = [worker EXCEPT ![w] = NextOf(w)]
         \/ v = "error" /\ worker' = [worker EXCEPT ![w].pc = "fail"]
  BY DEF FilterCluster, Goto
<1>3. /\ worker' \in [Worker -> Workers]
      /\ \A u \in Worker : u # w => worker'[u] = worker[u]
      /\ worker'[w].end = worker[w].end
      /\ \/ v = "unfit" /\ worker'[w].pc = "next" /\ worker'[w].piece = worker[w].piece + 1
         \/ v = "error" /\ worker'[w].pc = "fail" /\ worker'[w].piece = worker[w].piece
  <2>1. CASE v = "unfit"
    BY <1>1, <1>2, <2>1, NextOfFacts
  <2>2. CASE v = "error"
    <3>1. worker \in [Worker -> Workers] /\ worker[w] \in Workers
      BY DEF TypeOK
    <3>2. worker' = [worker EXCEPT ![w].pc = "fail"]
      BY <1>2, <2>2
    <3> QED
      BY <2>2, <3>1, <3>2 DEF Workers, Steps
  <2> QED
    BY <2>1, <2>2
<1>4. TypeOK'
  BY <1>1, <1>2, <1>3 DEF TypeOK
<1>5. Chunks' /\ Ahead'
  BY <1>3, ExamineKeeps
<1>6. Over' = Over
  BY <1>1, <1>3 DEF Over
<1>7. Counted'
  BY <1>1, <1>2, <1>6 DEF Running, Counted
<1>8. Causes'
  <2>1. \A u \in Worker : worker[u].pc = "fail" => worker'[u] = worker[u]
    BY <1>1, <1>3
  <2>2. v = "error" => worker'[w].pc = "fail" /\ Current(w)' = Current(w)
    BY <1>1, <1>3 DEF Current
  <2> QED
    BY <1>1, <1>2, <2>1, <2>2 DEF Running, Causes, Current
<1>9. Places'
  BY <1>1, <1>2, <1>3 DEF Running, Places
<1>10. Contents'
  <2>1. \A u \in Worker : worker'[u].pc = "store" \/ worker[u].pc = "store" =>
          u # w /\ worker'[u] = worker[u] /\ Current(u)' = Current(u)
    BY <1>1, <1>3 DEF Current
  <2>2. \A u \in Worker : worker[u].pc = "store" => Current(u) \in 0..(search.n - 1)
    BY CurrentFacts DEF Busy
  <2>3. \A c \in 0..(search.n - 1) : verdict'[c] = "fit" <=> verdict[c] = "fit"
    BY <1>1
  <2> QED
    BY <1>1, <1>2, <2>1, <2>2, <2>3 DEF Running, Contents
<1> QED
  BY <1>4, <1>5, <1>7, <1>8, <1>9, <1>10 DEF Running

(* A cluster that fits is counted: it gets the next place, or it is one    *)
(* too many.                                                               *)
LEMMA FitInv ==
  ASSUME TypeOK, Running, NEW w \in Worker, FilterCluster(w, "fit")
  PROVE  TypeOK' /\ Running'
<1>1. /\ worker[w].pc = "filter" /\ Busy(w)
      /\ Current(w) \in 0..(search.n - 1)
      /\ verdict[Current(w)] = "unknown"
      /\ verdict' \in [0..(search.n - 1) -> Verdict]
      /\ verdict'[Current(w)] = "fit"
      /\ \A c \in 0..(search.n - 1) : c # Current(w) => verdict'[c] = verdict[c]
      /\ UNCHANGED <<nextStartClusterIndex, search, toProcess, feasibleClusters,
                     errCh, cancelled, stopped, result>>
  BY ExamineFacts
<1>2. /\ feasibleClustersLen' = feasibleClustersLen + 1
      /\ worker' = [worker EXCEPT ![w] =
           IF TooMany(feasibleClustersLen') THEN At(w, "cancel", 0)
           ELSE At(w, "store", feasibleClustersLen')]
  BY DEF FilterCluster
<1>3. /\ feasibleClustersLen \in Nat /\ search.want \in Nat \ {0} /\ search.want <= MaxClusters
      /\ search.n \in Nat /\ MaxClusters \in Nat /\ search' = search
  BY <1>1, WorkerFacts, SizeAssumption DEF TypeOK
<1>4. TooMany(feasibleClustersLen') <=> feasibleClustersLen >= search.want
  BY <1>2, <1>3 DEF TooMany
<1>5. /\ worker' \in [Worker -> Workers]
      /\ \A u \in Worker : u # w => worker'[u] = worker[u]
      /\ worker'[w].end = worker[w].end /\ worker'[w].piece = worker[w].piece
      /\ feasibleClustersLen >= search.want => worker'[w].pc = "cancel"
      /\ feasibleClustersLen < search.want =>
           worker'[w].pc = "store" /\ worker'[w].slot = feasibleClustersLen + 1
  <2>1. CASE feasibleClustersLen >= search.want
    <3>1. worker' = [worker EXCEPT ![w] = At(w, "cancel", 0)]
      BY <1>2, <1>4, <2>1
    <3>2. At(w, "cancel", 0) \in Workers
      BY <1>3 DEF TypeOK, At, Workers, Steps
    <3> QED
      BY <1>3, <2>1, <3>1, <3>2 DEF TypeOK, At
  <2>2. CASE feasibleClustersLen < search.want
    <3>0. ~TooMany(feasibleClustersLen')
      BY <1>3, <1>4, <2>2
    <3>1. worker' = [worker EXCEPT ![w] = At(w, "store", feasibleClustersLen + 1)]
      <4>1. worker' = [worker EXCEPT ![w] = At(w, "store", feasibleClustersLen')]
        BY <1>2, <3>0, Zenon
      <4> QED
        BY <1>2, <4>1, Zenon
    <3>2. At(w, "store", feasibleClustersLen + 1) \in Workers
      BY <1>3, <2>2 DEF TypeOK, At, Workers, Steps
    <3> QED
      BY <1>3, <2>2, <3>1, <3>2 DEF TypeOK, At
  <2> QED
    BY <1>3, <2>1, <2>2
<1>6. TypeOK'
  BY <1>1, <1>2, <1>3, <1>5 DEF TypeOK
<1>7. Chunks' /\ Ahead'
  BY <1>3, <1>5, ExamineKeeps
<1>8. Causes'
  <2>1. cancelled' => stopped' \/ errCh' \/ feasibleClustersLen' >= search'.want
    BY <1>1, <1>2, <1>3 DEF Running, Causes
  <2>2. \A u \in Worker : worker[u].pc = "fail" => worker'[u] = worker[u] /\ Current(u)' = Current(u)
    BY <1>1, <1>5 DEF Current
  <2>3. \A c \in 0..(search.n - 1) : verdict'[c] = "error" =>
          errCh' \/ \E u \in Worker : worker'[u].pc = "fail" /\ Current(u)' = c
    BY <1>1, <2>2 DEF Running, Causes
  <2> QED
    BY <1>3, <2>1, <2>3 DEF Causes
<1>9. /\ \A u \in Worker : worker[u].pc = "store" => u # w /\ worker'[u] = worker[u]
      /\ \A u \in Worker : u # w => worker'[u] = worker[u] /\ Current(u)' = Current(u)
      /\ Current(w)' = Current(w)
  BY <1>1, <1>5 DEF Current
<1>10. \A k \in 1..search.want : feasibleClusters[k] # Current(w)
  <2>1. Current(w) # None
    BY <1>1, <1>3, NoneAssumption
  <2> QED
    BY <1>1, <2>1 DEF Running, Contents
<1>11. CASE feasibleClustersLen >= search.want
  <2>1. Over' = Over \cup {w} /\ w \notin Over
    BY <1>1, <1>5, <1>11 DEF Over
  <2>2. IsFiniteSet(Over)
    BY WorkerAssumption, FS_Subset DEF Over
  <2>3. Cardinality(Over') = Cardinality(Over) + 1 /\ Cardinality(Over) \in Nat
    BY <2>1, <2>2, FS_AddElement, FS_CardinalityType
  <2>4. Counted'
    BY <1>2, <1>3, <1>11, <2>3 DEF Running, Counted
  <2>5. \A u \in Worker : worker'[u].pc = "store" => u # w /\ worker[u].pc = "store"
    BY <1>5, <1>11
  <2>6. \A k \in 1..search.want : k <= feasibleClustersLen /\ k <= feasibleClustersLen'
    BY <1>2, <1>3, <1>11
  <2>7. Places'
    BY <1>1, <1>9, <2>5, <2>6 DEF Running, Places
  <2>8. Contents'
    <3>1. \A u \in Worker : worker[u].pc = "store" => Current(u) \in 0..(search.n - 1)
      BY CurrentFacts DEF Busy
    <3>2. \A c \in 0..(search.n - 1) : verdict[c] = "fit" => verdict'[c] = "fit"
      BY <1>1
    <3>3. feasibleClustersLen' >= search.want
      BY <1>2, <1>3, <1>11
    <3> QED
      BY <1>1, <1>9, <2>5, <3>1, <3>2, <3>3 DEF Running, Contents
  <2> QED
    BY <1>6, <1>7, <1>8, <2>4, <2>7, <2>8 DEF Running
<1>12. CASE feasibleClustersLen < search.want
  <2>1. Over' = {}
    BY <1>5, <1>12 DEF Running, Counted, Over
  <2>2. Counted'
    BY <1>2, <1>3, <1>12, <2>1, FS_EmptySet DEF Counted
  <2>3. \A u \in Worker : worker'[u].pc = "store" => u = w \/ worker[u].pc = "store"
    BY <1>5
  <2>4. /\ worker'[w].pc = "store" /\ worker'[w].slot = feasibleClustersLen + 1
        /\ feasibleClustersLen + 1 \in 1..search.want
        /\ feasibleClusters[feasibleClustersLen + 1] = None
    BY <1>3, <1>5, <1>12 DEF Running, Places
  <2>5. Places'
    <3>1. \A k \in 1..search.want :
            k <= feasibleClustersLen' <=> (k <= feasibleClustersLen \/ k = feasibleClustersLen + 1)
      BY <1>2, <1>3
    <3>2. \A k \in 1..search.want : feasibleClusters[k] # None => k <= feasibleClustersLen'
      BY <3>1 DEF Running, Places
    <3>3. \A k \in 1..search.want : k <= feasibleClustersLen' =>
            \/ feasibleClusters[k] # None
            \/ \E u \in Worker : worker'[u].pc = "store" /\ worker'[u].slot = k
      <4> SUFFICES ASSUME NEW k \in 1..search.want, k <= feasibleClustersLen', feasibleClusters[k] = None
                   PROVE  \E u \in Worker : worker'[u].pc = "store" /\ worker'[u].slot = k
        OBVIOUS
      <4>1. CASE k = feasibleClustersLen + 1
        BY <2>4, <4>1
      <4>2. CASE k <= feasibleClustersLen
        <5>1. PICK u \in Worker : worker[u].pc = "store" /\ worker[u].slot = k
          BY <4>2 DEF Running, Places
        <5> QED
          BY <1>9, <5>1
      <4> QED
        BY <3>1, <4>1, <4>2
    <3>4. \A u \in Worker : worker[u].pc = "store" =>
            /\ worker[u].slot \in 1..search.want /\ worker[u].slot <= feasibleClustersLen
            /\ feasibleClusters[worker[u].slot] = None
      BY DEF Running, Places
    <3>5. \A u \in Worker : worker'[u].pc = "store" =>
            /\ worker'[u].slot \in 1..search.want /\ worker'[u].slot <= feasibleClustersLen'
            /\ feasibleClusters[worker'[u].slot] = None
      BY <1>9, <2>3, <2>4, <3>1, <3>4
    <3>6. \A t, u \in Worker : worker'[t].pc = "store" /\ worker'[u].pc = "store"
            /\ worker'[t].slot = worker'[u].slot => t = u
      <4>1. \A u \in Worker : worker[u].pc = "store" => worker[u].slot # feasibleClustersLen + 1
        BY <1>3, <3>4
      <4> QED
        BY <1>9, <2>3, <2>4, <4>1 DEF Running, Places
    <3> QED
      BY <1>1, <3>2, <3>3, <3>5, <3>6 DEF Places
  <2>6. Contents'
    <3>1. \A u \in Worker : worker[u].pc = "store" => Current(u) \in 0..(search.n - 1)
      BY CurrentFacts DEF Busy
    <3>2. \A c \in 0..(search.n - 1) : verdict[c] = "fit" => verdict'[c] = "fit"
      BY <1>1
    <3>3. \A c \in 0..(search.n - 1) : verdict'[c] = "fit" => c = Current(w) \/ verdict[c] = "fit"
      BY <1>1
    <3>4. \A u \in Worker : worker'[u].pc = "store" =>
            /\ verdict'[Current(u)'] = "fit"
            /\ \A k \in 1..search.want : feasibleClusters[k] # Current(u)'
      BY <1>1, <1>9, <1>10, <2>3, <3>1, <3>2 DEF Running, Contents
    <3>5. \A c \in 0..(search.n - 1) : verdict'[c] = "fit" =>
            \/ feasibleClustersLen' >= search.want
            \/ \E k \in 1..search.want : feasibleClusters[k] = c
            \/ \E u \in Worker : worker'[u].pc = "store" /\ Current(u)' = c
      <4> SUFFICES ASSUME NEW c \in 0..(search.n - 1), verdict'[c] = "fit"
                   PROVE  \/ \E k \in 1..search.want : feasibleClusters[k] = c
                          \/ \E u \in Worker : worker'[u].pc = "store" /\ Current(u)' = c
        OBVIOUS
      <4>1. CASE c = Current(w)
        BY <1>9, <2>4, <4>1
      <4>2. CASE verdict[c] = "fit"
        BY <1>3, <1>9, <1>12, <4>2 DEF Running, Contents
      <4> QED
        BY <3>3, <4>1, <4>2
    <3> QED
      BY <1>1, <3>2, <3>4, <3>5 DEF Running, Contents
  <2> QED
    BY <1>6, <1>7, <1>8, <2>2, <2>5, <2>6 DEF Running
<1> QED
  BY <1>3, <1>11, <1>12

(* A new search: every goroutine is before its first chunk.                *)
LEMMA StartInv ==
  ASSUME TypeOK, NEW n \in 1..MaxClusters, NEW strategy \in Strategy, StartSearch(n, strategy)
  PROVE  TypeOK' /\ Running'
<1> DEFINE want == numFeasibleClustersToFind(n, strategy)
<1>1. want \in 1..n /\ want \in Nat /\ n \in Nat /\ n <= MaxClusters /\ MaxClusters \in Nat
  BY WantFacts, SizeAssumption
<1>2. /\ search' = [stage |-> "run", n |-> n, want |-> want, from |-> nextStartClusterIndex]
      /\ toProcess' = 0
      /\ worker' = [v \in Worker |-> [Exited EXCEPT !.pc = "take"]]
      /\ feasibleClustersLen' = 0
      /\ feasibleClusters' = [k \in 1..search'.want |-> None]
      /\ verdict' = [c \in 0..(n - 1) |-> "unknown"]
      /\ errCh' = FALSE /\ cancelled' = FALSE
      /\ result' = <<>>
      /\ UNCHANGED <<nextStartClusterIndex, stopped>>
  BY DEF StartSearch, NewSearch
<1> HIDE DEF want
<1>3. search' \in Searches /\ search'.n = n /\ search'.want = want
  BY <1>1, <1>2 DEF TypeOK, Searches
<1>4. /\ worker' \in [Worker -> Workers]
      /\ \A v \in Worker : worker'[v].pc = "take"
  BY <1>1, <1>2 DEF Exited, Workers, Steps
<1>5. TypeOK'
  <2>1. feasibleClusters' \in [1..search'.want -> Index \cup {None}]
    BY <1>2
  <2>2. verdict' \in [0..(search'.n - 1) -> Verdict]
    BY <1>2, <1>3 DEF Verdict
  <2>3. result' \in Seq(Index \cup {None})
    BY <1>2
  <2>4. toProcess' \in 0..MaxClusters /\ feasibleClustersLen' \in Nat
    BY <1>1, <1>2
  <2>5. nextStartClusterIndex' \in Index /\ errCh' \in BOOLEAN /\ cancelled' \in BOOLEAN
        /\ stopped' \in BOOLEAN
    BY <1>2 DEF TypeOK
  <2> QED
    BY <1>2, <1>3, <1>4, <2>1, <2>2, <2>3, <2>4, <2>5 DEF TypeOK
<1>6. Chunks'
  BY <1>1, <1>2, <1>3, <1>4 DEF Chunks, Busy
<1>7. Ahead'
  <2>1. \A i \in 0..(search'.n - 1) : verdict'[ClusterAt(search', i)] = "unknown"
    BY <1>2, <1>3, ClusterFacts
  <2>2. \A i \in 0..(toProcess' - 1) : FALSE
    BY <1>2
  <2> QED
    BY <1>2, <1>4, <2>1, <2>2 DEF Ahead, Busy
<1>8. Causes'
  BY <1>1, <1>2, <1>3 DEF Causes
<1>9. Over' = {}
  BY <1>4 DEF Over
<1>10. Counted'
  BY <1>1, <1>2, <1>3, <1>9 DEF Counted
<1>11. \A k \in 1..search'.want : feasibleClusters'[k] = None /\ ~(k <= feasibleClustersLen')
  BY <1>1, <1>2, <1>3
<1>12. Places'
  BY <1>4, <1>11 DEF Places
<1>13. Contents'
  BY <1>1, <1>2, <1>3, <1>4 DEF Contents
<1> QED
  BY <1>5, <1>6, <1>7, <1>8, <1>10, <1>12, <1>13 DEF Running

(* Without filter plugins the answer is a window of the list: it holds no  *)
(* cluster twice because it is not longer than the list.                   *)
LEMMA TakeAllInv ==
  ASSUME TypeOK, NEW n \in 1..MaxClusters, NEW strategy \in Strategy, TakeAll(n, strategy)
  PROVE  TypeOK' /\ SearchComplete' /\ search'.stage = "done"
<1> DEFINE want == numFeasibleClustersToFind(n, strategy)
<1>1. /\ want \in 1..n /\ want \in Nat /\ n \in Nat \ {0} /\ n <= MaxClusters /\ MaxClusters \in Nat
      /\ nextStartClusterIndex \in Nat
  BY WantFacts, SizeAssumption DEF TypeOK, Index
<1>2. /\ search' = [stage |-> "done", n |-> n, want |-> want, from |-> nextStartClusterIndex]
      /\ toProcess' = 0
      /\ worker' = [v \in Worker |-> Exited]
      /\ feasibleClustersLen' = search'.want
      /\ feasibleClusters' = [k \in 1..search'.want |-> ClusterAt(search', k - 1)]
      /\ verdict' = [c \in 0..(n - 1) |-> "fit"]
      /\ errCh' = FALSE /\ cancelled' = FALSE
      /\ result' = feasibleClusters'
      /\ nextStartClusterIndex' = (nextStartClusterIndex + search'.want) % n
      /\ UNCHANGED stopped
  BY DEF TakeAll, NewSearch
<1> HIDE DEF want
<1>3. search' \in Searches /\ search'.n = n /\ search'.want = want /\ search'.stage = "done"
  BY <1>1, <1>2 DEF TypeOK, Searches
<1>4. \A k \in 1..want : /\ ClusterAt(search', k - 1) \in 0..(n - 1)
                        /\ ClusterAt(search', k - 1) \in Index
                        /\ ClusterAt(search', k - 1) # None
  <2>1. \A k \in 1..want : k - 1 \in 0..(n - 1)
    BY <1>1
  <2>2. \A k \in 1..want : ClusterAt(search', k - 1) \in 0..(n - 1)
    BY <1>3, <2>1, ClusterFacts
  <2> QED
    BY <1>1, <2>2, NoneAssumption DEF Index
<1>5. feasibleClusters' \in [1..want -> Index \cup {None}]
  BY <1>2, <1>3, <1>4
<1>6. result' \in Seq(Index \cup {None}) /\ Len(result') = want /\ DOMAIN result' = 1..want
  BY <1>1, <1>2, <1>5
<1>7. TypeOK'
  <2>1. nextStartClusterIndex' \in Index
    <3>1. nextStartClusterIndex + want \in Nat
      BY <1>1
    <3>2. (nextStartClusterIndex + want) % n \in 0..(n - 1)
      BY <1>1, <3>1, DivMod
    <3> QED
      BY <1>1, <1>2, <1>3, <3>2 DEF Index
  <2>2. worker' \in [Worker -> Workers]
    BY <1>1, <1>2 DEF Exited, Workers, Steps
  <2>3. verdict' \in [0..(search'.n - 1) -> Verdict]
    BY <1>2, <1>3 DEF Verdict
  <2>4. toProcess' \in 0..MaxClusters /\ feasibleClustersLen' \in Nat
    BY <1>1, <1>2, <1>3
  <2>5. errCh' \in BOOLEAN /\ cancelled' \in BOOLEAN /\ stopped' \in BOOLEAN
    BY <1>2 DEF TypeOK
  <2> QED
    BY <1>2, <1>3, <1>5, <1>6, <2>1, <2>2, <2>3, <2>4, <2>5 DEF TypeOK
<1>8. SearchComplete'
  <2>1. \A c \in DOMAIN verdict' : verdict'[c] # "error"
    BY <1>2
  <2>2. \A k \in DOMAIN result' : result'[k] # None /\ verdict'[result'[k]] = "fit"
    BY <1>2, <1>3, <1>4, <1>6
  <2>3. \A j, k \in DOMAIN result' : result'[j] = result'[k] => j = k
    <3>1. \A j, k \in 1..want : ClusterAt(search', j - 1) = ClusterAt(search', k - 1) => j - 1 = k - 1
      <4>1. \A k \in 1..want : k - 1 \in 0..(n - 1)
        BY <1>1
      <4> QED
        BY <1>3, <4>1, ClusterFacts
    <3>2. \A j, k \in 1..want : j - 1 = k - 1 => j = k
      BY <1>1
    <3> QED
      BY <1>2, <1>3, <1>6, <3>1, <3>2
  <2>4. Len(result') = search'.want
    BY <1>3, <1>6
  <2> QED
    BY <2>1, <2>2, <2>3, <2>4 DEF SearchComplete
<1> QED
  BY <1>3, <1>7, <1>8

(* All goroutines have left: every place that was counted is filled, and   *)
(* a search that was not cancelled has examined the whole list.            *)
LEMMA FinishInv ==
  ASSUME TypeOK, Running, FinishSearch
  PROVE  TypeOK' /\ SearchComplete' /\ search'.stage # "run"
<1>1. /\ \A w \in Worker : worker[w].pc = "exit"
      /\ nextStartClusterIndex' =
           (nextStartClusterIndex + (feasibleClustersLen + Cardinality(Unfit))) % search.n
      /\ result' = IF errCh THEN <<>> ELSE SubSeq(feasibleClusters, 1, feasibleClustersLen)
      /\ search' = [search EXCEPT !.stage = IF errCh THEN "failed" ELSE "done"]
      /\ errCh' = FALSE
      /\ UNCHANGED <<toProcess, worker, feasibleClustersLen, feasibleClusters, verdict,
                     cancelled, stopped>>
  BY DEF FinishSearch, Advance, found
<1>2. /\ search.n \in Nat \ {0} /\ search.n <= MaxClusters /\ MaxClusters \in Nat
      /\ search.want \in Nat \ {0} /\ feasibleClustersLen \in Nat
      /\ nextStartClusterIndex \in Nat
  BY WorkerFacts, SizeAssumption DEF TypeOK, Index
<1>3. feasibleClustersLen <= search.want
  <2>1. Over = {}
    BY <1>1 DEF Over
  <2>2. Cardinality(Over) = 0
    BY <2>1, FS_EmptySet
  <2> QED
    BY <1>2, <2>2 DEF Running, Counted
<1>4. search' \in Searches /\ search'.n = search.n /\ search'.want = search.want
      /\ (search'.stage = "done" <=> ~errCh) /\ search'.stage # "run"
  BY <1>1 DEF TypeOK, Searches
<1> DEFINE list == SubSeq(feasibleClusters, 1, feasibleClustersLen)
<1>5. /\ list \in Seq(Index \cup {None})
      /\ Len(list) = feasibleClustersLen /\ DOMAIN list = 1..feasibleClustersLen
      /\ \A k \in 1..feasibleClustersLen : list[k] = feasibleClusters[k] /\ k \in 1..search.want
  <2>1. feasibleClusters \in Seq(Index \cup {None}) /\ Len(feasibleClusters) = search.want
    BY <1>2, SeqFacts DEF TypeOK
  <2> QED
    BY <1>2, <1>3, <2>1
<1> HIDE DEF list
<1>6. TypeOK'
  <2>1. nextStartClusterIndex' \in Index
    <3>1. IsFiniteSet(0..(search.n - 1))
      <4>1. 0 \in Int /\ search.n - 1 \in Int
        BY <1>2
      <4> QED
        BY <4>1, FS_Interval
    <3>2. Cardinality(Unfit) \in Nat
      BY <3>1, FS_Subset, FS_CardinalityType DEF Unfit
    <3>3. nextStartClusterIndex + (feasibleClustersLen + Cardinality(Unfit)) \in Nat
      BY <1>2, <3>2
    <3>4. nextStartClusterIndex' \in 0..(search.n - 1)
      BY <1>1, <1>2, <3>3, DivMod
    <3> QED
      BY <1>2, <3>4 DEF Index
  <2>2. result' \in Seq(Index \cup {None})
    <3>1. <<>> \in Seq(Index \cup {None})
      OBVIOUS
    <3>2. result' = IF errCh THEN <<>> ELSE list
      BY <1>1 DEF list
    <3> QED
      BY <1>5, <3>1, <3>2
  <2> QED
    BY <1>1, <1>4, <2>1, <2>2 DEF TypeOK
<1>7. ASSUME search'.stage = "done", ~stopped'
      PROVE  /\ \A c \in DOMAIN verdict' : verdict'[c] # "error"
             /\ \A k \in DOMAIN result' : result'[k] # None /\ verdict'[result'[k]] = "fit"
             /\ \A j, k \in DOMAIN result' : result'[j] = result'[k] => j = k
             /\ \/ Len(result') = search'.want
                \/ \A c \in DOMAIN verdict' :
                     verdict'[c] = "unfit" \/ (verdict'[c] = "fit" /\ c \in Elements(result)')
  <2>1. ~errCh /\ ~stopped /\ result' = list /\ verdict' = verdict
        /\ DOMAIN verdict = 0..(search.n - 1)
    BY <1>1, <1>4, <1>7 DEF TypeOK, list
  <2>2. \A c \in DOMAIN verdict : verdict[c] # "error"
    BY <1>1, <2>1 DEF Running, Causes
  <2>3. \A k \in 1..feasibleClustersLen : feasibleClusters[k] # None
    BY <1>1, <1>5 DEF Running, Places
  <2>4. \A k \in DOMAIN list : list[k] # None /\ verdict[list[k]] = "fit"
    BY <1>5, <2>3 DEF Running, Contents
  <2>5. \A j, k \in DOMAIN list : list[j] = list[k] => j = k
    BY <1>5, <2>3 DEF Running, Contents
  <2>6. ASSUME Len(list) # search.want, NEW c \in 0..(search.n - 1)
        PROVE  verdict[c] = "unfit" \/ (verdict[c] = "fit" /\ c \in Elements(list))
    <3>1. feasibleClustersLen < search.want
      BY <1>2, <1>3, <1>5, <2>6
    <3>2. ~cancelled
      BY <1>2, <2>1, <3>1 DEF Running, Causes
    <3>3. toProcess = search.n
      BY <1>1, <3>2, WorkerAssumption DEF Running, Ahead
    <3>4. PICK i \in 0..(search.n - 1) : ClusterAt(search, i) = c
      BY <2>6, ClusterFacts DEF TypeOK
    <3>5. verdict[c] # "unknown"
      BY <1>1, <3>2, <3>3, <3>4 DEF Running, Ahead, Busy
    <3>6. verdict[c] \in {"fit", "unfit"}
      BY <2>1, <2>2, <2>6, <3>5 DEF TypeOK, Verdict
    <3>7. CASE verdict[c] = "fit"
      <4>1. PICK k \in 1..search.want : feasibleClusters[k] = c
        BY <1>1, <1>2, <2>6, <3>1, <3>7 DEF Running, Contents
      <4>2. c # None
        BY <1>2, NoneAssumption
      <4>3. k \in 1..feasibleClustersLen
        BY <1>2, <4>1, <4>2 DEF Running, Places
      <4>4. k \in DOMAIN list /\ list[k] = c
        BY <1>5, <4>1, <4>3
      <4> QED
        BY <3>7, <4>4 DEF Elements
    <3> QED
      BY <3>6, <3>7
  <2> QED
    BY <1>4, <2>1, <2>2, <2>4, <2>5, <2>6 DEF Elements
<1>8. SearchComplete'
  BY <1>7 DEF SearchComplete
<1> QED
  BY <1>4, <1>6, <1>8

-----------------------------------------------------------------------------
(* The initial state, before any search, satisfies the invariant.          *)
LEMMA InitInv == Init => IndInv
<1> SUFFICES ASSUME Init PROVE IndInv
  OBVIOUS
<1>1. MaxClusters \in Nat \ {0}
  BY SizeAssumption
<1>2. search \in Searches /\ search.n = 1 /\ search.want = 1 /\ search.stage = "failed"
  BY <1>1 DEF Init, Searches, Index
<1>3. worker \in [Worker -> Workers]
  BY <1>1 DEF Init, Exited, Workers, Steps
<1>4. TypeOK
  <2>1. nextStartClusterIndex \in Index /\ toProcess \in 0..MaxClusters
    BY <1>1 DEF Init, Index
  <2>2. feasibleClusters \in [1..search.want -> Index \cup {None}]
    BY <1>2 DEF Init
  <2>3. verdict \in [0..(search.n - 1) -> Verdict]
    BY <1>2 DEF Init, Verdict
  <2>4. result \in Seq(Index \cup {None})
    BY DEF Init
  <2> QED
    BY <1>2, <1>3, <2>1, <2>2, <2>3, <2>4 DEF Init, TypeOK
<1> QED
  BY <1>2, <1>4 DEF IndInv, SearchComplete

(* Every step of a goroutine keeps the invariant of a running search.      *)
LEMMA WorkerStepInv ==
  ASSUME IndInv, NEW w \in Worker, WorkerStep(w)
  PROVE  TypeOK' /\ Running' /\ search' = search /\ search.stage = "run"
<1>1. search.stage = "run" /\ search' = search
  BY DEF WorkerStep, TakeChunk, NextPiece, FilterCluster, StoreCluster, Cancel, UndoAdd,
         SendErrorWithCancel
<1>2. TypeOK /\ Running
  BY <1>1 DEF IndInv
<1>3. CASE TakeChunk(w)
  BY <1>2, <1>3, TakeChunkInv, <1>1
<1>4. CASE NextPiece(w)
  BY <1>2, <1>4, NextPieceInv, <1>1
<1>5. ASSUME NEW v \in {"fit", "unfit", "error"}, FilterCluster(w, v)
      PROVE  TypeOK' /\ Running'
  <2>1. CASE v = "fit"
    BY <1>2, <1>5, <2>1, FitInv
  <2>2. CASE v \in {"unfit", "error"}
    BY <1>2, <1>5, <2>2, RejectInv
  <2> QED
    BY <2>1, <2>2
<1>6. CASE StoreCluster(w)
  BY <1>2, <1>6, StoreInv, <1>1
<1>7. CASE Cancel(w)
  BY <1>2, <1>7, CancelInv, <1>1
<1>8. CASE UndoAdd(w)
  BY <1>2, <1>8, UndoInv, <1>1
<1>9. CASE SendErrorWithCancel(w)
  BY <1>2, <1>9, FailInv, <1>1
<1> QED
  BY <1>1, <1>3, <1>4, <1>5, <1>6, <1>7, <1>8, <1>9 DEF WorkerStep

(* The invariant is inductive.                                             *)
LEMMA NextInv == IndInv /\ [Next]_vars => IndInv'
<1> SUFFICES ASSUME IndInv, [Next]_vars PROVE IndInv'
  OBVIOUS
<1>1. TypeOK
  BY DEF IndInv
<1>2. ASSUME NEW n \in 1..MaxClusters, NEW strategy \in Strategy, StartSearch(n, strategy)
      PROVE  IndInv'
  <2>1. search'.stage = "run"
    BY <1>2 DEF StartSearch, NewSearch
  <2> QED
    BY <1>1, <1>2, <2>1, StartInv DEF IndInv, SearchComplete
<1>3. ASSUME NEW n \in 1..MaxClusters, NEW strategy \in Strategy, TakeAll(n, strategy)
      PROVE  IndInv'
  BY <1>1, <1>3, TakeAllInv DEF IndInv
<1>4. ASSUME NEW w \in Worker, WorkerStep(w)
      PROVE  IndInv'
  BY <1>4, WorkerStepInv DEF IndInv, SearchComplete
<1>5. CASE FinishSearch
  BY <1>1, <1>5, FinishInv DEF IndInv, FinishSearch
<1>6. CASE Shutdown
  <2>1. search.stage = "run" /\ search' = search
    BY <1>6 DEF Shutdown
  <2> QED
    BY <1>1, <1>6, <2>1, ShutdownInv DEF IndInv, SearchComplete
<1>7. CASE UNCHANGED vars
  <2>1. UNCHANGED <<nextStartClusterIndex, search, toProcess, worker, feasibleClustersLen,
                    feasibleClusters, verdict, errCh, cancelled, stopped, result>>
    BY <1>7 DEF vars, found, signals
  <2>2. TypeOK'
    BY <1>1, <2>1 DEF TypeOK
  <2>3. Running' <=> Running
    BY <2>1 DEF Running, Chunks, Ahead, Causes, Counted, Places, Contents, Busy, FirstLeft,
                Current, Over
  <2>4. SearchComplete'
    BY <2>1 DEF IndInv, SearchComplete, Elements
  <2> QED
    BY <2>1, <2>2, <2>3, <2>4 DEF IndInv
<1> QED
  BY <1>2, <1>3, <1>4, <1>5, <1>6, <1>7 DEF Next

(* Type correctness of the parallel search: for any number of goroutines   *)
(* the shared counter never becomes negative, and the index at which the   *)
(* next search starts stays inside the longest list.                       *)
THEOREM FilterTypeCorrect == Spec => []TypeOK
<1>1. IndInv => TypeOK
  BY DEF IndInv
<1> QED
  BY <1>1, InitInv, NextInv, PTL DEF Spec

(* findClustersThatPassFilters is right for any number of goroutines and   *)
(* clusters: its answer has no hole and no cluster twice, is full or       *)
(* complete, and no failed filter is lost.                                 *)
THEOREM FilterComplete == Spec => []SearchComplete
<1>1. IndInv => SearchComplete
  BY DEF IndInv
<1> QED
  BY <1>1, InitInv, NextInv, PTL DEF Spec

-----------------------------------------------------------------------------
(* How many clusters the next search passes over.                          *)

(* The pieces whose clusters are in the diagnosis or have a place.         *)
Done ==
  {i \in 0..(search.n - 1) :
     \/ verdict[ClusterAt(search, i)] = "unfit"
     \/ ClusterAt(search, i) \in Elements(feasibleClusters)}

(* w works on its chunk, which nobody's cancelling has made it give up.    *)
Holds(w) ==
  \/ worker[w].pc \in {"filter", "store", "cancel", "undo", "fail"}
  \/ worker[w].pc = "next" /\ ~cancelled

(* The undone rest lo[w] .. hi[w] - 1 of each goroutine's last chunk: what *)
(* was handed out below top before anybody cancelled is done or in such a  *)
(* rest, and everything done lies below the rest of head, the goroutine    *)
(* that took the latest of these chunks, as do the rests of all others.    *)
Rests(top, head, lo, hi) ==
  /\ top <= toProcess
  /\ ~cancelled => top = toProcess
  /\ \A w \in Worker : /\ lo[w] <= hi[w] /\ hi[w] <= top
                       /\ hi[w] - lo[w] <= chunkSizeFor(search.n)
  /\ \A i \in 0..(top - 1) : i \in Done \/ \E w \in Worker : lo[w] <= i /\ i < hi[w]
  /\ \A i \in Done : i < lo[head]
  /\ \A w \in Worker : w # head => hi[w] <= lo[head]
  /\ \A w \in Worker : Holds(w) => lo[w] = worker[w].piece /\ hi[w] = worker[w].end
  /\ \A w \in Worker : worker[w].pc \in {"take", "exit"} /\ ~cancelled => lo[w] = hi[w]
  /\ \A w \in Worker : worker[w].pc = "undo" => cancelled

(* The invariant of a running search: it started where the last one left   *)
(* off, and the rests exist.                                               *)
Window ==
  /\ nextStartClusterIndex = search.from
  /\ \E top \in Nat, head \in Worker, lo \in [Worker -> Nat], hi \in [Worker -> Nat] :
       Rests(top, head, lo, hi)

(* A step that does nothing about a piece: the goroutines keep their       *)
(* chunks, end them or give them up after a cancellation.                  *)
LEMMA RestsKept ==
  ASSUME TypeOK,
         NEW top \in Nat, NEW head \in Worker, NEW lo \in [Worker -> Nat], NEW hi \in [Worker -> Nat],
         Rests(top, head, lo, hi),
         Done' = Done, search' = search, cancelled => cancelled',
         toProcess' = toProcess \/ (cancelled /\ toProcess' \in Nat /\ toProcess <= toProcess'),
         \A w \in Worker : Holds(w)' =>
           /\ Holds(w)
           /\ worker'[w].piece = worker[w].piece /\ worker'[w].end = worker[w].end,
         \A w \in Worker : worker'[w].pc \in {"take", "exit"} /\ ~cancelled' =>
           \/ worker[w].pc \in {"take", "exit"}
           \/ worker[w].pc = "next" /\ worker[w].piece = worker[w].end,
         \A w \in Worker : worker'[w].pc = "undo" => cancelled'
  PROVE  Rests(top, head, lo, hi)'
<1>1. toProcess \in Nat
  BY DEF TypeOK
<1>2. top <= toProcess' /\ (~cancelled' => top = toProcess')
  BY <1>1 DEF Rests
<1>3. \A w \in Worker : worker'[w].pc \in {"take", "exit"} /\ ~cancelled' => lo[w] = hi[w]
  BY DEF Rests, Holds
<1>4. \A w \in Worker : Holds(w)' => lo[w] = worker'[w].piece /\ hi[w] = worker'[w].end
  BY DEF Rests
<1> QED
  BY <1>2, <1>3, <1>4 DEF Rests

(* The piece a goroutine is at becomes done: its rest is shorter by one.   *)
LEMMA RestsShrink ==
  ASSUME TypeOK, Running,
         NEW top \in Nat, NEW head \in Worker, NEW lo \in [Worker -> Nat], NEW hi \in [Worker -> Nat],
         Rests(top, head, lo, hi),
         NEW w \in Worker, worker[w].pc \in {"filter", "store"},
         Done' = Done \cup {worker[w].piece},
         UNCHANGED <<search, cancelled, toProcess>>,
         worker' = [worker EXCEPT ![w] = NextOf(w)]
  PROVE  Rests(top, head, [lo EXCEPT ![w] = lo[w] + 1], hi)'
<1>1. Busy(w) /\ Holds(w)
  BY DEF Busy, Holds
<1>2. /\ \A v \in Worker : v # w => worker'[v] = worker[v]
      /\ worker'[w].pc = "next" /\ worker'[w].piece = worker[w].piece + 1
      /\ worker'[w].end = worker[w].end
  BY <1>1, NextOfFacts
<1>3. worker[w].piece < worker[w].end
  BY <1>1 DEF Running, Chunks
<1>4. lo[w] = worker[w].piece /\ hi[w] = worker[w].end /\ chunkSizeFor(search.n) \in Nat
  BY <1>1, ChunkFacts, WorkerFacts DEF Rests
<1> DEFINE less == [lo EXCEPT ![w] = lo[w] + 1]
<1>5. less[w] = lo[w] + 1 /\ \A v \in Worker : v # w => less[v] = lo[v]
  OBVIOUS
<1> HIDE DEF less
<1>6. \A v \in Worker : less[v] \in Nat /\ lo[v] \in Nat /\ hi[v] \in Nat /\ lo[v] <= less[v]
  BY <1>5
<1>7. \A v \in Worker : /\ less[v] <= hi[v] /\ hi[v] <= top
                        /\ hi[v] - less[v] <= chunkSizeFor(search.n)
  BY <1>3, <1>4, <1>5, <1>6 DEF Rests
<1>8. \A i \in 0..(top - 1) : i \in Done' \/ \E v \in Worker : less[v] <= i /\ i < hi[v]
  <2> SUFFICES ASSUME NEW i \in 0..(top - 1), i \notin Done'
               PROVE  \E v \in Worker : less[v] <= i /\ i < hi[v]
    OBVIOUS
  <2>1. PICK v \in Worker : lo[v] <= i /\ i < hi[v]
    BY DEF Rests
  <2>2. i # lo[w]
    BY <1>4
  <2> QED
    BY <1>5, <1>6, <2>1, <2>2
<1>9. \A i \in Done' : i < less[head]
  <2>1. Done \subseteq Nat /\ less[head] \in Nat
    BY <1>6, WorkerFacts DEF Done
  <2>2. \A i \in Done : i < less[head]
    BY <1>6, <2>1 DEF Rests
  <2>3. worker[w].piece < less[head]
    BY <1>3, <1>4, <1>5, <1>6 DEF Rests
  <2> QED
    BY <2>2, <2>3
<1>10. \A v \in Worker : v # head => hi[v] <= less[head]
  BY <1>6 DEF Rests
<1>11. \A v \in Worker : Holds(v)' => less[v] = worker'[v].piece /\ hi[v] = worker'[v].end
  BY <1>2, <1>4, <1>5 DEF Rests, Holds
<1>12. \A v \in Worker : worker'[v].pc \in {"take", "exit"} /\ ~cancelled' => less[v] = hi[v]
  BY <1>2, <1>5 DEF Rests
<1>13. \A v \in Worker : worker'[v].pc = "undo" => cancelled'
  BY <1>2 DEF Rests
<1>14. Rests(top, head, less, hi)'
  BY <1>7, <1>8, <1>9, <1>10, <1>11, <1>12, <1>13 DEF Rests
<1> QED
  BY <1>14 DEF less

(* A chunk taken from a search that goes on is the last one so far: what   *)
(* is done, and what the others have left, lies below it.                  *)
LEMMA RestsGrow ==
  ASSUME TypeOK, Running,
         NEW top \in Nat, NEW head \in Worker, NEW lo \in [Worker -> Nat], NEW hi \in [Worker -> Nat],
         Rests(top, head, lo, hi), ~cancelled,
         NEW w \in Worker, TakeChunk(w), toProcess # search.n
  PROVE  \E next \in Nat, from \in [Worker -> Nat], till \in [Worker -> Nat] :
           Rests(next, w, from, till)'
<1> DEFINE chunk == chunkSizeFor(search.n)
<1>1. /\ search.n \in Nat /\ toProcess \in Nat /\ toProcess <= search.n
      /\ chunk \in Nat \ {0}
  BY WorkerFacts, ChunkFacts, SizeAssumption DEF TypeOK, Running, Chunks
<1>2. MinOf(toProcess + chunk, search.n) \in Nat
  <2> HIDE DEF chunk
  <2> QED
    BY <1>1 DEF MinOf
<1>3. PICK first \in Nat, end \in Nat :
        first = toProcess /\ end = MinOf(toProcess + chunk, search.n)
  BY <1>1, <1>2
<1>4. /\ worker[w].pc = "take"
      /\ worker' = [worker EXCEPT ![w] =
                      [pc |-> "next", piece |-> toProcess, end |-> end, slot |-> 0]]
      /\ toProcess' = end
      /\ UNCHANGED <<search, feasibleClusters, verdict, cancelled>>
  BY <1>3 DEF TakeChunk, found, signals
<1>5. /\ first = toProcess /\ toProcess \in Nat /\ toProcess < end
      /\ chunkSizeFor(search.n) \in Nat /\ end - toProcess <= chunkSizeFor(search.n)
  <2> HIDE DEF chunk
  <2>1. /\ first = toProcess /\ toProcess \in Nat /\ toProcess < end
        /\ chunk \in Nat /\ end - toProcess <= chunk
    BY <1>1, <1>3 DEF MinOf
  <2> QED
    BY <2>1 DEF chunk
<1>6. Done' = Done /\ Done \subseteq Nat
  BY <1>4, WorkerFacts DEF Done
<1>7. /\ \A v \in Worker : v # w => worker'[v] = worker[v]
      /\ worker'[w].pc = "next" /\ worker'[w].piece = toProcess /\ worker'[w].end = end
  BY <1>4 DEF TypeOK
<1>8. PICK from \in [Worker -> Nat], till \in [Worker -> Nat] :
      /\ from[w] = toProcess /\ \A v \in Worker : v # w => from[v] = lo[v]
      /\ till[w] = end /\ \A v \in Worker : v # w => till[v] = hi[v]
  <2> DEFINE f == [lo EXCEPT ![w] = first]
             g == [hi EXCEPT ![w] = end]
  <2>1. f \in [Worker -> Nat] /\ g \in [Worker -> Nat]
    OBVIOUS
  <2>2. /\ f[w] = toProcess /\ \A v \in Worker : v # w => f[v] = lo[v]
        /\ g[w] = end /\ \A v \in Worker : v # w => g[v] = hi[v]
    BY <1>5
  <2> HIDE DEF f, g
  <2> QED
    BY <2>1, <2>2
<1>9. /\ \A v \in Worker : lo[v] \in Nat /\ hi[v] \in Nat
      /\ top = toProcess /\ lo[w] = hi[w]
      /\ \A v \in Worker : lo[v] <= hi[v] /\ hi[v] <= toProcess
  BY <1>4 DEF Rests
<1>10. \A v \in Worker : /\ from[v] <= till[v] /\ till[v] <= end
                        /\ till[v] - from[v] <= chunkSizeFor(search.n)
  BY <1>5, <1>8, <1>9 DEF Rests
<1>11. \A i \in 0..(end - 1) : i \in Done \/ \E v \in Worker : from[v] <= i /\ i < till[v]
  <2> SUFFICES ASSUME NEW i \in 0..(end - 1), i \notin Done
               PROVE  \E v \in Worker : from[v] <= i /\ i < till[v]
    OBVIOUS
  <2>1. CASE i >= toProcess
    BY <1>5, <1>8, <2>1
  <2>2. CASE i < toProcess
    <3>1. PICK v \in Worker : lo[v] <= i /\ i < hi[v]
      BY <1>5, <1>9, <2>2 DEF Rests
    <3>2. v # w
      BY <1>9, <3>1
    <3> QED
      BY <1>8, <3>1, <3>2
  <2> QED
    BY <1>5, <2>1, <2>2
<1>12. \A i \in Done : i < from[w]
  BY <1>5, <1>6, <1>8, <1>9 DEF Rests
<1>13. \A v \in Worker : v # w => till[v] <= from[w]
  BY <1>8, <1>9
<1>14. \A v \in Worker : Holds(v)' => from[v] = worker'[v].piece /\ till[v] = worker'[v].end
  BY <1>4, <1>7, <1>8 DEF Rests, Holds
<1>15. \A v \in Worker : worker'[v].pc \in {"take", "exit"} /\ ~cancelled' => from[v] = till[v]
  BY <1>4, <1>7, <1>8 DEF Rests
<1>16. \A v \in Worker : worker'[v].pc = "undo" => cancelled'
  BY <1>4, <1>7 DEF Rests
<1>17. Rests(end, w, from, till)'
  BY <1>4, <1>5, <1>6, <1>10, <1>11, <1>12, <1>13, <1>14, <1>15, <1>16 DEF Rests
<1> QED
  BY <1>17

(* An examination makes exactly the pieces done whose clusters do not fit. *)
LEMMA ExamineDone ==
  ASSUME TypeOK, Running, NEW w \in Worker, NEW v \in {"fit", "unfit", "error"},
         FilterCluster(w, v)
  PROVE  Done' = IF v = "unfit" THEN Done \cup {worker[w].piece} ELSE Done
<1>1. /\ worker[w].pc = "filter" /\ Busy(w)
      /\ verdict[Current(w)] = "unknown" /\ verdict'[Current(w)] = v
      /\ \A c \in 0..(search.n - 1) : c # Current(w) => verdict'[c] = verdict[c]
      /\ UNCHANGED <<search, feasibleClusters>>
  BY ExamineFacts
<1>2. worker[w].piece \in 0..(search.n - 1)
  BY <1>1, CurrentFacts
<1>3. \A i \in 0..(search.n - 1) :
        /\ ClusterAt(search, i) \in 0..(search.n - 1)
        /\ ClusterAt(search, i) = Current(w) => i = worker[w].piece
  BY <1>2, ClusterFacts DEF Current, TypeOK
<1>4. Current(w) \notin Elements(feasibleClusters)
  <2>1. DOMAIN feasibleClusters = 1..search.want
    BY DEF TypeOK
  <2>2. Current(w) # None
    BY <1>2, <1>3, NoneAssumption, WorkerFacts DEF Current
  <2> QED
    BY <1>1, <2>1, <2>2 DEF Running, Contents, Elements
<1>5. \A i \in 0..(search.n - 1) : i # worker[w].piece => (i \in Done' <=> i \in Done)
  BY <1>1, <1>3 DEF Done
<1>6. worker[w].piece \notin Done
  BY <1>1, <1>4 DEF Done, Current
<1>7. worker[w].piece \in Done' <=> v = "unfit"
  BY <1>1, <1>2, <1>4 DEF Done, Current
<1>8. Done \subseteq 0..(search.n - 1) /\ Done' \subseteq 0..(search.n - 1)
  BY <1>1 DEF Done
<1>9. CASE v = "unfit"
  BY <1>2, <1>5, <1>7, <1>8, <1>9
<1>10. CASE v # "unfit"
  <2>1. \A i : i \in Done' <=> i \in Done
    BY <1>2, <1>5, <1>6, <1>7, <1>8, <1>10
  <2>2. Done' = Done
    BY <2>1
  <2> QED
    BY <1>10, <2>2
<1> QED
  BY <1>9, <1>10

(* A cluster that gets its place is done, and no other loses its own.      *)
LEMMA StoreDone ==
  ASSUME TypeOK, Running, NEW w \in Worker, StoreCluster(w)
  PROVE  Done' = Done \cup {worker[w].piece}
<1>1. /\ worker[w].pc = "store" /\ Busy(w)
      /\ feasibleClusters' = [feasibleClusters EXCEPT ![worker[w].slot] = Current(w)]
      /\ UNCHANGED <<search, verdict>>
  BY DEF StoreCluster, Current, Busy
<1>2. worker[w].piece \in 0..(search.n - 1)
  BY <1>1, CurrentFacts
<1>3. \A i \in 0..(search.n - 1) :
        /\ ClusterAt(search, i) # None
        /\ ClusterAt(search, i) = Current(w) => i = worker[w].piece
  <2>1. \A c \in 0..(search.n - 1) : c # None
    BY NoneAssumption, WorkerFacts
  <2> QED
    BY <1>2, <2>1, ClusterFacts DEF Current, TypeOK
<1>4. /\ worker[w].slot \in 1..search.want
      /\ feasibleClusters[worker[w].slot] = None
      /\ DOMAIN feasibleClusters = 1..search.want
  BY <1>1 DEF Running, Places, TypeOK
<1>5. /\ DOMAIN feasibleClusters' = 1..search.want
      /\ feasibleClusters'[worker[w].slot] = Current(w)
      /\ \A k \in 1..search.want : k # worker[w].slot => feasibleClusters'[k] = feasibleClusters[k]
  BY <1>1, <1>4
<1>6. \A c : c # None =>
        (c \in Elements(feasibleClusters') <=> c \in Elements(feasibleClusters) \/ c = Current(w))
  BY <1>4, <1>5 DEF Elements
<1>7. Done' = {i \in 0..(search.n - 1) :
                 \/ verdict[ClusterAt(search, i)] = "unfit"
                 \/ ClusterAt(search, i) \in Elements(feasibleClusters')}
  BY <1>1 DEF Done, Elements
<1> QED
  BY <1>2, <1>3, <1>6, <1>7 DEF Done, Current

(* Every step of a goroutine keeps the rests in order.                     *)
LEMMA WindowStep ==
  ASSUME TypeOK, Running, Window, NEW w \in Worker, WorkerStep(w)
  PROVE  Window'
<1>1. PICK top \in Nat, head \in Worker, lo \in [Worker -> Nat], hi \in [Worker -> Nat] :
        Rests(top, head, lo, hi)
  BY DEF Window
<1>2. nextStartClusterIndex' = search'.from /\ search' = search
  BY DEF Window, WorkerStep, TakeChunk, NextPiece, FilterCluster, StoreCluster, Cancel, UndoAdd,
         SendErrorWithCancel
<1>3. ASSUME Rests(top, head, lo, hi)'
      PROVE  Window'
  BY <1>2, <1>3 DEF Window
<1>4. ASSUME UNCHANGED <<search, verdict, feasibleClusters>>
      PROVE  Done' = Done
  BY <1>4 DEF Done
<1>5. ASSUME TakeChunk(w) PROVE Window'
  <2>1. /\ worker[w].pc = "take" /\ worker' \in [Worker -> Workers]
        /\ \A v \in Worker : v # w => worker'[v] = worker[v]
        /\ UNCHANGED <<search, verdict, feasibleClusters, cancelled>>
        /\ \/ worker'[w].pc = "exit" /\ toProcess' = toProcess /\ toProcess = search.n
           \/ worker'[w].pc = "next" /\ toProcess # search.n
        /\ toProcess' \in Nat /\ toProcess <= toProcess' /\ toProcess \in Nat
    <3>1. TypeOK' 
      BY <1>5, TakeChunkInv
    <3>2. /\ search.n \in Nat /\ chunkSizeFor(search.n) \in Nat /\ toProcess <= search.n
          /\ toProcess \in Nat
      BY WorkerFacts, ChunkFacts, SizeAssumption DEF TypeOK, Running, Chunks
    <3>3. toProcess <= MinOf(toProcess + chunkSizeFor(search.n), search.n)
      BY <3>2 DEF MinOf
    <3>4. toProcess' \in Nat /\ worker' \in [Worker -> Workers]
      BY <3>1 DEF TypeOK
    <3>5. UNCHANGED <<search, verdict, feasibleClusters, cancelled>> /\ worker[w].pc = "take"
      BY <1>5 DEF TakeChunk, found, signals
    <3>6. CASE toProcess = search.n
      <4>1. worker' = [worker EXCEPT ![w] = Exited] /\ toProcess' = toProcess
        BY <1>5, <3>6 DEF TakeChunk, Leave
      <4> QED
        BY <3>2, <3>4, <3>5, <3>6, <4>1 DEF TypeOK, Exited
    <3>7. CASE toProcess # search.n
      <4>1. PICK end : /\ end = MinOf(toProcess + chunkSizeFor(search.n), search.n)
                       /\ toProcess' = end
                       /\ worker' = [worker EXCEPT ![w] =
                            [pc |-> "next", piece |-> toProcess, end |-> end, slot |-> 0]]
        BY <1>5, <3>7 DEF TakeChunk
      <4> QED
        BY <3>2, <3>3, <3>4, <3>5, <3>7, <4>1 DEF TypeOK
    <3> QED
      BY <3>6, <3>7
  <2>2. CASE ~cancelled /\ toProcess # search.n
    <3>1. \E next \in Nat, from \in [Worker -> Nat], till \in [Worker -> Nat] :
            Rests(next, w, from, till)'
      BY <1>1, <1>5, <2>2, RestsGrow
    <3> QED
      BY <1>2, <3>1 DEF Window
  <2>3. CASE cancelled \/ toProcess = search.n
    <3>1. \A v \in Worker : Holds(v)' => Holds(v) /\ worker'[v] = worker[v]
      BY <2>1, <2>3 DEF Holds
    <3>2. \A v \in Worker : worker'[v].pc = "undo" => cancelled'
      BY <1>1, <2>1 DEF Rests
    <3>3. Rests(top, head, lo, hi)'
      BY <1>1, <1>4, <2>1, <2>3, <3>1, <3>2, RestsKept
    <3> QED
      BY <1>3, <3>3
  <2> QED
    BY <2>2, <2>3
<1>6. ASSUME NextPiece(w) PROVE Window'
  <2>1. UNCHANGED <<search, verdict, feasibleClusters, cancelled, toProcess>>
    BY <1>6 DEF NextPiece, found, signals
  <2>2. /\ worker[w].pc = "next"
        /\ \A v \in Worker : v # w => worker'[v] = worker[v]
        /\ \/ worker'[w].pc = "take" /\ worker[w].piece = worker[w].end
           \/ worker'[w].pc = "exit" /\ cancelled
           \/ /\ worker'[w].pc = "filter" /\ ~cancelled
              /\ worker'[w].piece = worker[w].piece /\ worker'[w].end = worker[w].end
    <3>1. worker[w].pc = "next" /\ worker \in [Worker -> Workers] /\ worker[w] \in Workers
      BY <1>6 DEF NextPiece, TypeOK
    <3>2. CASE worker[w].piece = worker[w].end
      <4>1. worker' = [worker EXCEPT ![w].pc = "take"]
        BY <1>6, <3>2 DEF NextPiece, Goto
      <4> QED
        BY <3>1, <3>2, <4>1 DEF Workers
    <3>3. CASE worker[w].piece # worker[w].end /\ cancelled
      <4>1. worker' = [worker EXCEPT ![w] = Exited]
        BY <1>6, <3>3 DEF NextPiece, Leave
      <4> QED
        BY <3>1, <3>3, <4>1 DEF Exited
    <3>4. CASE worker[w].piece # worker[w].end /\ ~cancelled
      <4>1. worker' = [worker EXCEPT ![w].pc = "filter"]
        BY <1>6, <3>4 DEF NextPiece, Goto
      <4> QED
        BY <3>1, <3>4, <4>1 DEF Workers
    <3> QED
      BY <3>2, <3>3, <3>4
  <2>3. \A v \in Worker : Holds(v)' =>
          Holds(v) /\ worker'[v].piece = worker[v].piece /\ worker'[v].end = worker[v].end
    BY <2>1, <2>2 DEF Holds
  <2>4. \A v \in Worker : worker'[v].pc = "undo" => cancelled'
    BY <1>1, <2>1, <2>2 DEF Rests
  <2>5. \A v \in Worker : worker'[v].pc \in {"take", "exit"} /\ ~cancelled' =>
          \/ worker[v].pc \in {"take", "exit"}
          \/ worker[v].pc = "next" /\ worker[v].piece = worker[v].end
    BY <2>1, <2>2
  <2>6. Rests(top, head, lo, hi)'
    BY <1>1, <1>4, <2>1, <2>3, <2>4, <2>5, RestsKept
  <2> QED
    BY <1>3, <2>6
<1>7. ASSUME worker' = [worker EXCEPT ![w] = NextOf(w)], worker[w].pc \in {"filter", "store"},
             Done' = Done \cup {worker[w].piece}, UNCHANGED <<cancelled, toProcess>>
      PROVE  Window'
  <2>1. PICK less \in [Worker -> Nat] : less = [lo EXCEPT ![w] = lo[w] + 1]
    <3>1. lo[w] + 1 \in Nat
      OBVIOUS
    <3>2. [lo EXCEPT ![w] = lo[w] + 1] \in [Worker -> Nat]
      BY <3>1
    <3> QED
      BY <3>2
  <2>2. Rests(top, head, [lo EXCEPT ![w] = lo[w] + 1], hi)'
    BY <1>1, <1>2, <1>7, RestsShrink
  <2>3. Rests(top, head, less, hi)'
    BY <2>1, <2>2
  <2> QED
    BY <1>2, <2>3 DEF Window
<1>8. ASSUME NEW v \in {"fit", "error"}, FilterCluster(w, v) PROVE Window'
  <2>1. /\ worker[w].pc = "filter" /\ UNCHANGED <<cancelled, toProcess>>
    BY <1>8, ExamineFacts
  <2>2. Done' = Done
    BY <1>8, ExamineDone
  <2>3. /\ \A u \in Worker : u # w => worker'[u] = worker[u]
        /\ worker'[w].piece = worker[w].piece /\ worker'[w].end = worker[w].end
        /\ worker'[w].pc \in {"store", "cancel", "fail"}
    <3>1. worker \in [Worker -> Workers] /\ worker[w] \in Workers
      BY DEF TypeOK
    <3>2. CASE v = "error"
      <4>1. worker' = [worker EXCEPT ![w].pc = "fail"]
        BY <1>8, <3>2 DEF FilterCluster, Goto
      <4> QED
        BY <3>1, <4>1 DEF Workers
    <3>3. CASE v = "fit"
      <4>1. PICK slot : \/ worker' = [worker EXCEPT ![w] = At(w, "store", slot)]
                        \/ worker' = [worker EXCEPT ![w] = At(w, "cancel", slot)]
        BY <1>8, <3>3 DEF FilterCluster
      <4> QED
        BY <3>1, <4>1 DEF At
    <3> QED
      BY <3>2, <3>3
  <2>4. \A u \in Worker : Holds(u)' =>
          Holds(u) /\ worker'[u].piece = worker[u].piece /\ worker'[u].end = worker[u].end
    BY <2>1, <2>3 DEF Holds
  <2>5. \A u \in Worker : worker'[u].pc = "undo" => cancelled'
    BY <1>1, <2>1, <2>3 DEF Rests
  <2>6. Rests(top, head, lo, hi)'
    BY <1>1, <1>2, <2>1, <2>2, <2>3, <2>4, <2>5, RestsKept
  <2> QED
    BY <1>3, <2>6
<1>9. ASSUME FilterCluster(w, "unfit") PROVE Window'
  <2>1. worker[w].pc = "filter" /\ UNCHANGED <<cancelled, toProcess>>
    BY <1>9, ExamineFacts
  <2>2. worker' = [worker EXCEPT ![w] = NextOf(w)]
    BY <1>9 DEF FilterCluster
  <2>3. Done' = Done \cup {worker[w].piece}
    BY <1>9, ExamineDone
  <2> QED
    BY <1>7, <2>1, <2>2, <2>3
<1>10. ASSUME StoreCluster(w) PROVE Window'
  <2>1. /\ worker[w].pc = "store" /\ UNCHANGED <<cancelled, toProcess>>
        /\ worker' = [worker EXCEPT ![w] = NextOf(w)]
    BY <1>10 DEF StoreCluster, signals
  <2> QED
    BY <1>7, <1>10, <2>1, StoreDone
<1>11. ASSUME Cancel(w) \/ UndoAdd(w) \/ SendErrorWithCancel(w) PROVE Window'
  <2>1. UNCHANGED <<search, verdict, feasibleClusters, toProcess>> /\ (cancelled => cancelled')
    BY <1>11 DEF Cancel, UndoAdd, SendErrorWithCancel, found, signals
  <2>2. /\ \A v \in Worker : v # w => worker'[v] = worker[v]
        /\ cancelled'
        /\ \/ worker'[w].pc = "next"
           \/ /\ worker'[w].pc = "undo" /\ worker[w].pc = "cancel"
              /\ worker'[w].piece = worker[w].piece /\ worker'[w].end = worker[w].end
    <3>1. worker \in [Worker -> Workers] /\ worker[w] \in Workers
      BY DEF TypeOK
    <3>2. CASE Cancel(w)
      <4>1. cancelled' /\ worker[w].pc = "cancel" /\ worker' = [worker EXCEPT ![w].pc = "undo"]
        BY <3>2 DEF Cancel, Goto
      <4> QED
        BY <3>1, <4>1 DEF Workers
    <3>3. CASE UndoAdd(w)
      <4>1. worker[w].pc = "undo" /\ cancelled' = cancelled /\ worker' = [worker EXCEPT ![w] = NextOf(w)]
        BY <3>3 DEF UndoAdd, signals
      <4>2. cancelled'
        BY <1>1, <4>1 DEF Rests
      <4> QED
        BY <3>1, <4>1, <4>2 DEF NextOf
    <3>4. CASE SendErrorWithCancel(w)
      <4>1. cancelled' /\ worker' = [worker EXCEPT ![w] = NextOf(w)]
        BY <3>4 DEF SendErrorWithCancel
      <4> QED
        BY <3>1, <4>1 DEF NextOf
    <3> QED
      BY <1>11, <3>2, <3>3, <3>4
  <2>3. \A v \in Worker : Holds(v)' =>
          Holds(v) /\ worker'[v].piece = worker[v].piece /\ worker'[v].end = worker[v].end
    BY <2>1, <2>2 DEF Holds
  <2>4. Rests(top, head, lo, hi)'
    BY <1>1, <1>4, <2>1, <2>2, <2>3, RestsKept
  <2> QED
    BY <1>3, <2>4
<1>12. ASSUME NEW v \in {"fit", "unfit", "error"}, FilterCluster(w, v) PROVE Window'
  BY <1>8, <1>9, <1>12
<1> QED
  BY <1>5, <1>6, <1>10, <1>11, <1>12 DEF WorkerStep
(* Advancing an index by at most a whole round and measuring how far it    *)
(* went gives the same number, or none after a whole round.                *)
LEMMA Rotation ==
  ASSUME NEW n \in Nat \ {0}, NEW a \in Nat, NEW p \in Nat, p <= n
  PROVE  (((a + p) % n) - a) % n = IF p = n THEN 0 ELSE p
<1> DEFINE q == (a + p) \div n
           r == (a + p) % n
           x == r - a
           d == x \div n
           e == x % n
<1>1. q \in Nat /\ r \in 0..(n - 1) /\ a + p = n * q + r
  BY DivMod, a + p \in Nat
<1>2. d \in Int /\ e \in 0..(n - 1) /\ x = n * d + e
  <2> HIDE DEF r
  <2>1. x \in Int
    BY <1>1
  <2> HIDE DEF x
  <2> QED
    BY <2>1
<1> HIDE DEF q, r, d, e
<1>3. n * d \in Int /\ n * q \in Nat
  BY <1>1, <1>2
<1>4. p = n * d + n * q + e
  BY <1>1, <1>2, <1>3
<1>5. PICK k \in Int : k = d + q /\ n * k = n * d + n * q
  BY <1>1, <1>2
<1>6. p = n * k + e
  BY <1>4, <1>5
<1>7. k >= 0
  <2> SUFFICES ASSUME k < 0 PROVE FALSE
    BY <1>5
  <2>1. PICK m \in Nat : k = -1 - m
    <3>1. -1 - k \in Nat /\ k = -1 - (-1 - k)
      BY <1>5
    <3> QED
      BY <3>1
  <2>2. n * k = -n - n * m /\ n * m \in Nat
    BY <2>1
  <2> QED
    BY <1>2, <1>6, <2>2
<1>8. k < 2
  <2> SUFFICES ASSUME k >= 2 PROVE FALSE
    BY <1>5
  <2>1. PICK m \in Nat : k = 2 + m
    <3>1. k - 2 \in Nat /\ k = 2 + (k - 2)
      BY <1>5
    <3> QED
      BY <3>1
  <2>2. n * k = n + n + n * m /\ n * m \in Nat
    BY <2>1
  <2> QED
    BY <1>2, <1>6, <2>2
<1>9. k = 0 \/ k = 1
  BY <1>5, <1>7, <1>8
<1>10. n * k = IF k = 0 THEN 0 ELSE n
  BY <1>9
<1>11. e = IF p = n THEN 0 ELSE p
  BY <1>2, <1>6, <1>9, <1>10
<1> QED
  BY <1>11 DEF e, x, r

(* Pieces that lie in the rests of all goroutines but one are at most as   *)
(* many as the chunks of these goroutines hold.                            *)
LEMMA RestsCount ==
  ASSUME NEW S, NEW head \in Worker, NEW lo \in [Worker -> Nat], NEW hi \in [Worker -> Nat],
         NEW chunk \in Nat, S \subseteq Nat,
         \A i \in S : \E w \in Worker \ {head} : lo[w] <= i /\ i < hi[w],
         \A w \in Worker : hi[w] - lo[w] <= chunk
  PROVE  Cardinality(S) <= (Cardinality(Worker) - 1) * chunk
<1> DEFINE owner(i) == CHOOSE w \in Worker \ {head} : lo[w] <= i /\ i < hi[w]
           others == Worker \ {head}
           cells == 0..(chunk - 1)
           f == [i \in S |-> <<owner(i), i - lo[owner(i)]>>]
<1>1. \A i \in S : owner(i) \in others /\ lo[owner(i)] <= i /\ i < hi[owner(i)]
  OBVIOUS
<1> HIDE DEF owner
<1>2. \A i \in S : i - lo[owner(i)] \in cells
  BY <1>1
<1>3. f \in [S -> others \X cells]
  BY <1>1, <1>2
<1>4. ASSUME NEW i \in S, NEW j \in S, f[i] = f[j]
      PROVE  i = j
  <2>1. owner(i) = owner(j) /\ i - lo[owner(i)] = j - lo[owner(j)]
    BY <1>4
  <2>2. lo[owner(i)] \in Nat /\ i \in Nat /\ j \in Nat
    BY <1>1
  <2> QED
    BY <2>1, <2>2
<1>5. f \in Injection(S, others \X cells)
  BY <1>3, <1>4 DEF Injection, IsInjective
<1> HIDE DEF f
<1>6. IsFiniteSet(others) /\ Cardinality(others) = Cardinality(Worker) - 1
  BY WorkerAssumption, FS_RemoveElement
<1>7. IsFiniteSet(cells) /\ Cardinality(cells) = chunk
  <2>1. 0 \in Int /\ chunk - 1 \in Int
    OBVIOUS
  <2>2. IsFiniteSet(cells) /\ Cardinality(cells) = IF 0 > chunk - 1 THEN 0 ELSE (chunk - 1) - 0 + 1
    BY <2>1, FS_Interval
  <2> QED
    BY <2>2
<1> HIDE DEF others, cells
<1>8. IsFiniteSet(others \X cells) /\ Cardinality(others \X cells) = Cardinality(others) * Cardinality(cells)
  BY <1>6, <1>7, FS_Product
<1>9. Cardinality(S) <= Cardinality(others \X cells)
  BY <1>5, <1>8, FS_Injection
<1> QED
  BY <1>6, <1>7, <1>8, <1>9

(* When all goroutines have left, the places and the diagnosis hold no     *)
(* more clusters than there are pieces below the rest of head.             *)
LEMMA ProcessedBelow ==
  ASSUME TypeOK, Running, \A w \in Worker : worker[w].pc = "exit",
         NEW bound \in Nat, \A i \in Done : i < bound
  PROVE  /\ Cardinality(Unfit) \in Nat
         /\ feasibleClustersLen + Cardinality(Unfit) <= bound
<1>1. /\ search \in Searches /\ search.n \in Nat \ {0} /\ search.want \in Nat \ {0}
      /\ feasibleClustersLen \in Nat
  BY WorkerFacts, SizeAssumption DEF TypeOK
<1>2. feasibleClustersLen <= search.want
  <2>1. Over = {}
    BY DEF Over
  <2>2. Cardinality(Over) = 0
    BY <2>1, FS_EmptySet
  <2> QED
    BY <1>1, <2>2 DEF Running, Counted
<1> DEFINE places == 1..feasibleClustersLen
           Placed == {feasibleClusters[k] : k \in places}
<1>3. \A k \in places : k \in 1..search.want /\ feasibleClusters[k] # None
  BY <1>1, <1>2 DEF Running, Places
<1>4. \A k \in places :
        /\ feasibleClusters[k] \in 0..(search.n - 1)
        /\ verdict[feasibleClusters[k]] = "fit"
        /\ feasibleClusters[k] \in Elements(feasibleClusters)
  BY <1>3 DEF Running, Contents, Elements, TypeOK
<1>5. IsFiniteSet(Unfit) /\ Cardinality(Unfit) \in Nat
  <2>1. IsFiniteSet(0..(search.n - 1)) /\ Unfit \subseteq 0..(search.n - 1)
    <3>1. 0 \in Int /\ search.n - 1 \in Int
      BY <1>1
    <3> QED
      BY <3>1, FS_Interval DEF Unfit
  <2> QED
    BY <2>1, FS_Subset, FS_CardinalityType
<1>6. IsFiniteSet(Placed) /\ Cardinality(Placed) \in Nat /\ feasibleClustersLen <= Cardinality(Placed)
  <2>1. IsFiniteSet(0..(search.n - 1)) /\ Placed \subseteq 0..(search.n - 1)
    <3>1. 0 \in Int /\ search.n - 1 \in Int
      BY <1>1
    <3> QED
      BY <1>4, <3>1, FS_Interval
  <2>2. IsFiniteSet(Placed) /\ Cardinality(Placed) \in Nat
    BY <2>1, FS_Subset, FS_CardinalityType
  <2> DEFINE f == [k \in places |-> feasibleClusters[k]]
  <2>3. f \in [places -> Placed] /\ DOMAIN f = places
    OBVIOUS
  <2>4. \A j, k \in places : f[j] = f[k] => j = k
    BY <1>3 DEF Running, Contents
  <2>5. f \in Injection(places, Placed)
    BY <2>3, <2>4 DEF Injection, IsInjective
  <2> HIDE DEF f, Placed
  <2>6. Cardinality(places) <= Cardinality(Placed)
    BY <2>2, <2>5, FS_Injection
  <2>7. Cardinality(places) = feasibleClustersLen
    <3>1. 1 \in Int /\ feasibleClustersLen \in Int
      BY <1>1
    <3>2. Cardinality(places) = IF 1 > feasibleClustersLen THEN 0 ELSE feasibleClustersLen - 1 + 1
      BY <3>1, FS_Interval
    <3> QED
      BY <1>1, <3>2
  <2> QED
    BY <2>2, <2>6, <2>7
<1> DEFINE All == Unfit \cup Placed
           piece(c) == CHOOSE i \in 0..(search.n - 1) : ClusterAt(search, i) = c
           g == [c \in All |-> piece(c)]
           below == 0..(bound - 1)
<1>7. \A c \in All :
        c \in 0..(search.n - 1) /\ (verdict[c] = "unfit" \/ c \in Elements(feasibleClusters))
  BY <1>4 DEF Unfit
<1>8. \A c \in 0..(search.n - 1) :
        piece(c) \in 0..(search.n - 1) /\ ClusterAt(search, piece(c)) = c
  BY <1>1, ClusterFacts
<1>9. Unfit \cap Placed = {}
  BY <1>4 DEF Unfit
<1> HIDE DEF piece, All, Placed
<1>10. \A c \in All : piece(c) \in Done
  BY <1>7, <1>8 DEF Done
<1>11. \A c \in All : piece(c) \in below
  <2>1. \A c \in All : piece(c) \in Nat /\ piece(c) < bound
    BY <1>1, <1>7, <1>8, <1>10
  <2> QED
    BY <2>1
<1>12. g \in [All -> below] /\ DOMAIN g = All
  BY <1>11
<1>13. \A b, c \in All : g[b] = g[c] => b = c
  BY <1>7, <1>8
<1>14. g \in Injection(All, below)
  BY <1>12, <1>13 DEF Injection, IsInjective
<1>15. IsFiniteSet(below) /\ Cardinality(below) = bound
  <2>1. 0 \in Int /\ bound - 1 \in Int
    OBVIOUS
  <2>2. IsFiniteSet(below) /\ Cardinality(below) = IF 0 > bound - 1 THEN 0 ELSE (bound - 1) - 0 + 1
    BY <2>1, FS_Interval
  <2> QED
    BY <2>2
<1> HIDE DEF g, below
<1>16. Cardinality(All) <= bound
  BY <1>14, <1>15, FS_Injection
<1>17. Cardinality(All) = Cardinality(Unfit) + Cardinality(Placed)
  <2>1. Cardinality(All) = Cardinality(Unfit) + Cardinality(Placed) - Cardinality(Unfit \cap Placed)
    BY <1>5, <1>6, FS_Union DEF All
  <2>2. Cardinality(Unfit \cap Placed) = 0
    BY <1>9, FS_EmptySet
  <2> QED
    BY <1>5, <1>6, <2>1, <2>2
<1> QED
  BY <1>1, <1>5, <1>6, <1>16, <1>17
(* The bound is not negative.                                              *)
LEMMA BoundFacts ==
  ASSUME NEW n \in 1..MaxClusters
  PROVE  (Cardinality(Worker) - 1) * chunkSizeFor(n) \in Nat
<1>1. chunkSizeFor(n) \in Nat
  BY ChunkFacts
<1>2. Cardinality(Worker) - 1 \in Nat
  <2>1. Cardinality(Worker) \in Nat \ {0}
    BY WorkerAssumption, FS_CardinalityType, FS_EmptySet
  <2> QED
    BY <2>1
<1> DEFINE a == Cardinality(Worker) - 1
           b == chunkSizeFor(n)
<1> HIDE DEF a, b
<1>3. a \in Nat /\ b \in Nat
  BY <1>1, <1>2 DEF a, b
<1>4. a * b \in Nat
  BY <1>3
<1> QED
  BY <1>4 DEF a, b

(* A search starts with nothing handed out.                                *)
LEMMA StartWindow ==
  ASSUME TypeOK, NEW n \in 1..MaxClusters, NEW strategy \in Strategy, StartSearch(n, strategy)
  PROVE  Window'
<1>1. /\ search'.from = nextStartClusterIndex' /\ search'.n = n
      /\ toProcess' = 0 /\ cancelled' = FALSE
      /\ worker' = [v \in Worker |-> [Exited EXCEPT !.pc = "take"]]
      /\ feasibleClusters' = [k \in 1..search'.want |-> None]
      /\ verdict' = [c \in 0..(n - 1) |-> "unknown"]
  BY DEF StartSearch, NewSearch
<1>2. \A v \in Worker : worker'[v].pc = "take"
  BY <1>1 DEF Exited
<1>3. search' \in Searches
  BY StartInv DEF TypeOK
<1>4. Done' = {}
  <2>1. \A i \in 0..(n - 1) : ClusterAt(search', i) \in 0..(n - 1)
    BY <1>1, <1>3, ClusterFacts
  <2>2. \A c \in 0..(n - 1) : c # None /\ verdict'[c] # "unfit"
    BY <1>1, NoneAssumption, SizeAssumption
  <2>3. \A c \in Elements(feasibleClusters') : c = None
    BY <1>1 DEF Elements
  <2>4. Done' = {i \in 0..(search'.n - 1) :
                   \/ verdict'[ClusterAt(search', i)] = "unfit"
                   \/ ClusterAt(search', i) \in Elements(feasibleClusters')}
    BY DEF Done, Elements
  <2> QED
    BY <1>1, <2>1, <2>2, <2>3, <2>4
<1>5. PICK head \in Worker : TRUE
  BY WorkerAssumption
<1>6. PICK none \in [Worker -> Nat] : \A v \in Worker : none[v] = 0
  <2>1. [v \in Worker |-> 0] \in [Worker -> Nat]
    OBVIOUS
  <2> QED
    BY <2>1
<1>7. chunkSizeFor(search'.n) \in Nat
  BY <1>1, ChunkFacts
<1>8. \A v \in Worker : ~Holds(v)'
  BY <1>2 DEF Holds
<1>9. Rests(0, head, none, none)'
  <2>1. \A i \in 0..(0 - 1) : FALSE
    OBVIOUS
  <2>2. \A v \in Worker : /\ none[v] <= none[v] /\ none[v] <= 0
                           /\ none[v] - none[v] <= chunkSizeFor(search'.n)
    BY <1>6, <1>7
  <2>3. \A v \in Worker : v # head => none[v] <= none[head]
    BY <1>6
  <2>4. 0 <= toProcess' /\ 0 = toProcess'
    BY <1>1
  <2> QED
    BY <1>2, <1>4, <1>8, <2>1, <2>2, <2>3, <2>4 DEF Rests
<1> QED
  BY <1>1, <1>6, <1>9 DEF Window

(* A search that has ended passes over no piece that was done, and below   *)
(* the number of those that were lie only the rests of other goroutines    *)
(* than the one that took the last chunk.                                  *)
LEMMA FinishSkips ==
  ASSUME TypeOK, Running, Window, FinishSearch
  PROVE  SkipsBounded'
<1>1. PICK top \in Nat, head \in Worker, lo \in [Worker -> Nat], hi \in [Worker -> Nat] :
        Rests(top, head, lo, hi)
  BY DEF Window
<1>2. /\ \A w \in Worker : worker[w].pc = "exit"
      /\ nextStartClusterIndex' =
           (nextStartClusterIndex + (feasibleClustersLen + Cardinality(Unfit))) % search.n
      /\ search' = [search EXCEPT !.stage = IF errCh THEN "failed" ELSE "done"]
      /\ UNCHANGED <<feasibleClusters, verdict>>
  BY DEF FinishSearch, Advance, found
<1>3. /\ search.n \in 1..MaxClusters /\ search.n \in Nat \ {0} /\ search \in Searches
      /\ search.from \in Nat /\ toProcess \in Nat /\ feasibleClustersLen \in Nat
      /\ toProcess <= search.n /\ chunkSizeFor(search.n) \in Nat
  BY WorkerFacts, SizeAssumption, ChunkFacts DEF TypeOK, Running, Chunks, Searches, Index
<1>4. search'.n = search.n /\ search'.from = search.from
  BY <1>2, <1>3 DEF Searches
<1> DEFINE p == feasibleClustersLen + Cardinality(Unfit)
<1>5. p \in Nat /\ p <= lo[head] /\ p <= search.n /\ lo[head] <= top
  <2>1. /\ lo[head] \in Nat /\ hi[head] \in Nat
        /\ \A i \in Done : i < lo[head]
        /\ lo[head] <= hi[head] /\ hi[head] <= top /\ top <= toProcess
    BY <1>1 DEF Rests
  <2>2. Cardinality(Unfit) \in Nat /\ p <= lo[head]
    BY <1>2, <2>1, ProcessedBelow
  <2> QED
    BY <1>3, <2>1, <2>2
<1>6. (nextStartClusterIndex' - search'.from) % search'.n = IF p = search.n THEN 0 ELSE p
  <2>1. nextStartClusterIndex' = (search.from + p) % search.n
    BY <1>2 DEF Window
  <2> HIDE DEF p
  <2>2. (((search.from + p) % search.n) - search.from) % search.n = IF p = search.n THEN 0 ELSE p
    BY <1>3, <1>5, Rotation
  <2> QED
    BY <1>4, <2>1, <2>2
<1> HIDE DEF p
<1> DEFINE gone == PassedOver'
<1>7. \A i \in gone : i \in 0..(p - 1) /\ i \notin Done
  <2>1. gone = {i \in 0..(((nextStartClusterIndex' - search'.from) % search'.n) - 1) :
                  /\ verdict'[ClusterAt(search', i)] # "unfit"
                  /\ ClusterAt(search', i) \notin Elements(feasibleClusters')}
    BY DEF PassedOver, Elements
  <2>2. \A i : ClusterAt(search', i) = ClusterAt(search, i)
    BY <1>4 DEF ClusterAt
  <2>3. \A i \in gone : i \in 0..(p - 1)
    BY <1>3, <1>5, <1>6, <2>1
  <2>4. \A i \in gone : i \notin Done
    BY <1>2, <2>1, <2>2 DEF Done
  <2> QED
    BY <2>3, <2>4
<1> HIDE DEF gone
<1>8. ASSUME NEW i \in gone
      PROVE  i \in Nat /\ \E w \in Worker \ {head} : lo[w] <= i /\ i < hi[w]
  <2>1. i \in Nat /\ i < lo[head] /\ i \in 0..(top - 1) /\ i \notin Done
    BY <1>5, <1>7, <1>8
  <2>2. PICK w \in Worker : lo[w] <= i /\ i < hi[w]
    BY <1>1, <2>1 DEF Rests
  <2>3. w # head
    BY <2>1, <2>2
  <2> QED
    BY <2>1, <2>2, <2>3
<1>9. \A w \in Worker : hi[w] - lo[w] <= chunkSizeFor(search.n)
  BY <1>1 DEF Rests
<1>10. Cardinality(gone) <= (Cardinality(Worker) - 1) * chunkSizeFor(search.n)
  BY <1>3, <1>8, <1>9, RestsCount
<1> QED
  BY <1>4, <1>10 DEF gone, SkipsBounded

(* Where nothing is passed over the bound holds.                           *)
LEMMA NothingSkipped ==
  ASSUME search.n \in 1..MaxClusters, PassedOver = {}
  PROVE  SkipsBounded
<1>1. Cardinality(PassedOver) = 0
  BY FS_EmptySet
<1>2. (Cardinality(Worker) - 1) * chunkSizeFor(search.n) \in Nat
  BY BoundFacts
<1> QED
  BY <1>1, <1>2 DEF SkipsBounded

(* Without filter plugins every cluster of the window has a place.         *)
LEMMA TakeAllSkips ==
  ASSUME TypeOK, NEW n \in 1..MaxClusters, NEW strategy \in Strategy, TakeAll(n, strategy)
  PROVE  SkipsBounded'
<1> DEFINE want == numFeasibleClustersToFind(n, strategy)
<1>1. /\ search'.n = n /\ search'.want = want /\ search'.from = nextStartClusterIndex
      /\ feasibleClusters' = [k \in 1..search'.want |-> ClusterAt(search', k - 1)]
      /\ nextStartClusterIndex' = (nextStartClusterIndex + search'.want) % n
  BY DEF TakeAll, NewSearch
<1>2. want \in Nat /\ want <= n /\ n \in Nat \ {0} /\ nextStartClusterIndex \in Nat
  BY WantFacts, SizeAssumption DEF TypeOK, Index
<1> HIDE DEF want
<1>3. (nextStartClusterIndex' - search'.from) % search'.n = IF want = n THEN 0 ELSE want
  <2>1. (((nextStartClusterIndex + want) % n) - nextStartClusterIndex) % n = IF want = n THEN 0 ELSE want
    BY <1>2, Rotation
  <2> QED
    BY <1>1, <2>1
<1>4. \A i \in 0..(want - 1) : ClusterAt(search', i) \in Elements(feasibleClusters')
  <2> SUFFICES ASSUME NEW i \in 0..(want - 1)
               PROVE  ClusterAt(search', i) \in Elements(feasibleClusters')
    OBVIOUS
  <2>1. i + 1 \in 1..want /\ (i + 1) - 1 = i
    BY <1>2
  <2>2. i + 1 \in DOMAIN feasibleClusters' /\ feasibleClusters'[i + 1] = ClusterAt(search', i)
    BY <1>1, <2>1
  <2> QED
    BY <2>2 DEF Elements
<1>5. PassedOver' = {}
  <2>1. PassedOver' = {i \in 0..(((nextStartClusterIndex' - search'.from) % search'.n) - 1) :
                  /\ verdict'[ClusterAt(search', i)] # "unfit"
                  /\ ClusterAt(search', i) \notin Elements(feasibleClusters')}
    BY DEF PassedOver, Elements
  <2>2. \A i \in PassedOver' : i \in 0..(want - 1)
    BY <1>2, <1>3, <2>1
  <2> QED
    BY <1>4, <2>1, <2>2
<1>6. Cardinality(PassedOver') = 0
  BY <1>5, FS_EmptySet
<1>7. (Cardinality(Worker) - 1) * chunkSizeFor(search'.n) \in Nat
  BY <1>1, BoundFacts
<1> QED
  BY <1>6, <1>7 DEF SkipsBounded

(* The invariant of the bound: the rests while a search runs, the bound    *)
(* itself between searches.                                                *)
SkipInv ==
  /\ IndInv
  /\ search.stage = "run" => Window
  /\ SkipsBounded

(* Before the first search nothing has been passed over.                   *)
LEMMA InitSkips == Init => SkipInv
<1> SUFFICES ASSUME Init PROVE SkipInv
  OBVIOUS
<1>1. search.n = 1 /\ search.from = 0 /\ nextStartClusterIndex = 0 /\ search.stage = "failed"
  BY DEF Init
<1>2. (nextStartClusterIndex - search.from) % search.n = 0
  BY <1>1
<1>3. PassedOver = {}
  BY <1>2 DEF PassedOver
<1>4. search.n \in 1..MaxClusters
  BY <1>1, SizeAssumption
<1> QED
  BY <1>1, <1>3, <1>4, InitInv, NothingSkipped DEF SkipInv

(* Every step keeps it.                                                    *)
LEMMA NextSkips == SkipInv /\ [Next]_vars => SkipInv'
<1> SUFFICES ASSUME SkipInv, [Next]_vars PROVE SkipInv'
  OBVIOUS
<1>1. IndInv /\ IndInv' /\ TypeOK
  BY NextInv DEF SkipInv, IndInv
<1>2. ASSUME NEW n \in 1..MaxClusters, NEW strategy \in Strategy, StartSearch(n, strategy)
      PROVE  SkipInv'
  <2>1. search'.stage = "run"
    BY <1>2 DEF StartSearch, NewSearch
  <2> QED
    BY <1>1, <1>2, <2>1, StartWindow DEF SkipInv, SkipsBounded
<1>3. ASSUME NEW n \in 1..MaxClusters, NEW strategy \in Strategy, TakeAll(n, strategy)
      PROVE  SkipInv'
  <2>1. search'.stage = "done"
    BY <1>3 DEF TakeAll, NewSearch
  <2> QED
    BY <1>1, <1>3, <2>1, TakeAllSkips DEF SkipInv
<1>4. ASSUME NEW w \in Worker, WorkerStep(w)
      PROVE  SkipInv'
  <2>1. search.stage = "run" /\ search' = search
    BY <1>1, <1>4, WorkerStepInv
  <2>2. Running /\ Window
    BY <1>1, <2>1 DEF SkipInv, IndInv
  <2> QED
    BY <1>1, <1>4, <2>1, <2>2, WindowStep DEF SkipInv, SkipsBounded
<1>5. CASE FinishSearch
  <2>1. Running /\ Window
    BY <1>1, <1>5 DEF SkipInv, IndInv, FinishSearch
  <2>2. search'.stage # "run"
    BY <1>1, <1>5, <2>1, FinishInv
  <2> QED
    BY <1>1, <1>5, <2>1, <2>2, FinishSkips DEF SkipInv
<1>6. CASE Shutdown
  <2>1. /\ search.stage = "run" /\ cancelled' = TRUE
        /\ UNCHANGED <<nextStartClusterIndex, search, toProcess, worker, verdict, feasibleClusters>>
    BY <1>6 DEF Shutdown, found
  <2>2. PICK top \in Nat, head \in Worker, lo \in [Worker -> Nat], hi \in [Worker -> Nat] :
          Rests(top, head, lo, hi)
    BY <2>1 DEF SkipInv, Window
  <2>3. Done' = Done
    BY <2>1 DEF Done
  <2>4. \A w \in Worker : Holds(w)' => Holds(w)
    BY <2>1 DEF Holds
  <2>5. Rests(top, head, lo, hi)'
    BY <1>1, <2>1, <2>2, <2>3, <2>4, RestsKept
  <2> QED
    BY <1>1, <2>1, <2>5 DEF SkipInv, Window, SkipsBounded
<1>7. CASE UNCHANGED vars
  <2>1. UNCHANGED <<nextStartClusterIndex, search, toProcess, worker, feasibleClusters, verdict,
                    cancelled>>
    BY <1>7 DEF vars, found, signals
  <2>2. Done' = Done /\ \A w \in Worker : Holds(w)' <=> Holds(w)
    BY <2>1 DEF Done, Holds
  <2>3. \A top \in Nat, head \in Worker, lo \in [Worker -> Nat], hi \in [Worker -> Nat] :
          Rests(top, head, lo, hi)' <=> Rests(top, head, lo, hi)
    BY <2>1, <2>2 DEF Rests
  <2>4. PassedOver' = PassedOver
    BY <2>1 DEF PassedOver
  <2>5. SkipsBounded'
    BY <2>1, <2>4 DEF SkipInv, SkipsBounded
  <2> QED
    BY <1>1, <2>1, <2>3, <2>5 DEF SkipInv, Window
<1> QED
  BY <1>2, <1>3, <1>4, <1>5, <1>6, <1>7 DEF Next

(* Starting where the last search left off is fair for any number of       *)
(* goroutines and clusters: although pieces end out of order and searches  *)
(* are cancelled in the middle, the clusters passed over fit into the      *)
(* chunks of all goroutines but one.                                       *)
THEOREM FewSkipped == Spec => []SkipsBounded
<1>1. SkipInv => SkipsBounded
  BY DEF SkipInv
<1> QED
  BY <1>1, InitSkips, NextSkips, PTL DEF Spec
=============================================================================
