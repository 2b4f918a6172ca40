--------------------------- MODULE ParallelFilter ---------------------------
(***************************************************************************)
(* findClustersThatPassFilters of the scheduling algorithm: the filter     *)
(* plugins run on the clusters of one cycle in parallel.  Goroutines take  *)
(* chunks of the cluster list, allot the places of feasibleClusters by an  *)
(* atomic counter, and cancel the search when enough clusters are found or *)
(* a plugin fails.  Cycles follow each other and start in the list where   *)
(* the cycle before left off.                                              *)
(*                                                                         *)
(* A cluster is its index in the list, a piece its position in the search. *)
(***************************************************************************)
EXTENDS Integers, Sequences, FiniteSets

CONSTANTS
  Worker,       \* the goroutines of the Parallelizer; more than there are chunks find none
  MaxClusters,  \* bound on the length of the cluster list
  MinFeasible,  \* minFeasibleClustersToFind
  Percentage,   \* percentageOfClustersToScore, 0 for adaptive
  None

ASSUME WorkerAssumption == IsFiniteSet(Worker) /\ Worker # {}
ASSUME SizeAssumption ==
  /\ MaxClusters \in Nat \ {0}
  /\ MinFeasible \in Nat \ {0}
  /\ Percentage \in Nat
ASSUME NoneAssumption == None \notin Nat

Strategy == {"Replication", "Dividing"}

MinOf(a, b) == IF a < b THEN a ELSE b

minFeasibleClustersPercentageToFind == 5

(* the share of n clusters to look for, in percent *)
AdaptivePercentage(n) ==
  IF Percentage > 0 THEN Percentage
  ELSE LET p == 50 - (n \div 125) IN
       IF p < minFeasibleClustersPercentageToFind
       THEN minFeasibleClustersPercentageToFind ELSE p

numFeasibleClustersToFind(n, strategy) ==
  IF n < MinFeasible \/ Percentage >= 100 \/ strategy = "Replication"
  THEN n
  ELSE LET m == (n * AdaptivePercentage(n)) \div 100 IN
       IF m < MinFeasible THEN MinFeasible ELSE m

(* int(math.Sqrt(n)) *)
Sqrt(n) == Cardinality({s \in 1..n : s * s <= n})

chunkSizeFor(n) ==
  LET s == Sqrt(n)
      r == (n \div Cardinality(Worker)) + 1
  IN  IF s > r THEN r ELSE IF s < 1 THEN 1 ELSE s

VARIABLES
  nextStartClusterIndex,  \* of genericScheduler, kept between cycles
  search,                 \* the cycle: stage, list length, places, first cluster
  toProcess,              \* the first piece of the first chunk nobody has taken
  worker,                 \* program counter and pieces of every goroutine
  feasibleClustersLen,
  feasibleClusters,
  verdict,                \* what the filters said of each cluster so far
  errCh,                  \* the channel of capacity one holds an error
  cancelled,              \* ctx is done
  stopped,                \* ... because the scheduler is shutting down
  result

found == <<feasibleClustersLen, feasibleClusters>>
signals == <<errCh, cancelled, stopped>>
vars == <<nextStartClusterIndex, search, toProcess, worker, found, verdict, signals, result>>

Index == 0..(MaxClusters - 1)
Verdict == {"unknown", "fit", "unfit", "error"}
Searches == [stage : {"run", "done", "failed"}, n : 1..MaxClusters,
             want : 1..MaxClusters, from : Index]
Steps == {"take", "next", "filter", "store", "cancel", "undo", "fail", "exit"}
Workers == [pc : Steps, piece : 0..MaxClusters, end : 0..MaxClusters, slot : 0..MaxClusters]
Exited == [pc |-> "exit", piece |-> 0, end |-> 0, slot |-> 0]

(* Nothing that the loop carries from cycle to cycle leaves the list, and  *)
(* every counter stays in its range.                                       *)
TypeOK ==
  /\ nextStartClusterIndex \in Index
  /\ search \in Searches
  /\ toProcess \in 0..MaxClusters
  /\ worker \in [Worker -> Workers]
  /\ feasibleClustersLen \in Nat
  /\ feasibleClusters \in [1..search.want -> Index \cup {None}]
  /\ verdict \in [0..(search.n - 1) -> Verdict]
  /\ errCh \in BOOLEAN /\ cancelled \in BOOLEAN /\ stopped \in BOOLEAN
  /\ result \in Seq(Index \cup {None})

(* before the first search, as after one that failed *)
Init ==
  /\ nextStartClusterIndex = 0
  /\ search = [stage |-> "failed", n |-> 1, want |-> 1, from |-> 0]
  /\ toProcess = 0
  /\ worker = [w \in Worker |-> Exited]
  /\ feasibleClustersLen = 0
  /\ feasibleClusters = [k \in 1..1 |-> None]
  /\ verdict = [c \in 0..0 |-> "unknown"]
  /\ errCh = FALSE /\ cancelled = FALSE /\ stopped = FALSE
  /\ result = <<>>

(* the piece i of search s is this cluster of the list *)
ClusterAt(s, i) == (s.from + i) % s.n

(* the list has n clusters, of which want are needed *)
NewSearch(n, strategy, stage) ==
  search' = [stage |-> stage, n |-> n,
             want |-> numFeasibleClustersToFind(n, strategy),
             from |-> nextStartClusterIndex]

(* a profile with filter plugins *)
StartSearch(n, strategy) ==
  /\ search.stage # "run" /\ ~stopped
  /\ NewSearch(n, strategy, "run")
  /\ toProcess' = 0
  /\ worker' = [w \in Worker |-> [Exited EXCEPT !.pc = "take"]]
  /\ feasibleClustersLen' = 0
  /\ feasibleClusters' = [k \in 1..search'.want |-> None]
  /\ verdict' = [c \in 0..(n - 1) |-> "unknown"]
  /\ errCh' = FALSE /\ cancelled' = FALSE
  /\ result' = <<>>
  /\ UNCHANGED <<nextStartClusterIndex, stopped>>

(* a profile without: the next want clusters are taken as they come *)
TakeAll(n, strategy) ==
  /\ search.stage # "run" /\ ~stopped
  /\ NewSearch(n, strategy, "done")
  /\ toProcess' = 0
  /\ worker' = [w \in Worker |-> Exited]
  /\ feasibleClustersLen' = search'.want
  /\ feasibleClusters' = [k \in 1..search'.want |-> ClusterAt(search', k - 1)]
  /\ verdict' = [c \in 0..(n - 1) |-> "fit"]
  /\ errCh' = FALSE /\ cancelled' = FALSE
  /\ result' = feasibleClusters'
  /\ nextStartClusterIndex' = (nextStartClusterIndex + search'.want) % n
  /\ UNCHANGED stopped

-----------------------------------------------------------------------------
(* The goroutines: ParallelizeUntil and checkCluster.                      *)

Goto(w, pc) == worker' = [worker EXCEPT ![w].pc = pc]

Leave(w) == worker' = [worker EXCEPT ![w] = Exited]

(* for chunk := range toProcess *)
TakeChunk(w) ==
  /\ search.stage = "run" /\ worker[w].pc = "take"
  /\ IF toProcess = search.n
     THEN Leave(w) /\ UNCHANGED toProcess
     ELSE LET end == MinOf(toProcess + chunkSizeFor(search.n), search.n) IN
          /\ worker' = [worker EXCEPT ![w] =
                          [pc |-> "next", piece |-> toProcess, end |-> end, slot |-> 0]]
          /\ toProcess' = end
  /\ UNCHANGED <<nextStartClusterIndex, search, found, verdict, signals, result>>

(* the context is looked at before each piece *)
NextPiece(w) ==
  /\ search.stage = "run" /\ worker[w].pc = "next"
  /\ IF worker[w].piece = worker[w].end THEN Goto(w, "take")
     ELSE IF cancelled THEN Leave(w)
     ELSE Goto(w, "filter")
  /\ UNCHANGED <<nextStartClusterIndex, search, toProcess, found, verdict, signals, result>>

(* mutant: the search stops one cluster early *)
TooManyEarly(length) == length >= search.want

TooMany(length) == length > search.want

(* still at the same piece *)
At(w, pc, slot) ==
  [pc |-> pc, piece |-> worker[w].piece, end |-> worker[w].end, slot |-> slot]

NextOf(w) ==
  [pc |-> "next", piece |-> worker[w].piece + 1, end |-> worker[w].end, slot |-> 0]

(* RunFilterPlugins and what checkCluster does with v, up to AddInt32 *)
FilterCluster(w, v) ==
  /\ search.stage = "run" /\ worker[w].pc = "filter"
  /\ verdict' = [verdict EXCEPT ![ClusterAt(search, worker[w].piece)] = v]
  /\ \/ /\ v = "fit"
        /\ feasibleClustersLen' = feasibleClustersLen + 1
        /\ worker' = [worker EXCEPT ![w] =
                        IF TooMany(feasibleClustersLen') THEN At(w, "cancel", 0)
                        ELSE At(w, "store", feasibleClustersLen')]
     \/ /\ v = "unfit"
        /\ worker' = [worker EXCEPT ![w] = NextOf(w)]
        /\ UNCHANGED feasibleClustersLen
     \/ /\ v = "error"
        /\ Goto(w, "fail")
        /\ UNCHANGED feasibleClustersLen
  /\ UNCHANGED <<nextStartClusterIndex, search, toProcess, feasibleClusters, signals, result>>

StoreCluster(w) ==
  /\ search.stage = "run" /\ worker[w].pc = "store"
  /\ feasibleClusters' = [feasibleClusters EXCEPT ![worker[w].slot] = ClusterAt(search, worker[w].piece)]
  /\ worker' = [worker EXCEPT ![w] = NextOf(w)]
  /\ UNCHANGED <<nextStartClusterIndex, search, toProcess, feasibleClustersLen, verdict,
                 signals, result>>

Cancel(w) ==
  /\ search.stage = "run" /\ worker[w].pc = "cancel"
  /\ cancelled' = TRUE
  /\ Goto(w, "undo")
  /\ UNCHANGED <<nextStartClusterIndex, search, toProcess, found, verdict, errCh, stopped, result>>

UndoAdd(w) ==
  /\ search.stage = "run" /\ worker[w].pc = "undo"
  /\ feasibleClustersLen' = feasibleClustersLen - 1
  /\ worker' = [worker EXCEPT ![w] = NextOf(w)]
  /\ UNCHANGED <<nextStartClusterIndex, search, toProcess, feasibleClusters, verdict,
                 signals, result>>

(* mutant: a plain send, which waits until the channel is empty *)
SendAndWait == ~errCh /\ errCh' = TRUE

(* a second error is dropped *)
SendError == errCh' = TRUE

SendErrorWithCancel(w) ==
  /\ search.stage = "run" /\ worker[w].pc = "fail"
  /\ SendError
  /\ cancelled' = TRUE
  /\ worker' = [worker EXCEPT ![w] = NextOf(w)]
  /\ UNCHANGED <<nextStartClusterIndex, search, toProcess, found, verdict, stopped, result>>

-----------------------------------------------------------------------------
(* mutant: the sum is not taken modulo the length of the list *)
AdvanceUnwrapped(processed) == nextStartClusterIndex' = nextStartClusterIndex + processed

(* mutant: every piece that was handed out counts as processed *)
AdvanceHandedOut(processed) ==
  processed \in Nat /\ nextStartClusterIndex' = (nextStartClusterIndex + toProcess) % search.n

Advance(processed) ==
  nextStartClusterIndex' = (nextStartClusterIndex + processed) % search.n

(* ClusterToStatusMap *)
Unfit == {c \in 0..(search.n - 1) : verdict[c] = "unfit"}

(* Until returns when the last goroutine has *)
FinishSearch ==
  /\ search.stage = "run"
  /\ \A w \in Worker : worker[w].pc = "exit"
  /\ Advance(feasibleClustersLen + Cardinality(Unfit))
  /\ result' = IF errCh THEN <<>> ELSE SubSeq(feasibleClusters, 1, feasibleClustersLen)
  /\ search' = [search EXCEPT !.stage = IF errCh THEN "failed" ELSE "done"]
  /\ errCh' = FALSE
  /\ UNCHANGED <<toProcess, worker, found, verdict, cancelled, stopped>>

(* the context of the scheduler is cancelled, and that of the search with it *)
Shutdown ==
  /\ search.stage = "run" /\ ~stopped
  /\ stopped' = TRUE /\ cancelled' = TRUE
  /\ UNCHANGED <<nextStartClusterIndex, search, toProcess, worker, found, verdict, errCh, result>>

-----------------------------------------------------------------------------
WorkerStep(w) ==
  \/ TakeChunk(w)
  \/ NextPiece(w)
  \/ \E v \in {"fit", "unfit", "error"} : FilterCluster(w, v)
  \/ StoreCluster(w)
  \/ Cancel(w)
  \/ UndoAdd(w)
  \/ SendErrorWithCancel(w)

Next ==
  \/ \E n \in 1..MaxClusters, strategy \in Strategy :
       StartSearch(n, strategy) \/ TakeAll(n, strategy)
  \/ \E w \in Worker : WorkerStep(w)
  \/ FinishSearch
  \/ Shutdown

Spec == Init /\ [][Next]_vars

(* goroutines that can run do run *)
FairSpec == Spec /\ (\A w \in Worker : WF_vars(WorkerStep(w))) /\ WF_vars(FinishSearch)

-----------------------------------------------------------------------------
(* Properties.                                                             *)

Elements(s) == {s[k] : k \in DOMAIN s}

(* When a search succeeds before the scheduler is stopped, no filter has   *)
(* failed, and its answer is a list of different clusters that pass the    *)
(* filters, without a hole where a goroutine gave its place back, and      *)
(* either full or the list of every cluster that passes, none having been  *)
(* left out when others cancelled.                                         *)
SearchComplete ==
  search.stage = "done" /\ ~stopped =>
    /\ \A c \in DOMAIN verdict : verdict[c] # "error"
    /\ \A k \in DOMAIN result : result[k] # None /\ verdict[result[k]] = "fit"
    /\ \A j, k \in DOMAIN result : result[j] = result[k] => j = k
    /\ \/ Len(result) = search.want
       \/ \A c \in DOMAIN verdict :
            verdict[c] = "unfit" \/ (verdict[c] = "fit" /\ c \in Elements(result))

(* the pieces between the start of this search and that of the next which  *)
(* are neither in the result nor in the diagnosis                          *)
PassedOver ==
  {i \in 0..(((nextStartClusterIndex - search.from) % search.n) - 1) :
     LET c == ClusterAt(search, i) IN
       verdict[c] # "unfit" /\ c \notin Elements(feasibleClusters)}

(* "starting from where we left off": pieces end out of order, and still   *)
(* the next search passes over no more clusters than the chunks of all     *)
(* goroutines but one hold; with a single goroutine it passes over none.   *)
SkipsBounded ==
  search.stage # "run" =>
    Cardinality(PassedOver) <= (Cardinality(Worker) - 1) * chunkSizeFor(search.n)

(* A search ends, however many filters fail at once and whoever cancels it. *)
SearchEnds == search.stage = "run" ~> search.stage # "run"
=============================================================================
