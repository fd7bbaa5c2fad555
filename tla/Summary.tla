------------------------------ MODULE Summary ------------------------------
(***************************************************************************)
(* The statistics of a stream of samples: metrics::Summary.                *)
(*                                                                         *)
(* Up to window_size_ samples are kept in an augmented search tree whose   *)
(* nodes carry the number of samples below them.  A full window, and any   *)
(* look at the statistics, folds the percentiles of the window into the    *)
(* running ones and clears the tree.  Mean and variance run with every     *)
(* sample.                                                                 *)
(*                                                                         *)
(* The doubles are exact fractions of Scale: the effects of rounding are   *)
(* left out.  A percentile is in units of a tenth of a percent.            *)
(***************************************************************************)
EXTENDS Integers, Sequences, SequencesExt, FiniteSetsExt

CONSTANTS
    Key,          \* the samples there are
    Nil,          \* nullptr
    window_size_,
    Scale,        \* of the running statistics
    MaxSamples    \* bound: samples of a behaviour

ASSUME SummaryAssumption ==
    /\ Key \subseteq Nat \ {0} /\ Nil \notin Key
    /\ window_size_ \in Nat \ {0} /\ MaxSamples \in Nat /\ Scale \in Nat \ {0}

Percentile == {0, 500, 900, 950, 990, 999, 1000}

VARIABLES
    samples_,        \* the tree: root, children, value and metadata of its nodes
    cleared_,        \* the numbers of nodes of the trees cleared
    initialized_,
    pct,             \* min_, p50_, p90_, p95_, p99_, p999_, max_, times Scale
    total_samples_,
    mean_,           \* times Scale
    squared_total_,
    variance_,       \* times Scale^2
    allocated, freed,  \* history: nodes allocated and freed
    window, all, gone  \* history: how often a key is in the window and in the
                       \* stream, and the keys that have left a window

statistics == <<initialized_, pct, total_samples_, mean_, squared_total_, variance_>>
memory == <<cleared_, allocated, freed>>
history == <<window, all, gone>>
vars == <<samples_, statistics, memory, history>>

-----------------------------------------------------------------------------
(* ATree.                                                                   *)

EmptyTree == [root |-> Nil,
              left |-> [k \in Key |-> Nil], right |-> [k \in Key |-> Nil],
              value |-> [k \in Key |-> 0], metadata |-> [k \in Key |-> 0]]

\* metadata() of a child that may be nullptr.
Total(tree, c) == IF c = Nil THEN 0 ELSE tree.metadata[c]

\* FindInternal: the nodes on the way to a key, the key excluded.
FindInternal(tree, key) ==
    LET walk[c \in Key \cup {Nil}] ==
          IF c = Nil \/ c = key THEN <<>>
          ELSE <<c>> \o walk[IF key > c THEN tree.right[c] ELSE tree.left[c]]
    IN walk[tree.root]

\* SubtreeCountVisitor::Visit.
Visit(c, tree) ==
    [tree EXCEPT !.metadata[c] = Total(tree, tree.left[c]) + Total(tree, tree.right[c])
                                   + tree.value[c]]

\* Mutant: only the last node is visited.
VisitLast(tree, path) == Visit(Last(path), tree)
\* The visitor goes up the stack, from the last node on it to the first.
VisitAll(tree, path) == FoldRight(Visit, path, tree)

\* InsertInternal: a new node with one sample below the last node of the path.
InsertInternal(tree, key, path) ==
    LET new == [tree EXCEPT !.value[key] = 1, !.metadata[key] = 1]
        parent == Last(path)
    IN IF path = <<>> THEN [new EXCEPT !.root = key]
       ELSE IF key < parent THEN [new EXCEPT !.left[parent] = key]
       ELSE [new EXCEPT !.right[parent] = key]

\* InsertOrUpdate, whose update counts the sample.
IsNew(tree, key) == tree.value[key] = 0
InsertOrUpdate(tree, key) ==
    LET path == FindInternal(tree, key)
        changed == IF IsNew(tree, key) THEN InsertInternal(tree, key, path)
                   ELSE [tree EXCEPT !.value[key] = @ + 1]
    IN VisitAll(changed, Append(path, key))

\* The traversal of the destructor.
Reachable(tree) ==
    LET below[c \in Key \cup {Nil}] ==
          IF c = Nil THEN {} ELSE {c} \cup below[tree.left[c]] \cup below[tree.right[c]]
    IN below[tree.root]

-----------------------------------------------------------------------------
(* PercentileAccessor.                                                      *)

GetSize(tree) == Total(tree, tree.root)

\* The cast to int rounds down.
Rank(tree, p) == IF p = 0 THEN 1 ELSE (p * GetSize(tree)) \div 1000

\* Mutant: the rank stays the same in the right subtree.
RankSame(tree, c, rank) == rank
\* The rank in the right subtree of c.
RankRight(tree, c, rank) == rank - (tree.metadata[c] - Total(tree, tree.right[c]))

FindNthPercentile(tree, p) ==
    LET walk[c \in Key, rank \in Int] ==
          LET left == tree.left[c]
              right == tree.right[c]
          IN IF left = Nil /\ right = Nil THEN c
             ELSE IF /\ tree.metadata[c] - Total(tree, right) >= rank
                     /\ Total(tree, left) < rank THEN c
             ELSE IF left # Nil /\ Total(tree, left) >= rank THEN walk[left, rank]
             ELSE IF right = Nil THEN Nil
             ELSE walk[right, RankRight(tree, c, rank)]
    IN walk[tree.root, Rank(tree, p)]

-----------------------------------------------------------------------------
(* Summary.                                                                 *)

Init ==
    /\ samples_ = EmptyTree /\ cleared_ = <<>>
    /\ initialized_ = FALSE
    /\ pct = [p \in Percentile |-> 0]
    /\ total_samples_ = 0 /\ mean_ = 0 /\ squared_total_ = 0 /\ variance_ = 0
    /\ allocated = 0 /\ freed = 0
    /\ window = [k \in Key |-> 0] /\ all = [k \in Key |-> 0] /\ gone = {}

Smaller(a, b) == IF a < b THEN a ELSE b
Larger(a, b) == IF a < b THEN b ELSE a

\* The extremes are those of all samples; what lies between them is moved by the
\* share that one sample has in the stream.
UpdatePercentile(p, value) ==
    CASE p = 0 -> Smaller(pct[p], value)
      [] p = 1000 -> Larger(pct[p], value)
      [] OTHER -> pct[p] + (value - pct[p]) \div total_samples_

\* The trees that wait for the destructor after the present one was cleared.
Clear == Append(cleared_, Cardinality(Reachable(samples_)))

\* What UpdatePercentilesAndClearSamples does when there are samples.
FoldWindow ==
    LET value(p) == FindNthPercentile(samples_, p) * Scale
    IN /\ pct' = [p \in Percentile |->
                    IF initialized_ THEN UpdatePercentile(p, value(p)) ELSE value(p)]
       /\ initialized_' = TRUE
       /\ cleared_' = Clear
       /\ gone' = gone \cup {k \in Key : window[k] > 0}

Full == GetSize(samples_) = window_size_

Variance(total, mean, squared) == (squared * Scale * Scale) \div total - mean * mean

\* operator<<.
Sample(v) ==
    LET tree == IF Full THEN EmptyTree ELSE samples_
        seen == IF Full THEN [k \in Key |-> 0] ELSE window
    IN /\ freed = 0 /\ total_samples_ < MaxSamples
       /\ IF Full THEN FoldWindow ELSE UNCHANGED <<pct, initialized_, cleared_, gone>>
       /\ samples_' = InsertOrUpdate(tree, v)
       /\ allocated' = allocated + IF IsNew(tree, v) THEN 1 ELSE 0
       /\ total_samples_' = total_samples_ + 1
       /\ mean_' = mean_ + (v * Scale - mean_) \div total_samples_'
       /\ squared_total_' = squared_total_ + v * v
       /\ variance_' = Variance(total_samples_', mean_', squared_total_')
       /\ window' = [seen EXCEPT ![v] = @ + 1]
       /\ all' = [all EXCEPT ![v] = @ + 1]
       /\ UNCHANGED freed

\* Any look at the percentiles: the getters, ToString, ToProto, ToMetrics.  With
\* no sample in the window it changes nothing.
Report ==
    /\ freed = 0 /\ GetSize(samples_) # 0
    /\ FoldWindow
    /\ samples_' = EmptyTree
    /\ window' = [k \in Key |-> 0]
    /\ UNCHANGED <<total_samples_, mean_, squared_total_, variance_, allocated, freed, all>>

\* ~ATree.
Destroy ==
    /\ freed = 0 /\ allocated > 0
    /\ freed' = FoldLeft(+, 0, cleared_) + Cardinality(Reachable(samples_))
    /\ UNCHANGED <<samples_, statistics, cleared_, allocated, history>>

Next == (\E v \in Key : Sample(v)) \/ Report \/ Destroy

Spec == Init /\ [][Next]_vars

-----------------------------------------------------------------------------
(* Properties.                                                              *)

TypeOK ==
    /\ samples_.root \in Key \cup {Nil}
    /\ samples_.left \in [Key -> Key \cup {Nil}]
    /\ samples_.right \in [Key -> Key \cup {Nil}]
    /\ GetSize(samples_) \in 0 .. window_size_
    /\ \A p \in Percentile : pct[p] \in 0 .. Scale * Max(Key)
    /\ total_samples_ \in 0 .. MaxSamples
    /\ initialized_ \in BOOLEAN

\* The tree is a search tree that holds every sample of the window once, and the
\* metadata of a node is the number of samples in the subtree below it, after
\* every mixture of new values and repeated ones.
Below(c) == Reachable([samples_ EXCEPT !.root = c])
TreeIsWindow ==
    LET nodes == Reachable(samples_)
    IN /\ nodes = {k \in Key : window[k] > 0}
       /\ \A c \in nodes :
            /\ samples_.value[c] = window[c]
            /\ samples_.metadata[c] = MapThenSumSet(LAMBDA k : window[k], Below(c))
            /\ \A k \in Below(samples_.left[c]) : k < c
            /\ \A k \in Below(samples_.right[c]) : k > c

\* A percentile is the sample with its rank in the sorted window, the smallest one
\* when the rank is rounded down to zero.
AtMost(k) == MapThenSumSet(LAMBDA x : window[x], {x \in Key : x <= k})
OrderStatistic(rank) == CHOOSE k \in Key : AtMost(k) >= rank /\ AtMost(k) - window[k] < rank
FindsOrderStatistic ==
    GetSize(samples_) > 0 =>
      \A p \in Percentile :
        FindNthPercentile(samples_, p) = OrderStatistic(Larger(1, Rank(samples_, p)))

\* min_ and max_ are the extremes of all samples that have left a window, however
\* the windows are cut by looks at the statistics.
Extremes ==
    initialized_ => pct[0] = Scale * Min(gone) /\ pct[1000] = Scale * Max(gone)

\* The running percentiles keep their order, although each is moved on its own by
\* windows of different lengths.
Ordered == \A p, q \in Percentile : p <= q => pct[p] <= pct[q]

\* The running mean and variance are those of the whole stream.
Sum(f(_)) == MapThenSumSet(LAMBDA k : all[k] * f(k), Key)
Moments ==
    /\ mean_ * total_samples_ = Sum(LAMBDA k : k * Scale)
    /\ variance_ * total_samples_ = Sum(LAMBDA k : (k * Scale - mean_) * (k * Scale - mean_))

\* The destructor frees every node that was ever allocated: none is lost when a
\* window is cleared.
NoLeak == freed # 0 => freed = allocated

\* The tree is right at any time, and none of its nodes is lost when it goes.
TreeOK == TypeOK /\ TreeIsWindow /\ NoLeak

\* What the getters report is what the samples say.
StatisticsOK == FindsOrderStatistic /\ Extremes /\ Ordered /\ Moments
=============================================================================
