---------------------------- MODULE DownloadsProofs ----------------------------
(***************************************************************************)
(* Proofs about Downloads, for any number of downloads, blocks, threads,   *)
(* faults and callers: split_ranges cuts a file so that every block is     *)
(* fetched, and by one task only; a monitor that ends leaves a verdict;    *)
(* and a download that is told to be complete is whole.                    *)
(***************************************************************************)
EXTENDS Downloads, TLAPS

\* Block b belongs to range r.
Within(b, r) == r[1] <= b /\ b <= r[2]

\* Before its tasks are spawned a download has none; they are the first ones.
ShapeOf(d) ==
    /\ phase[d] \in {"probing", "opened"} =>
         awaited[d] = 1 /\ \A i \in Chunks : chunk[d][i] = "absent" /\ flight[d][i] = None
    /\ \A i, j \in Chunks : i <= j /\ chunk[d][i] = "absent" => chunk[d][j] = "absent"
ShapeInv ==
    /\ \A d \in Downloads : ShapeOf(d)
    /\ \A c \in Callers : pc[c] # "idle" => about[c] \in Downloads

\* What the monitor of a download knows, and what it has told.
VerdictOf(d) ==
    /\ failed[d] => d \in errored \cup cancelled
    /\ \A i \in Chunks : i < awaited[d] =>
         chunk[d][i] \notin Running /\ (chunk[d][i] \in {"failed", "crashed"} => failed[d])
    /\ awaited[d] >= Past =>
         chunk[d][1] # "absent" /\ \A i \in Chunks : chunk[d][i] \notin Running
    /\ awaited[d] = Past => ~failed[d]
    /\ awaited[d] = Gone => Finished(d)
    /\ d \in completed => awaited[d] = Gone /\ ~failed[d]
VerdictInv == \A d \in Downloads : VerdictOf(d)

\* Downloads open the file in their order, and while one is alone on the path
\* no other is about to write, or writes.
AloneOf(e) ==
    /\ \A d \in Downloads : d < e => phase[d] # "probing"
    /\ e \notin crowded => \A d \in Downloads \ {e} : phase[d] # "opened" /\ ~Writes(d)
AloneInv == \A e \in Downloads : phase[e] # "probing" => AloneOf(e)

\* The task of chunk i, given range r at the start, has written r up to where it
\* is, but for the block in flight; and all of it when it has ended well.
Covers(d, i, r) ==
    /\ chunk[d][i] \in Running =>
         /\ r[1] <= range[d][i][1] /\ r[2] <= range[d][i][2]
         /\ \A b \in Blocks : r[1] <= b /\ b < range[d][i][1] => file[b] = d \/ flight[d][i] = b
    /\ chunk[d][i] = "ok" => \A b \in Blocks : Within(b, r) => file[b] = d
Divided(d, threads) ==
    LET ranges == SplitRanges(Total, threads)
    IN  \A i \in DOMAIN ranges : chunk[d][i] # "absent" /\ Covers(d, i, ranges[i])
IsDivided(d) == \E threads \in 1..MaxThreads : Divided(d, threads)
CoverInv ==
    \A d \in Downloads : chunk[d][1] # "absent" /\ d \notin crowded \cup short => IsDivided(d)

\* A caller has read the mark of a download that is completed, and answers next.
ToldInv == \A c \in Callers : saw[c].completed => pc[c] = "answer" /\ about[c] \in completed

-----------------------------------------------------------------------------
(* How a file is cut.                                                        *)

\* What div means, for the divisions of split_ranges.
LEMMA Quotient ==
    ASSUME NEW m \in Nat, NEW n \in Nat \ {0}
    PROVE  /\ m \div n \in Nat
           /\ n * (m \div n) <= m /\ m < n * (m \div n) + n
  OBVIOUS

\* More factors, greater products: what the solver must be told of n * size.
LEMMA Monotone ==
    ASSUME NEW m \in Nat, NEW n \in Nat, NEW k \in Nat, m <= n
    PROVE  m * k <= n * k
  OBVIOUS

\* A block between the two ends of a pair of numbers is within it.
LEMMA Between ==
    ASSUME NEW r, NEW lo, NEW hi, NEW b, r[1] = lo, r[2] = hi, lo <= b, b <= hi
    PROVE  Within(b, r)
  BY DEF Within

\* split_ranges never makes an empty range: each is at least one block.
LEMMA Sizes ==
    ASSUME NEW total \in Nat \ {0}, NEW threads \in Nat \ {0}
    PROVE  LET count == Count(total, threads)
               size  == total \div count
           IN  /\ count \in Nat \ {0} /\ size \in Nat \ {0}
               /\ count * size <= total
<1> DEFINE count == Count(total, threads)
           size  == total \div count
<1>1. count \in Nat \ {0} /\ count <= total
  BY DEF Count
<1> HIDE DEF count
<1>2. size \in Nat /\ count * size <= total /\ total < count * size + count
  BY <1>1, Quotient
<1>3. size # 0
  <2>1. SUFFICES ASSUME size = 0 PROVE FALSE
    OBVIOUS
  <2>2. count * size = 0
    BY <1>1, <2>1
  <2> QED
    BY <1>1, <1>2, <2>2
<1> QED
  BY <1>1, <1>2, <1>3 DEF count

\* split_ranges (tasks.rs): whatever the size and the number of threads, every
\* block of the file lies in exactly one range.
THEOREM RangesPartition ==
    ASSUME NEW total \in Nat \ {0}, NEW threads \in Nat \ {0},
           NEW b \in 0..(total - 1)
    PROVE  LET ranges == SplitRanges(total, threads)
           IN  /\ \E i \in DOMAIN ranges : Within(b, ranges[i])
               /\ \A i, j \in DOMAIN ranges :
                     Within(b, ranges[i]) /\ Within(b, ranges[j]) => i = j
<1> DEFINE count == Count(total, threads)
           size  == total \div count
           ranges == SplitRanges(total, threads)
<1>1. count \in Nat \ {0} /\ size \in Nat \ {0} /\ count * size <= total
  BY Sizes
<1>2. /\ DOMAIN ranges = 1..count
      /\ \A i \in 1..count :
            /\ ranges[i][1] = (i - 1) * size
            /\ ranges[i][2] = IF i = count THEN total - 1 ELSE i * size - 1
  BY DEF SplitRanges
<1> HIDE DEF count, size, ranges
<1>3. \E i \in 1..count : Within(b, ranges[i])
  <2> DEFINE q == b \div size
  <2>1. q \in Nat /\ size * q <= b /\ b < size * q + size
    BY <1>1, Quotient
  <2> HIDE DEF q
  <2>2. CASE q + 1 < count
    <3> DEFINE n == q + 1
    <3>1. n \in 1..count /\ n # count
      BY <1>1, <2>1, <2>2
    <3>2. (n - 1) * size = size * q /\ n * size - 1 = size * q + size - 1
      BY <1>1, <2>1
    <3>3. size * q <= b /\ b <= size * q + size - 1
      BY <1>1, <2>1
    <3> HIDE DEF n
    <3>4. ranges[n][1] = size * q /\ ranges[n][2] = size * q + size - 1
      <4>1. ranges[n][1] = (n - 1) * size /\ ranges[n][2] = n * size - 1
        BY <1>2, <3>1
      <4> QED
        BY <3>2, <4>1
    <3>5. Within(b, ranges[n])
      BY <3>3, <3>4, Between
    <3> QED
      BY <3>1, <3>5
  <2>3. CASE count <= q + 1
    <3>1. (count - 1) * size <= q * size
      BY <1>1, <2>1, <2>3, Monotone
    <3>2. (count - 1) * size <= b
      BY <1>1, <2>1, <3>1
    <3>3. ranges[count][1] = (count - 1) * size /\ ranges[count][2] = total - 1
      BY <1>1, <1>2
    <3>4. Within(b, ranges[count])
      BY <3>2, <3>3, Between
    <3> QED
      BY <1>1, <3>4
  <2> QED
    BY <1>1, <2>1, <2>2, <2>3
<1>4. ASSUME NEW i \in 1..count, NEW j \in 1..count, i < j,
             Within(b, ranges[i]), Within(b, ranges[j])
      PROVE  FALSE
  <2>1. i * size <= (j - 1) * size
    BY <1>1, <1>4, Monotone
  <2>2. i # count
    BY <1>1, <1>4
  <2>3. i * size \in Nat /\ (j - 1) * size \in Nat
    BY <1>1, <1>4
  <2>4. ranges[i][2] = i * size - 1 /\ ranges[j][1] = (j - 1) * size
    BY <1>2, <2>2
  <2>5. b <= i * size - 1 /\ (j - 1) * size <= b
    BY <1>4, <2>4 DEF Within
  <2> QED
    BY <2>1, <2>3, <2>5
<1>5. \A i, j \in 1..count : Within(b, ranges[i]) /\ Within(b, ranges[j]) => i = j
  BY <1>1, <1>4
<1> QED
  BY <1>2, <1>3, <1>5 DEF ranges, count, size

\* What the ranges of one download are: as many as there are tasks, each within
\* the file.
LEMMA RangesAre ==
    ASSUME NEW total \in Nat \ {0}, NEW threads \in Nat \ {0}
    PROVE  LET ranges == SplitRanges(total, threads)
           IN  /\ DOMAIN ranges = 1..Count(total, threads)
               /\ Count(total, threads) \in 1..threads
               /\ \A i \in DOMAIN ranges :
                     /\ ranges[i] = <<ranges[i][1], ranges[i][2]>>
                     /\ ranges[i][1] \in 0..(total - 1) /\ ranges[i][2] \in 0..(total - 1)
<1> DEFINE count == Count(total, threads)
           size  == total \div count
           ranges == SplitRanges(total, threads)
<1>1. count \in Nat \ {0} /\ size \in Nat \ {0} /\ count * size <= total
  BY Sizes
<1>2. count \in 1..threads
  BY <1>1 DEF Count
<1>3. /\ DOMAIN ranges = 1..count
      /\ \A i \in 1..count :
            ranges[i] = <<(i - 1) * size, IF i = count THEN total - 1 ELSE i * size - 1>>
  BY DEF SplitRanges
<1> HIDE DEF count, size, ranges
<1>4. ASSUME NEW i \in 1..count
      PROVE  /\ (i - 1) * size \in 0..(total - 1)
             /\ i * size - 1 \in 0..(total - 1)
  <2>1. i * size <= count * size
    BY <1>1, Monotone
  <2>2. (i - 1) * size = i * size - size /\ i * size \in Nat /\ 1 * size <= i * size
    BY <1>1, Monotone
  <2>3. (i - 1) * size \in Nat
    BY <1>1
  <2>4. count * size \in Nat
    BY <1>1
  <2> QED BY <1>1, <2>1, <2>2, <2>3, <2>4
<1>5. ASSUME NEW i \in 1..count
      PROVE  /\ ranges[i] = <<ranges[i][1], ranges[i][2]>>
             /\ ranges[i][1] \in 0..(total - 1) /\ ranges[i][2] \in 0..(total - 1)
  <2>1. total - 1 \in 0..(total - 1)
    OBVIOUS
  <2> QED BY <1>3, <1>4, <2>1
<1> QED BY <1>2, <1>3, <1>5, SMT DEF count, ranges

-----------------------------------------------------------------------------
(* The steps of the tasks, block by block.                                   *)

LEMMA Constants ==
    /\ MaxDownloads \in Nat \ {0} /\ Total \in Nat \ {0} /\ MaxThreads \in Nat \ {0}
    /\ MaxFaults \in Nat /\ None \notin Nat
    /\ 1 \in Chunks /\ Past = MaxThreads + 2 /\ Gone = MaxThreads + 3
BY DownloadsAssumption DEF Chunks, Past, Gone

WorkTypes ==
    /\ chunk \in [Downloads -> [Chunks -> Running \cup Ended]]
    /\ range \in [Downloads -> [Chunks -> (0..Total) \X Blocks]]
    /\ flight \in [Downloads -> [Chunks -> Blocks \cup {None}]]

\* The task of chunk i is at k with range r and block f in flight; no other moves.
Touches(d, i, k, r, f) ==
    /\ WorkTypes'
    /\ chunk'[d][i] = k /\ range'[d][i] = r /\ flight'[d][i] = f
    /\ \A e \in Downloads, j \in Chunks : e # d \/ j # i =>
         chunk'[e][j] = chunk[e][j] /\ range'[e][j] = range[e][j] /\ flight'[e][j] = flight[e][j]

\* A table of tables changed at one place.
LEMMA Cell ==
    ASSUME NEW S, NEW f \in [Downloads -> [Chunks -> S]], NEW d \in Downloads, NEW i \in Chunks,
           NEW x \in S
    PROVE  /\ [f EXCEPT ![d][i] = x] \in [Downloads -> [Chunks -> S]]
           /\ [f EXCEPT ![d][i] = x][d][i] = x
           /\ \A e \in Downloads, j \in Chunks :
                e # d \/ j # i => [f EXCEPT ![d][i] = x][e][j] = f[e][j]
OBVIOUS

LEMMA Pair ==
    ASSUME NEW r \in (0..Total) \X Blocks
    PROVE  /\ r = <<r[1], r[2]>> /\ r[1] \in 0..Total /\ r[2] \in Blocks
           /\ \A x \in 0..Total : [r EXCEPT ![1] = x] = <<x, r[2]>>
           /\ \A x \in Blocks : [r EXCEPT ![2] = x] = <<r[1], x>>
OBVIOUS

LEMMA RestPair == <<0, 0>> \in (0..Total) \X Blocks
BY Constants DEF Blocks

LEMMA RespondTouches ==
    ASSUME WorkTypes, NEW d \in Downloads, NEW i \in Chunks, Respond(d, i)
    PROVE  \E r \in (0..Total) \X Blocks :
             /\ Touches(d, i, "writing", r, flight[d][i])
             /\ r[1] = range[d][i][1] /\ range[d][i][2] <= r[2]
<1> DEFINE old == range[d][i]
<1>1. old \in (0..Total) \X Blocks
  BY DEF WorkTypes
<1>2. "writing" \in Running \cup Ended /\ Total - 1 \in Blocks /\ \A b \in Blocks : b <= Total - 1
  BY Constants DEF Running, Blocks
<1>3. chunk' = [chunk EXCEPT ![d][i] = "writing"] /\ flight' = flight
  BY DEF Respond
<1>4. CASE range' = range
  <2>1. Touches(d, i, "writing", old, flight[d][i])
    BY <1>2, <1>3, <1>4, Cell DEF Touches, WorkTypes
  <2>2. old[1] = range[d][i][1] /\ range[d][i][2] <= old[2]
    BY <1>1, <1>2, Pair DEF Blocks
  <2> QED BY <1>1, <2>1, <2>2
<1>5. CASE range' = [range EXCEPT ![d][i][2] = Total - 1]
  <2> DEFINE r == <<old[1], Total - 1>>
  <2>1. [old EXCEPT ![2] = Total - 1] = r
    BY <1>1, <1>2, Pair
  <2>2. range' = [range EXCEPT ![d][i] = r]
    BY <1>5, <2>1
  <2>3. r \in (0..Total) \X Blocks
    BY <1>1, <1>2, Pair
  <2>4. Touches(d, i, "writing", r, flight[d][i])
    BY <1>2, <1>3, <2>2, <2>3, Cell DEF Touches, WorkTypes
  <2>5. r[1] = range[d][i][1] /\ range[d][i][2] <= r[2]
    BY <1>1, <1>2, Pair
  <2> QED BY <2>3, <2>4, <2>5
<1> QED BY <1>4, <1>5 DEF Respond

LEMMA WriteTouches ==
    ASSUME WorkTypes, NEW d \in Downloads, NEW i \in Chunks, Write(d, i)
    PROVE  /\ Touches(d, i, "writing", <<range[d][i][1] + 1, range[d][i][2]>>, range[d][i][1])
           /\ range[d][i][1] \in Blocks /\ flight[d][i] = None
<1> DEFINE old == range[d][i]
           next == old[1]
<1>1. old \in (0..Total) \X Blocks /\ next \in Nat /\ next <= old[2]
  BY Pair DEF WorkTypes, Write
<1>2. next \in Blocks /\ next + 1 \in 0..Total
  BY <1>1, Constants, Pair DEF Blocks
<1>3. /\ flight' = [flight EXCEPT ![d][i] = next] /\ chunk' = chunk /\ chunk[d][i] = "writing"
      /\ range' = [range EXCEPT ![d][i][1] = next + 1]
  BY DEF Write
<1> DEFINE r == <<next + 1, old[2]>>
<1>4. [old EXCEPT ![1] = next + 1] = r /\ r \in (0..Total) \X Blocks
  BY <1>1, <1>2, Pair
<1>5. range' = [range EXCEPT ![d][i] = r]
  BY <1>3, <1>4
<1> QED BY <1>2, <1>3, <1>4, <1>5, Cell DEF Touches, WorkTypes, Write

LEMMA LandTouches ==
    ASSUME WorkTypes, NEW d \in Downloads, NEW i \in Chunks, Land(d, i)
    PROVE  Touches(d, i, chunk[d][i], range[d][i], None) /\ flight[d][i] \in Blocks
<1>1. flight' = [flight EXCEPT ![d][i] = None] /\ UNCHANGED <<chunk, range>>
  BY DEF Land
<1> QED BY <1>1, Cell DEF Touches, WorkTypes, Land

LEMMA EndTouches ==
    ASSUME WorkTypes, NEW d \in Downloads, NEW i \in Chunks, NEW how \in Ended,
           EndChunk(d, i, how), flight' = flight
    PROVE  Touches(d, i, how, <<0, 0>>, flight[d][i])
BY RestPair, Cell DEF EndChunk, Touches, WorkTypes

\* Whatever a task does but write and flush, it ends: well, or not.
LEMMA ChunkEnds ==
    ASSUME WorkTypes, NEW d \in Downloads, NEW i \in Chunks,
           Flush(d, i) \/ EndShort(d, i) \/ Fail(d, i) \/ Abort(d, i)
    PROVE  \E how \in {"ok", "failed", "crashed"} : Touches(d, i, how, <<0, 0>>, flight[d][i])
BY EndTouches DEF Flush, EndShort, Fail, Abort, Ended

\* The tasks of a download are spawned.
Spawns(d, threads) ==
    LET ranges == SplitRanges(Total, threads)
    IN  /\ WorkTypes'
        /\ flight' = flight
        /\ \A i \in Chunks :
              IF i \in DOMAIN ranges THEN chunk'[d][i] = "asked" /\ range'[d][i] = ranges[i]
              ELSE chunk'[d][i] = chunk[d][i]
        /\ \A e \in Downloads \ {d} : chunk'[e] = chunk[e] /\ range'[e] = range[e]

LEMMA SpawnIs ==
    ASSUME WorkTypes, NEW d \in Downloads, Spawn(d)
    PROVE  \E threads \in 1..MaxThreads : Spawns(d, threads)
<1>1. PICK threads \in 1..MaxThreads :
        LET ranges == SplitRanges(Total, threads)
        IN  /\ range' = [range EXCEPT ![d] =
                  [i \in Chunks |-> IF i \in DOMAIN ranges THEN ranges[i] ELSE @[i]]]
            /\ chunk' = [chunk EXCEPT ![d] =
                  [i \in Chunks |-> IF i \in DOMAIN ranges THEN "asked" ELSE @[i]]]
  BY DEF Spawn
<1> DEFINE ranges == SplitRanges(Total, threads)
<1>2. \A i \in DOMAIN ranges : ranges[i] \in (0..Total) \X Blocks
  <2>1. ASSUME NEW i \in DOMAIN ranges PROVE ranges[i] \in (0..Total) \X Blocks
    <3>1. /\ ranges[i] = <<ranges[i][1], ranges[i][2]>>
          /\ ranges[i][1] \in 0..(Total - 1) /\ ranges[i][2] \in 0..(Total - 1)
      BY RangesAre, Constants
    <3>2. ranges[i][1] \in 0..Total /\ ranges[i][2] \in Blocks
      BY <3>1, Constants DEF Blocks
    <3> QED BY <3>1, <3>2
  <2> QED BY <2>1
<1> HIDE DEF ranges
<1>3. range' \in [Downloads -> [Chunks -> (0..Total) \X Blocks]]
  BY <1>1, <1>2 DEF WorkTypes, ranges
<1>4. chunk' \in [Downloads -> [Chunks -> Running \cup Ended]]
  BY <1>1 DEF WorkTypes, Running
<1>5. flight' = flight
  BY DEF Spawn
<1>6. \A i \in Chunks :
         IF i \in DOMAIN ranges THEN chunk'[d][i] = "asked" /\ range'[d][i] = ranges[i]
         ELSE chunk'[d][i] = chunk[d][i]
  BY <1>1 DEF WorkTypes, ranges
<1>7. \A e \in Downloads \ {d} : chunk'[e] = chunk[e] /\ range'[e] = range[e]
  BY <1>1 DEF WorkTypes
<1> QED BY <1>3, <1>4, <1>5, <1>6, <1>7 DEF Spawns, WorkTypes, ranges

-----------------------------------------------------------------------------
(* Types.                                                                    *)

OtherTypes ==
    /\ file \in [Blocks -> Downloads \cup {Hole}]
    /\ phase \in [Downloads -> {"probing", "opened", "spawned", "inserted", "dropped"}]
    /\ tasks \subseteq Downloads
    /\ awaited \in [Downloads -> 1..Gone] /\ failed \in [Downloads -> BOOLEAN]
    /\ completed \subseteq Downloads /\ errored \subseteq Downloads /\ cancelled \subseteq Downloads
    /\ pc \in [Callers -> {"idle", "read_error", "read_mark", "answer", "cancel", "untrack"}]
    /\ about \in [Callers -> Downloads \cup {None}]
    /\ saw \in [Callers -> [error : BOOLEAN, completed : BOOLEAN]]
    /\ crowded \subseteq Downloads /\ faults \in 0..MaxFaults /\ short \subseteq Downloads

LEMMA TypesAre == (TypeOK <=> WorkTypes /\ OtherTypes) /\ (TypeOK <=> WorkTypes /\ OtherTypes)'
BY DEF TypeOK, WorkTypes, OtherTypes

LEMMA TypesStart == Init => TypeOK /\ ShapeInv
<1> SUFFICES ASSUME Init PROVE TypeOK /\ ShapeInv
  OBVIOUS
<1>1. WorkTypes
  BY RestPair DEF Init, WorkTypes, Ended
<1>2. OtherTypes
  BY Constants DEF Init, OtherTypes, Unread, Hole
<1>3. ShapeInv
  BY DEF Init, ShapeInv, ShapeOf
<1> QED BY <1>1, <1>2, <1>3, TypesAre

LEMMA WorkStep == TypeOK /\ [Next]_vars => WorkTypes'
<1> SUFFICES ASSUME WorkTypes, [Next]_vars PROVE WorkTypes'
  BY TypesAre
<1>1. ASSUME NEW d \in Downloads, Open(d) PROVE WorkTypes'
  BY <1>1 DEF Open, work, WorkTypes
<1>2. ASSUME NEW d \in Downloads, Spawn(d) PROVE WorkTypes'
  BY <1>2, SpawnIs DEF Spawns
<1>3. ASSUME NEW d \in Downloads, Insert(d) PROVE WorkTypes'
  BY <1>3 DEF Insert, work, WorkTypes
<1>4. ASSUME NEW d \in Downloads, Drop(d) PROVE WorkTypes'
  BY <1>4 DEF Drop, work, WorkTypes
<1>5. ASSUME NEW d \in Downloads, Await(d) PROVE WorkTypes'
  BY <1>5 DEF Await, work, WorkTypes
<1>6. ASSUME NEW d \in Downloads, Review(d) PROVE WorkTypes'
  BY <1>6 DEF Review, work, WorkTypes
<1>7. ASSUME NEW d \in Downloads, MarkCompleted(d) PROVE WorkTypes'
  BY <1>7 DEF MarkCompleted, work, WorkTypes
<1>8. ASSUME NEW d \in Downloads, NEW i \in Chunks, Respond(d, i) PROVE WorkTypes'
  BY <1>8, RespondTouches DEF Touches
<1>9. ASSUME NEW d \in Downloads, NEW i \in Chunks, Write(d, i) PROVE WorkTypes'
  BY <1>9, WriteTouches DEF Touches
<1>10. ASSUME NEW d \in Downloads, NEW i \in Chunks, Flush(d, i) PROVE WorkTypes'
  BY <1>10, ChunkEnds DEF Touches
<1>11. ASSUME NEW d \in Downloads, NEW i \in Chunks, EndShort(d, i) PROVE WorkTypes'
  BY <1>11, ChunkEnds DEF Touches
<1>12. ASSUME NEW d \in Downloads, NEW i \in Chunks, Fail(d, i) PROVE WorkTypes'
  BY <1>12, ChunkEnds DEF Touches
<1>13. ASSUME NEW d \in Downloads, NEW i \in Chunks, Abort(d, i) PROVE WorkTypes'
  BY <1>13, ChunkEnds DEF Touches
<1>14. ASSUME NEW d \in Downloads, NEW i \in Chunks, Land(d, i) PROVE WorkTypes'
  BY <1>14, LandTouches DEF Touches
<1>15. ASSUME NEW c \in Callers, ReadError(c) PROVE WorkTypes'
  BY <1>15 DEF ReadError, work, WorkTypes
<1>16. ASSUME NEW c \in Callers, ReadMark(c) PROVE WorkTypes'
  BY <1>16 DEF ReadMark, work, WorkTypes
<1>17. ASSUME NEW c \in Callers, Answer(c) PROVE WorkTypes'
  BY <1>17 DEF Answer, work, WorkTypes
<1>18. ASSUME NEW c \in Callers, Cancel(c) PROVE WorkTypes'
  BY <1>18 DEF Cancel, work, WorkTypes
<1>19. ASSUME NEW c \in Callers, Untrack(c) PROVE WorkTypes'
  BY <1>19 DEF Untrack, work, WorkTypes
<1>20. ASSUME NEW c \in Callers, NEW d \in Downloads, Get(c, d) PROVE WorkTypes'
  BY <1>20 DEF Get, work, WorkTypes
<1>21. ASSUME UNCHANGED vars PROVE WorkTypes'
  BY <1>21 DEF vars, work, WorkTypes
<1> QED BY <1>1, <1>2, <1>3, <1>4, <1>5, <1>6, <1>7, <1>8, <1>9, <1>10, <1>11, <1>12, <1>13,
           <1>14, <1>15, <1>16, <1>17, <1>18, <1>19, <1>20, <1>21 DEF Next, Monitor, ChunkStep,
           CallerStep

SawTypes == [Callers -> [error : BOOLEAN, completed : BOOLEAN]]

LEMMA SawIs ==
    ASSUME saw \in SawTypes, NEW c \in Callers, NEW x \in BOOLEAN
    PROVE  [saw EXCEPT ![c].error = x] \in SawTypes /\ [saw EXCEPT ![c].completed = x] \in SawTypes
BY DEF SawTypes

LEMMA OtherStep == TypeOK /\ ShapeInv /\ [Next]_vars => OtherTypes'
<1> SUFFICES ASSUME WorkTypes, OtherTypes, ShapeInv, [Next]_vars PROVE OtherTypes'
  BY TypesAre
<1>1. ASSUME NEW d \in Downloads, Open(d) PROVE OtherTypes'
  BY <1>1 DEF Open, OtherTypes, watch, status, calls
<1>2. ASSUME NEW d \in Downloads, Spawn(d) PROVE OtherTypes'
  BY <1>2 DEF Spawn, OtherTypes, watch, status, calls, ghosts
<1>3. ASSUME NEW d \in Downloads, Insert(d) PROVE OtherTypes'
  BY <1>3 DEF Insert, OtherTypes, watch, status, calls, ghosts
<1>4. ASSUME NEW d \in Downloads, Drop(d) PROVE OtherTypes'
  BY <1>4 DEF Drop, OtherTypes, watch, status, calls, ghosts
<1>5. ASSUME NEW d \in Downloads, Await(d) PROVE OtherTypes'
  <2>1. awaited[d] \in Chunks
    BY <1>5 DEF Await, Awaits
  <2>2. awaited' \in [Downloads -> 1..Gone]
    BY <1>5, <2>1, Constants DEF Await, OtherTypes, Chunks
  <2>3. failed' \in [Downloads -> BOOLEAN] /\ errored' \subseteq Downloads
    BY <1>5 DEF Await, OtherTypes
  <2> QED BY <1>5, <2>2, <2>3 DEF Await, OtherTypes, calls, ghosts
<1>6. ASSUME NEW d \in Downloads, Review(d) PROVE OtherTypes'
  BY <1>6, Constants DEF Review, OtherTypes, status, calls, ghosts
<1>7. ASSUME NEW d \in Downloads, MarkCompleted(d) PROVE OtherTypes'
  BY <1>7, Constants DEF MarkCompleted, OtherTypes, status, calls, ghosts
<1>8. ASSUME NEW d \in Downloads, NEW i \in Chunks, Respond(d, i) PROVE OtherTypes'
  BY <1>8, Constants DEF Respond, Fault, OtherTypes, watch, status, calls, ghosts
<1>9. ASSUME NEW d \in Downloads, NEW i \in Chunks, Write(d, i) PROVE OtherTypes'
  BY <1>9 DEF Write, OtherTypes, watch, status, calls, ghosts
<1>10. ASSUME NEW d \in Downloads, NEW i \in Chunks, Flush(d, i) PROVE OtherTypes'
  BY <1>10 DEF Flush, OtherTypes, watch, status, calls, ghosts
<1>11. ASSUME NEW d \in Downloads, NEW i \in Chunks, EndShort(d, i) PROVE OtherTypes'
  BY <1>11, Constants DEF EndShort, Fault, OtherTypes, watch, status, calls, ghosts
<1>12. ASSUME NEW d \in Downloads, NEW i \in Chunks, Fail(d, i) PROVE OtherTypes'
  BY <1>12, Constants DEF Fail, Fault, OtherTypes, watch, status, calls, ghosts
<1>13. ASSUME NEW d \in Downloads, NEW i \in Chunks, Abort(d, i) PROVE OtherTypes'
  BY <1>13 DEF Abort, OtherTypes, watch, status, calls, ghosts
<1>14. ASSUME NEW d \in Downloads, NEW i \in Chunks, Land(d, i) PROVE OtherTypes'
  BY <1>14, LandTouches DEF Land, OtherTypes, watch, status, calls, ghosts
<1>15. ASSUME NEW c \in Callers, ReadError(c) PROVE OtherTypes'
  <2> DEFINE x == about[c] \in errored \cup cancelled
  <2>1. x \in BOOLEAN
    OBVIOUS
  <2>2. saw' = [saw EXCEPT ![c].error = x] /\ saw \in SawTypes
    BY <1>15 DEF ReadError, OtherTypes, SawTypes
  <2> HIDE DEF x
  <2>3. saw' \in SawTypes
    BY <2>1, <2>2, SawIs
  <2> QED BY <1>15, <2>3 DEF ReadError, Goto, OtherTypes, SawTypes, ShapeInv, watch, status,
             calls, ghosts
<1>16. ASSUME NEW c \in Callers, ReadMark(c) PROVE OtherTypes'
  <2> DEFINE x == about[c] \in completed
  <2>1. x \in BOOLEAN
    OBVIOUS
  <2>2. saw' = [saw EXCEPT ![c].completed = x] /\ saw \in SawTypes
    BY <1>16 DEF ReadMark, OtherTypes, SawTypes
  <2> HIDE DEF x
  <2>3. saw' \in SawTypes
    BY <2>1, <2>2, SawIs
  <2> QED BY <1>16, <2>3 DEF ReadMark, Goto, OtherTypes, SawTypes, ShapeInv, watch, status,
             calls, ghosts
<1>17. ASSUME NEW c \in Callers, Answer(c) PROVE OtherTypes'
  BY <1>17 DEF Answer, Goto, Forget, Unread, OtherTypes, ShapeInv, watch, status, calls, ghosts
<1>18. ASSUME NEW c \in Callers, Cancel(c) PROVE OtherTypes'
  BY <1>18 DEF Cancel, Goto, Forget, Unread, OtherTypes, ShapeInv, watch, status, calls, ghosts
<1>19. ASSUME NEW c \in Callers, Untrack(c) PROVE OtherTypes'
  BY <1>19 DEF Untrack, Goto, Forget, Unread, OtherTypes, ShapeInv, watch, status, calls, ghosts
<1>20. ASSUME NEW c \in Callers, NEW d \in Downloads, Get(c, d) PROVE OtherTypes'
  BY <1>20 DEF Get, Goto, OtherTypes, watch, status, calls, ghosts
<1>21. ASSUME UNCHANGED vars PROVE OtherTypes'
  BY <1>21 DEF vars, OtherTypes, watch, status, calls, ghosts
<1> QED BY <1>1, <1>2, <1>3, <1>4, <1>5, <1>6, <1>7, <1>8, <1>9, <1>10, <1>11, <1>12, <1>13,
           <1>14, <1>15, <1>16, <1>17, <1>18, <1>19, <1>20, <1>21 DEF Next, Monitor, ChunkStep,
           CallerStep

\* A step of the tasks of a download leaves the others where they are.
LEMMA ShapeStep == TypeOK /\ ShapeInv /\ [Next]_vars => ShapeInv'
<1> SUFFICES ASSUME WorkTypes, OtherTypes, ShapeInv, [Next]_vars PROVE ShapeInv'
  BY TypesAre
<1>1. ASSUME NEW d \in Downloads, Open(d) PROVE ShapeInv'
  BY <1>1 DEF Open, OtherTypes, ShapeInv, ShapeOf, work, watch, calls
<1>2. ASSUME NEW d \in Downloads, Spawn(d) PROVE ShapeInv'
  <2>1. PICK threads \in 1..MaxThreads : Spawns(d, threads)
    BY <1>2, SpawnIs
  <2> DEFINE ranges == SplitRanges(Total, threads)
  <2>2. \E count \in Nat : DOMAIN ranges = 1..count
    BY RangesAre, Constants
  <2>3. \A i \in Chunks : chunk[d][i] = "absent"
    BY <1>2 DEF Spawn, ShapeInv, ShapeOf
  <2>4. ASSUME NEW i \in Chunks, NEW j \in Chunks, i <= j, chunk'[d][i] = "absent"
        PROVE  chunk'[d][j] = "absent"
    <3>1. i \notin DOMAIN ranges
      BY <2>1, <2>4 DEF Spawns
    <3>2. j \notin DOMAIN ranges
      BY <2>2, <2>4, <3>1 DEF Chunks
    <3> QED BY <2>1, <2>3, <3>2 DEF Spawns
  <2>5. \A e \in Downloads \ {d} :
          chunk'[e] = chunk[e] /\ flight'[e] = flight[e] /\ phase'[e] = phase[e] /\ awaited'[e] = awaited[e]
    BY <1>2, <2>1 DEF Spawns, Spawn, OtherTypes, watch
  <2>6. phase'[d] = "spawned"
    BY <1>2 DEF Spawn, OtherTypes
  <2>7. \A e \in Downloads : ShapeOf(e)'
    BY <2>4, <2>5, <2>6 DEF ShapeInv, ShapeOf
  <2> QED BY <1>2, <2>7 DEF Spawn, ShapeInv, calls
<1>3. ASSUME NEW d \in Downloads, Insert(d) PROVE ShapeInv'
  BY <1>3 DEF Insert, OtherTypes, ShapeInv, ShapeOf, work, watch, calls
<1>4. ASSUME NEW d \in Downloads, Drop(d) PROVE ShapeInv'
  BY <1>4 DEF Drop, OtherTypes, ShapeInv, ShapeOf, work, watch, calls
<1>5. ASSUME NEW d \in Downloads, Await(d) PROVE ShapeInv'
  <2>1. phase[d] \notin {"probing", "opened"}
    BY <1>5, Constants DEF Await, Awaits, ShapeInv, ShapeOf
  <2>2. \A e \in Downloads : awaited'[e] = awaited[e] \/ e = d
    BY <1>5 DEF Await, OtherTypes
  <2> QED BY <1>5, <2>1, <2>2 DEF Await, ShapeInv, ShapeOf, work, calls
<1>6. ASSUME NEW d \in Downloads, Review(d) PROVE ShapeInv'
  <2>1. phase[d] \notin {"probing", "opened"}
    BY <1>6, Constants DEF Review, Awaits, ShapeInv, ShapeOf
  <2>2. \A e \in Downloads : awaited'[e] = awaited[e] \/ e = d
    BY <1>6 DEF Review, OtherTypes
  <2> QED BY <1>6, <2>1, <2>2 DEF Review, ShapeInv, ShapeOf, work, calls
<1>7. ASSUME NEW d \in Downloads, MarkCompleted(d) PROVE ShapeInv'
  <2>1. phase[d] \notin {"probing", "opened"}
    BY <1>7, Constants DEF MarkCompleted, Awaits, ShapeInv, ShapeOf
  <2>2. \A e \in Downloads : awaited'[e] = awaited[e] \/ e = d
    BY <1>7 DEF MarkCompleted, OtherTypes
  <2> QED BY <1>7, <2>1, <2>2 DEF MarkCompleted, ShapeInv, ShapeOf, work, calls
<1>8. ASSUME NEW d \in Downloads, NEW i \in Chunks, Respond(d, i) PROVE ShapeInv'
  <2>1. \E k, r, f : Touches(d, i, k, r, f) /\ (k = "absent" <=> chunk[d][i] = "absent")
    <3>1. chunk[d][i] # "absent"
      BY <1>8 DEF Respond
    <3>2. \E r, f : Touches(d, i, "writing", r, f)
      BY <1>8, RespondTouches
    <3> QED BY <3>1, <3>2
  <2>2. phase[d] \notin {"probing", "opened"}
    BY <1>8, Constants DEF Respond, Running, ShapeInv, ShapeOf
  <2>3. UNCHANGED <<phase, awaited, pc, about>>
    BY <1>8 DEF Respond, watch, calls
  <2>4. \A e \in Downloads : ShapeOf(e)'
    BY <2>1, <2>2, <2>3 DEF Touches, ShapeInv, ShapeOf
  <2> QED BY <2>3, <2>4 DEF ShapeInv
<1>9. ASSUME NEW d \in Downloads, NEW i \in Chunks, Write(d, i) PROVE ShapeInv'
  <2>1. \E k, r, f : Touches(d, i, k, r, f) /\ (k = "absent" <=> chunk[d][i] = "absent")
    <3>1. chunk[d][i] # "absent"
      BY <1>9 DEF Write
    <3>2. \E r, f : Touches(d, i, "writing", r, f)
      <4> DEFINE r == <<range[d][i][1] + 1, range[d][i][2]>>
                  f == range[d][i][1]
      <4>1. Touches(d, i, "writing", r, f)
        BY <1>9, WriteTouches
      <4> HIDE DEF r, f
      <4> QED BY <4>1
    <3> QED BY <3>1, <3>2
  <2>2. phase[d] \notin {"probing", "opened"}
    BY <1>9, Constants DEF Write, Running, ShapeInv, ShapeOf
  <2>3. UNCHANGED <<phase, awaited, pc, about>>
    BY <1>9 DEF Write, watch, calls
  <2>4. \A e \in Downloads : ShapeOf(e)'
    BY <2>1, <2>2, <2>3 DEF Touches, ShapeInv, ShapeOf
  <2> QED BY <2>3, <2>4 DEF ShapeInv
<1>10. ASSUME NEW d \in Downloads, NEW i \in Chunks, Flush(d, i) PROVE ShapeInv'
  <2>1. \E k, r, f : Touches(d, i, k, r, f) /\ (k = "absent" <=> chunk[d][i] = "absent")
    BY <1>10, ChunkEnds DEF Flush, Running
  <2>2. phase[d] \notin {"probing", "opened"}
    BY <1>10, Constants DEF Flush, Running, ShapeInv, ShapeOf
  <2>3. UNCHANGED <<phase, awaited, pc, about>>
    BY <1>10 DEF Flush, watch, calls
  <2>4. \A e \in Downloads : ShapeOf(e)'
    BY <2>1, <2>2, <2>3 DEF Touches, ShapeInv, ShapeOf
  <2> QED BY <2>3, <2>4 DEF ShapeInv
<1>11. ASSUME NEW d \in Downloads, NEW i \in Chunks, EndShort(d, i) PROVE ShapeInv'
  <2>1. \E k, r, f : Touches(d, i, k, r, f) /\ (k = "absent" <=> chunk[d][i] = "absent")
    BY <1>11, ChunkEnds DEF EndShort, Running
  <2>2. phase[d] \notin {"probing", "opened"}
    BY <1>11, Constants DEF EndShort, Running, ShapeInv, ShapeOf
  <2>3. UNCHANGED <<phase, awaited, pc, about>>
    BY <1>11 DEF EndShort, watch, calls
  <2>4. \A e \in Downloads : ShapeOf(e)'
    BY <2>1, <2>2, <2>3 DEF Touches, ShapeInv, ShapeOf
  <2> QED BY <2>3, <2>4 DEF ShapeInv
<1>12. ASSUME NEW d \in Downloads, NEW i \in Chunks, Fail(d, i) PROVE ShapeInv'
  <2>1. \E k, r, f : Touches(d, i, k, r, f) /\ (k = "absent" <=> chunk[d][i] = "absent")
    BY <1>12, ChunkEnds DEF Fail, Running
  <2>2. phase[d] \notin {"probing", "opened"}
    BY <1>12, Constants DEF Fail, Running, ShapeInv, ShapeOf
  <2>3. UNCHANGED <<phase, awaited, pc, about>>
    BY <1>12 DEF Fail, watch, calls
  <2>4. \A e \in Downloads : ShapeOf(e)'
    BY <2>1, <2>2, <2>3 DEF Touches, ShapeInv, ShapeOf
  <2> QED BY <2>3, <2>4 DEF ShapeInv
<1>13. ASSUME NEW d \in Downloads, NEW i \in Chunks, Abort(d, i) PROVE ShapeInv'
  <2>1. \E k, r, f : Touches(d, i, k, r, f) /\ (k = "absent" <=> chunk[d][i] = "absent")
    BY <1>13, ChunkEnds DEF Abort, Running
  <2>2. phase[d] \notin {"probing", "opened"}
    BY <1>13, Constants DEF Abort, Running, ShapeInv, ShapeOf
  <2>3. UNCHANGED <<phase, awaited, pc, about>>
    BY <1>13 DEF Abort, watch, calls
  <2>4. \A e \in Downloads : ShapeOf(e)'
    BY <2>1, <2>2, <2>3 DEF Touches, ShapeInv, ShapeOf
  <2> QED BY <2>3, <2>4 DEF ShapeInv
<1>14. ASSUME NEW d \in Downloads, NEW i \in Chunks, Land(d, i) PROVE ShapeInv'
  <2>1. \E k, r, f : Touches(d, i, k, r, f) /\ (k = "absent" <=> chunk[d][i] = "absent")
    BY <1>14, LandTouches DEF Land, Running
  <2>2. phase[d] \notin {"probing", "opened"}
    BY <1>14, Constants DEF Land, Running, ShapeInv, ShapeOf
  <2>3. UNCHANGED <<phase, awaited, pc, about>>
    BY <1>14 DEF Land, watch, calls
  <2>4. \A e \in Downloads : ShapeOf(e)'
    BY <2>1, <2>2, <2>3 DEF Touches, ShapeInv, ShapeOf
  <2> QED BY <2>3, <2>4 DEF ShapeInv
<1>15. ASSUME NEW c \in Callers, ReadError(c) PROVE ShapeInv'
  BY <1>15 DEF ReadError, Goto, Forget, OtherTypes, ShapeInv, ShapeOf, work, watch
<1>16. ASSUME NEW c \in Callers, ReadMark(c) PROVE ShapeInv'
  BY <1>16 DEF ReadMark, Goto, Forget, OtherTypes, ShapeInv, ShapeOf, work, watch
<1>17. ASSUME NEW c \in Callers, Answer(c) PROVE ShapeInv'
  BY <1>17 DEF Answer, Goto, Forget, OtherTypes, ShapeInv, ShapeOf, work, watch
<1>18. ASSUME NEW c \in Callers, Cancel(c) PROVE ShapeInv'
  BY <1>18 DEF Cancel, Goto, Forget, OtherTypes, ShapeInv, ShapeOf, work, watch
<1>19. ASSUME NEW c \in Callers, Untrack(c) PROVE ShapeInv'
  BY <1>19 DEF Untrack, Goto, Forget, OtherTypes, ShapeInv, ShapeOf, work, watch
<1>20. ASSUME NEW c \in Callers, NEW d \in Downloads, Get(c, d) PROVE ShapeInv'
  BY <1>20 DEF Get, Goto, Forget, OtherTypes, ShapeInv, ShapeOf, work, watch
<1>21. ASSUME UNCHANGED vars PROVE ShapeInv'
  BY <1>21 DEF vars, ShapeInv, ShapeOf, work, watch, calls
<1> QED BY <1>1, <1>2, <1>3, <1>4, <1>5, <1>6, <1>7, <1>8, <1>9, <1>10, <1>11, <1>12, <1>13,
           <1>14, <1>15, <1>16, <1>17, <1>18, <1>19, <1>20, <1>21 DEF Next, Monitor, ChunkStep,
           CallerStep

LEMMA TypesStep == TypeOK /\ ShapeInv /\ [Next]_vars => TypeOK' /\ ShapeInv'
BY WorkStep, OtherStep, ShapeStep, TypesAre

LEMMA Types == Spec => [](TypeOK /\ ShapeInv)
BY TypesStart, TypesStep, PTL DEF Spec

\* The shape of the state, for any number of downloads, tasks, faults and callers:
\* no task writes past the end of the file (tasks.rs, split_ranges, download_chunk).
THEOREM Typing == Spec => []TypeOK
BY Types, PTL

-----------------------------------------------------------------------------
(* The verdict of the monitor.                                               *)

LEMMA VerdictKept ==
    ASSUME VerdictInv, UNCHANGED <<chunk, awaited, failed, completed, errored>>,
           cancelled \subseteq cancelled'
    PROVE  VerdictInv'
BY DEF VerdictInv, VerdictOf, Finished

\* A task that runs has not been awaited, and the monitor has not gone on.
LEMMA TaskKeepsVerdict ==
    ASSUME OtherTypes, VerdictInv, NEW d \in Downloads, NEW i \in Chunks, chunk[d][i] \in Running,
           \A e \in Downloads, j \in Chunks : e # d \/ j # i => chunk'[e][j] = chunk[e][j],
           UNCHANGED <<awaited, failed, completed, errored, cancelled>>
    PROVE  VerdictInv'
<1>1. ~(i < awaited[d]) /\ ~(awaited[d] >= Past)
  BY DEF VerdictInv, VerdictOf
<1>2. chunk'[d][1] # "absent" \/ ~(awaited'[d] >= Past)
  BY <1>1
<1>3. VerdictOf(d)'
  BY <1>1 DEF VerdictInv, VerdictOf, Finished
<1>4. \A e \in Downloads \ {d} : VerdictOf(e)'
  BY Constants DEF VerdictInv, VerdictOf, Finished
<1> QED BY <1>3, <1>4 DEF VerdictInv

LEMMA VerdictStep == TypeOK /\ ShapeInv /\ VerdictInv /\ [Next]_vars => VerdictInv'
<1> SUFFICES ASSUME WorkTypes, OtherTypes, ShapeInv, VerdictInv, [Next]_vars PROVE VerdictInv'
  BY TypesAre
<1>1. ASSUME NEW d \in Downloads, Open(d) PROVE VerdictInv'
  BY <1>1, VerdictKept DEF Open, work, watch, status
<1>2. ASSUME NEW d \in Downloads, Spawn(d) PROVE VerdictInv'
  <2>1. PICK threads \in 1..MaxThreads : Spawns(d, threads)
    BY <1>2, SpawnIs
  <2>2. \A e \in Downloads \ {d} : chunk'[e] = chunk[e]
    BY <2>1 DEF Spawns
  <2>3. awaited[d] = 1 /\ UNCHANGED <<awaited, failed, completed, errored, cancelled>>
    BY <1>2 DEF Spawn, ShapeInv, ShapeOf, watch, status
  <2>4. VerdictOf(d)'
    BY <2>3, Constants DEF VerdictInv, VerdictOf, Chunks
  <2>5. \A e \in Downloads \ {d} : VerdictOf(e)'
    BY <2>2, <2>3 DEF VerdictInv, VerdictOf, Finished
  <2> QED BY <2>4, <2>5 DEF VerdictInv
<1>3. ASSUME NEW d \in Downloads, Insert(d) PROVE VerdictInv'
  BY <1>3, VerdictKept DEF Insert, work, watch, status
<1>4. ASSUME NEW d \in Downloads, Drop(d) PROVE VerdictInv'
  BY <1>4, VerdictKept DEF Drop, work, watch, status
<1>5. ASSUME NEW d \in Downloads, Await(d) PROVE VerdictInv'
  <2>1. awaited[d] \in Chunks /\ chunk[d][awaited[d]] \in Ended
    BY <1>5 DEF Await, Awaits
  <2>2. awaited'[d] = awaited[d] + 1 /\ awaited'[d] < Past /\ awaited[d] < Past
    BY <1>5, <2>1, Constants DEF Await, OtherTypes, Chunks
  <2>3. failed'[d] = (failed[d] \/ chunk[d][awaited[d]] # "ok")
    BY <1>5 DEF Await, OtherTypes
  <2>4. UNCHANGED <<chunk, completed, cancelled>> /\ errored \subseteq errored'
    BY <1>5 DEF Await, work
  <2>5. \A e \in Downloads \ {d} : awaited'[e] = awaited[e] /\ failed'[e] = failed[e]
    BY <1>5 DEF Await, OtherTypes
  <2>6. failed'[d] => d \in errored' \cup cancelled'
    <3>1. CASE failed[d]
      BY <2>4, <3>1 DEF VerdictInv, VerdictOf
    <3>2. CASE chunk[d][awaited[d]] = "crashed"
      BY <1>5, <3>2 DEF Await, Says
    <3>3. CASE chunk[d][awaited[d]] = "failed"
      BY <1>5, <2>4, <3>3 DEF Await, Says
    <3> QED BY <1>5, <2>1, <2>3, <3>1, <3>2, <3>3 DEF Ended, Await, Awaits
  <2>7. ASSUME NEW i \in Chunks, i < awaited'[d]
        PROVE  chunk'[d][i] \notin Running /\ (chunk'[d][i] \in {"failed", "crashed"} => failed'[d])
    <3>1. CASE i = awaited[d]
      BY <2>1, <2>3, <2>4, <3>1 DEF Ended, Running
    <3>2. CASE i # awaited[d]
      <4>1. i < awaited[d]
        BY <2>1, <2>2, <2>7, <3>2 DEF Chunks
      <4> QED BY <2>3, <2>4, <4>1 DEF VerdictInv, VerdictOf
    <3> QED BY <3>1, <3>2
  <2>8. awaited'[d] # Gone /\ awaited'[d] # Past /\ ~(awaited'[d] >= Past) /\ d \notin completed
    BY <2>1, <2>2, Constants DEF VerdictInv, VerdictOf, Chunks
  <2>9. VerdictOf(d)'
    BY <2>4, <2>6, <2>7, <2>8 DEF VerdictOf
  <2>10. \A e \in Downloads \ {d} : VerdictOf(e)'
    BY <2>4, <2>5 DEF VerdictInv, VerdictOf, Finished
  <2> QED BY <2>9, <2>10 DEF VerdictInv
<1>6. ASSUME NEW d \in Downloads, Review(d) PROVE VerdictInv'
  <2>1. UNCHANGED <<chunk, failed, completed, errored, cancelled>> /\ chunk[d][1] # "absent"
    BY <1>6 DEF Review, work, status
  <2>2. awaited'[d] = IF ~failed[d] /\ d \notin cancelled THEN Past ELSE Gone
    BY <1>6 DEF Review, OtherTypes
  <2>3. \A e \in Downloads \ {d} : awaited'[e] = awaited[e]
    BY <1>6 DEF Review, OtherTypes
  <2>4. ASSUME NEW i \in Chunks
        PROVE  chunk[d][i] \notin Running /\ (chunk[d][i] \in {"failed", "crashed"} => failed[d])
    <3>1. CASE i < awaited[d]
      BY <3>1 DEF VerdictInv, VerdictOf
    <3>2. CASE ~(i < awaited[d])
      <4>1. awaited[d] \in Chunks /\ awaited[d] <= i
        BY <3>2, Constants DEF OtherTypes, Chunks
      <4>2. chunk[d][awaited[d]] = "absent"
        BY <1>6, <4>1 DEF Review, Awaits
      <4>3. chunk[d][i] = "absent"
        BY <4>1, <4>2 DEF ShapeInv, ShapeOf
      <4> QED BY <4>3 DEF Running
    <3> QED BY <3>1, <3>2
  <2>5. awaited[d] < Past /\ d \notin completed
    BY <1>6, Constants DEF Review, VerdictInv, VerdictOf, OtherTypes
  <2>6. VerdictOf(d)'
    BY <2>1, <2>2, <2>4, <2>5, Constants DEF VerdictInv, VerdictOf, Finished
  <2>7. \A e \in Downloads \ {d} : VerdictOf(e)'
    BY <2>1, <2>3 DEF VerdictInv, VerdictOf, Finished
  <2> QED BY <2>6, <2>7 DEF VerdictInv
<1>7. ASSUME NEW d \in Downloads, MarkCompleted(d) PROVE VerdictInv'
  <2>1. UNCHANGED <<chunk, failed, errored, cancelled>> /\ completed' = completed \cup {d}
    BY <1>7 DEF MarkCompleted, work
  <2>2. awaited[d] = Past /\ awaited'[d] = Gone /\ \A e \in Downloads \ {d} : awaited'[e] = awaited[e]
    BY <1>7 DEF MarkCompleted, OtherTypes
  <2>3. \A i \in Chunks : i < Past /\ Past >= Past /\ Gone >= Past /\ Gone # Past
    BY Constants DEF Chunks
  <2>4. VerdictOf(d)'
    BY <2>1, <2>2, <2>3, Constants DEF VerdictInv, VerdictOf, Finished
  <2>5. \A e \in Downloads \ {d} : VerdictOf(e)'
    BY <2>1, <2>2 DEF VerdictInv, VerdictOf, Finished
  <2> QED BY <2>4, <2>5 DEF VerdictInv
<1>8. ASSUME NEW d \in Downloads, NEW i \in Chunks, Respond(d, i) PROVE VerdictInv'
  <2>1. chunk[d][i] \in Running
    BY <1>8 DEF Respond, Running
  <2>2. \A e \in Downloads, j \in Chunks : e # d \/ j # i => chunk'[e][j] = chunk[e][j]
    BY <1>8, RespondTouches DEF Touches
  <2>3. UNCHANGED <<awaited, failed, completed, errored, cancelled>>
    BY <1>8 DEF Respond, watch, status
  <2> QED BY <2>1, <2>2, <2>3, TaskKeepsVerdict
<1>9. ASSUME NEW d \in Downloads, NEW i \in Chunks, Write(d, i) PROVE VerdictInv'
  <2>1. chunk[d][i] \in Running
    BY <1>9 DEF Write, Running
  <2>2. \A e \in Downloads, j \in Chunks : e # d \/ j # i => chunk'[e][j] = chunk[e][j]
    BY <1>9, WriteTouches DEF Touches
  <2>3. UNCHANGED <<awaited, failed, completed, errored, cancelled>>
    BY <1>9 DEF Write, watch, status
  <2> QED BY <2>1, <2>2, <2>3, TaskKeepsVerdict
<1>10. ASSUME NEW d \in Downloads, NEW i \in Chunks, Flush(d, i) PROVE VerdictInv'
  <2>1. chunk[d][i] \in Running
    BY <1>10 DEF Flush, Running
  <2>2. \A e \in Downloads, j \in Chunks : e # d \/ j # i => chunk'[e][j] = chunk[e][j]
    BY <1>10, ChunkEnds DEF Touches
  <2>3. UNCHANGED <<awaited, failed, completed, errored, cancelled>>
    BY <1>10 DEF Flush, watch, status
  <2> QED BY <2>1, <2>2, <2>3, TaskKeepsVerdict
<1>11. ASSUME NEW d \in Downloads, NEW i \in Chunks, EndShort(d, i) PROVE VerdictInv'
  <2>1. chunk[d][i] \in Running
    BY <1>11 DEF EndShort, Running
  <2>2. \A e \in Downloads, j \in Chunks : e # d \/ j # i => chunk'[e][j] = chunk[e][j]
    BY <1>11, ChunkEnds DEF Touches
  <2>3. UNCHANGED <<awaited, failed, completed, errored, cancelled>>
    BY <1>11 DEF EndShort, watch, status
  <2> QED BY <2>1, <2>2, <2>3, TaskKeepsVerdict
<1>12. ASSUME NEW d \in Downloads, NEW i \in Chunks, Fail(d, i) PROVE VerdictInv'
  <2>1. chunk[d][i] \in Running
    BY <1>12 DEF Fail, Running
  <2>2. \A e \in Downloads, j \in Chunks : e # d \/ j # i => chunk'[e][j] = chunk[e][j]
    BY <1>12, ChunkEnds DEF Touches
  <2>3. UNCHANGED <<awaited, failed, completed, errored, cancelled>>
    BY <1>12 DEF Fail, watch, status
  <2> QED BY <2>1, <2>2, <2>3, TaskKeepsVerdict
<1>13. ASSUME NEW d \in Downloads, NEW i \in Chunks, Abort(d, i) PROVE VerdictInv'
  <2>1. chunk[d][i] \in Running
    BY <1>13 DEF Abort, Running
  <2>2. \A e \in Downloads, j \in Chunks : e # d \/ j # i => chunk'[e][j] = chunk[e][j]
    BY <1>13, ChunkEnds DEF Touches
  <2>3. UNCHANGED <<awaited, failed, completed, errored, cancelled>>
    BY <1>13 DEF Abort, watch, status
  <2> QED BY <2>1, <2>2, <2>3, TaskKeepsVerdict
<1>14. ASSUME NEW d \in Downloads, NEW i \in Chunks, Land(d, i) PROVE VerdictInv'
  BY <1>14, VerdictKept DEF Land, watch, status
<1>15. ASSUME NEW c \in Callers, ReadError(c) PROVE VerdictInv'
  BY <1>15, VerdictKept DEF ReadError, work, watch, status
<1>16. ASSUME NEW c \in Callers, ReadMark(c) PROVE VerdictInv'
  BY <1>16, VerdictKept DEF ReadMark, work, watch, status
<1>17. ASSUME NEW c \in Callers, Answer(c) PROVE VerdictInv'
  BY <1>17, VerdictKept DEF Answer, work, watch, status
<1>18. ASSUME NEW c \in Callers, Cancel(c) PROVE VerdictInv'
  BY <1>18, VerdictKept DEF Cancel, work, watch, status
<1>19. ASSUME NEW c \in Callers, Untrack(c) PROVE VerdictInv'
  BY <1>19, VerdictKept DEF Untrack, work, watch, status
<1>20. ASSUME NEW c \in Callers, NEW d \in Downloads, Get(c, d) PROVE VerdictInv'
  BY <1>20, VerdictKept DEF Get, work, watch, status
<1>21. ASSUME UNCHANGED vars PROVE VerdictInv'
  BY <1>21, VerdictKept DEF vars, work, watch, status
<1> QED BY <1>1, <1>2, <1>3, <1>4, <1>5, <1>6, <1>7, <1>8, <1>9, <1>10, <1>11, <1>12, <1>13,
           <1>14, <1>15, <1>16, <1>17, <1>18, <1>19, <1>20, <1>21 DEF Next, Monitor, ChunkStep,
           CallerStep

LEMMA Verdicts == Spec => [](TypeOK /\ ShapeInv /\ VerdictInv)
<1>1. Init => VerdictInv
  BY Constants DEF Init, VerdictInv, VerdictOf, Chunks
<1> QED BY <1>1, TypesStart, TypesStep, VerdictStep, PTL DEF Spec

\* A monitor that has ended leaves a verdict, and none of its tasks behind
\* (service.rs, spawn_monitor), however tasks fail, panic or are cancelled.
THEOREM VerdictAtEnd == Spec => []EndHasVerdict
<1>1. VerdictInv => EndHasVerdict
  BY Constants DEF VerdictInv, VerdictOf, EndHasVerdict
<1> QED BY <1>1, Verdicts, PTL

-----------------------------------------------------------------------------
(* Who is alone on the path.                                                 *)

LEMMA AloneKept ==
    ASSUME AloneInv, UNCHANGED <<phase, crowded>>,
           \A e \in Downloads : Writes(e)' => Writes(e)
    PROVE  AloneInv'
BY DEF AloneInv, AloneOf

\* A task that writes has written.
LEMMA TaskWrote ==
    ASSUME WorkTypes, NEW d \in Downloads, NEW i \in Chunks, Writes(d),
           NEW k, NEW r, NEW f, Touches(d, i, k, r, f)
    PROVE  \A e \in Downloads : Writes(e)' => Writes(e)
BY DEF Writes, Touches

LEMMA AloneStep == TypeOK /\ ShapeInv /\ AloneInv /\ [Next]_vars => AloneInv'
<1> SUFFICES ASSUME WorkTypes, OtherTypes, ShapeInv, AloneInv, [Next]_vars PROVE AloneInv'
  BY TypesAre
<1>w. ASSUME UNCHANGED <<chunk, flight>> PROVE \A e \in Downloads : Writes(e)' => Writes(e)
  BY <1>w DEF Writes
<1>1. ASSUME NEW d \in Downloads, Open(d) PROVE AloneInv'
  <2>1. phase[d] = "probing" /\ \A e \in Downloads : e < d => phase[e] # "probing"
    BY <1>1 DEF Open
  <2>2. phase'[d] = "opened" /\ \A e \in Downloads \ {d} : phase'[e] = phase[e]
    BY <1>1 DEF Open, OtherTypes
  <2>3. crowded \subseteq crowded' /\ \A e \in Downloads : e < d => e \in crowded'
    BY <1>1 DEF Open
  <2>4. d \notin crowded' => \A e \in Downloads : phase[e] # "opened" /\ ~Writes(e)
    BY <1>1 DEF Open
  <2>5. \A e \in Downloads : Writes(e)' <=> Writes(e)
    BY <1>1 DEF Open, Writes, work
  <2>6. ASSUME NEW e \in Downloads, phase'[e] # "probing" PROVE AloneOf(e)'
    <3>1. CASE e = d
      BY <2>1, <2>2, <2>4, <2>5, <3>1 DEF AloneOf
    <3>2. CASE e # d
      <4>1. phase[e] # "probing" /\ AloneOf(e)
        BY <2>2, <2>6, <3>2 DEF AloneInv
      <4>2. ~(d < e)
        BY <2>1, <4>1 DEF AloneOf
      <4>3. e \in crowded'
        BY <2>3, <3>2, <4>2 DEF Downloads
      <4> QED BY <2>2, <4>1, <4>3 DEF AloneOf
    <3> QED BY <3>1, <3>2
  <2> QED BY <2>6 DEF AloneInv
<1>2. ASSUME NEW d \in Downloads, Spawn(d) PROVE AloneInv'
  <2>1. PICK threads \in 1..MaxThreads : Spawns(d, threads)
    BY <1>2, SpawnIs
  <2>2. \A e \in Downloads \ {d} : Writes(e)' => Writes(e)
    BY <2>1 DEF Spawns, Writes
  <2>3. phase[d] = "opened" /\ phase'[d] = "spawned" /\ crowded' = crowded
        /\ \A e \in Downloads \ {d} : phase'[e] = phase[e]
    BY <1>2 DEF Spawn, OtherTypes, ghosts
  <2>4. \A e \in Downloads \ {d} : phase[e] # "probing" => e \in crowded
    BY <2>3 DEF AloneInv, AloneOf
  <2> QED BY <2>2, <2>3, <2>4 DEF AloneInv, AloneOf
<1>3. ASSUME NEW d \in Downloads, Insert(d) PROVE AloneInv'
  <2>1. phase[d] # "probing" /\ phase'[d] \notin {"probing", "opened"} /\ crowded' = crowded
        /\ \A e \in Downloads \ {d} : phase'[e] = phase[e]
    BY <1>3 DEF Insert, OtherTypes, ghosts
  <2>2. \A e \in Downloads : Writes(e)' => Writes(e)
    BY <1>3, <1>w DEF Insert, work
  <2> QED BY <2>1, <2>2 DEF AloneInv, AloneOf
<1>4. ASSUME NEW d \in Downloads, Drop(d) PROVE AloneInv'
  <2>1. phase[d] # "probing" /\ phase'[d] \notin {"probing", "opened"} /\ crowded' = crowded
        /\ \A e \in Downloads \ {d} : phase'[e] = phase[e]
    BY <1>4 DEF Drop, OtherTypes, ghosts
  <2>2. \A e \in Downloads : Writes(e)' => Writes(e)
    BY <1>4, <1>w DEF Drop, work
  <2> QED BY <2>1, <2>2 DEF AloneInv, AloneOf
<1>5. ASSUME NEW d \in Downloads, Await(d) PROVE AloneInv'
  BY <1>5, <1>w, AloneKept DEF Await, work, ghosts
<1>6. ASSUME NEW d \in Downloads, Review(d) PROVE AloneInv'
  BY <1>6, <1>w, AloneKept DEF Review, work, ghosts
<1>7. ASSUME NEW d \in Downloads, MarkCompleted(d) PROVE AloneInv'
  BY <1>7, <1>w, AloneKept DEF MarkCompleted, work, ghosts
<1>8. ASSUME NEW d \in Downloads, NEW i \in Chunks, Respond(d, i) PROVE AloneInv'
  <2>1. \E k, r, f : Touches(d, i, k, r, f)
    BY <1>8, RespondTouches
  <2>2. Writes(d) /\ UNCHANGED <<phase, crowded>>
    BY <1>8 DEF Respond, Writes, Running, ghosts
  <2> QED BY <2>1, <2>2, TaskWrote, AloneKept
<1>9. ASSUME NEW d \in Downloads, NEW i \in Chunks, Write(d, i) PROVE AloneInv'
  <2>1. \E k, r, f : Touches(d, i, k, r, f)
    <3> DEFINE r == <<range[d][i][1] + 1, range[d][i][2]>>
    <3>1. Touches(d, i, "writing", r, range[d][i][1])
      BY <1>9, WriteTouches
    <3> HIDE DEF r
    <3> QED BY <3>1
  <2>2. Writes(d) /\ UNCHANGED <<phase, crowded>>
    BY <1>9 DEF Write, Writes, Running, ghosts
  <2> QED BY <2>1, <2>2, TaskWrote, AloneKept
<1>10. ASSUME NEW d \in Downloads, NEW i \in Chunks, Flush(d, i) PROVE AloneInv'
  <2>1. \E k, r, f : Touches(d, i, k, r, f)
    BY <1>10, ChunkEnds
  <2>2. Writes(d) /\ UNCHANGED <<phase, crowded>>
    BY <1>10 DEF Flush, Writes, Running, ghosts
  <2> QED BY <2>1, <2>2, TaskWrote, AloneKept
<1>11. ASSUME NEW d \in Downloads, NEW i \in Chunks, EndShort(d, i) PROVE AloneInv'
  <2>1. \E k, r, f : Touches(d, i, k, r, f)
    BY <1>11, ChunkEnds
  <2>2. Writes(d) /\ UNCHANGED <<phase, crowded>>
    BY <1>11 DEF EndShort, Writes, Running, ghosts
  <2> QED BY <2>1, <2>2, TaskWrote, AloneKept
<1>12. ASSUME NEW d \in Downloads, NEW i \in Chunks, Fail(d, i) PROVE AloneInv'
  <2>1. \E k, r, f : Touches(d, i, k, r, f)
    BY <1>12, ChunkEnds
  <2>2. Writes(d) /\ UNCHANGED <<phase, crowded>>
    BY <1>12 DEF Fail, Writes, Running, ghosts
  <2> QED BY <2>1, <2>2, TaskWrote, AloneKept
<1>13. ASSUME NEW d \in Downloads, NEW i \in Chunks, Abort(d, i) PROVE AloneInv'
  <2>1. \E k, r, f : Touches(d, i, k, r, f)
    BY <1>13, ChunkEnds
  <2>2. Writes(d) /\ UNCHANGED <<phase, crowded>>
    BY <1>13 DEF Abort, Writes, Running, ghosts
  <2> QED BY <2>1, <2>2, TaskWrote, AloneKept
<1>14. ASSUME NEW d \in Downloads, NEW i \in Chunks, Land(d, i) PROVE AloneInv'
  <2>1. \E k, r, f : Touches(d, i, k, r, f)
    BY <1>14, LandTouches
  <2>2. Writes(d) /\ UNCHANGED <<phase, crowded>>
    BY <1>14 DEF Land, Writes, Running, ghosts
  <2> QED BY <2>1, <2>2, TaskWrote, AloneKept
<1>15. ASSUME NEW c \in Callers, ReadError(c) PROVE AloneInv'
  BY <1>15, <1>w, AloneKept DEF ReadError, work, ghosts
<1>16. ASSUME NEW c \in Callers, ReadMark(c) PROVE AloneInv'
  BY <1>16, <1>w, AloneKept DEF ReadMark, work, ghosts
<1>17. ASSUME NEW c \in Callers, Answer(c) PROVE AloneInv'
  BY <1>17, <1>w, AloneKept DEF Answer, work, ghosts
<1>18. ASSUME NEW c \in Callers, Cancel(c) PROVE AloneInv'
  BY <1>18, <1>w, AloneKept DEF Cancel, work, ghosts
<1>19. ASSUME NEW c \in Callers, Untrack(c) PROVE AloneInv'
  BY <1>19, <1>w, AloneKept DEF Untrack, work, ghosts
<1>20. ASSUME NEW c \in Callers, NEW d \in Downloads, Get(c, d) PROVE AloneInv'
  BY <1>20, <1>w, AloneKept DEF Get, work, ghosts
<1>21. ASSUME UNCHANGED vars PROVE AloneInv'
  BY <1>21, <1>w, AloneKept DEF vars, work, ghosts
<1> QED BY <1>1, <1>2, <1>3, <1>4, <1>5, <1>6, <1>7, <1>8, <1>9, <1>10, <1>11, <1>12, <1>13,
           <1>14, <1>15, <1>16, <1>17, <1>18, <1>19, <1>20, <1>21 DEF Next, Monitor, ChunkStep,
           CallerStep

-----------------------------------------------------------------------------
(* What the tasks have written.                                              *)

Pairs == (0..Total) \X Blocks

LEMMA RangesInFile ==
    ASSUME NEW threads \in 1..MaxThreads
    PROVE  /\ DOMAIN SplitRanges(Total, threads) \subseteq Chunks
           /\ \A i \in DOMAIN SplitRanges(Total, threads) : SplitRanges(Total, threads)[i] \in Pairs
<1> DEFINE ranges == SplitRanges(Total, threads)
<1>1. /\ DOMAIN ranges = 1..Count(Total, threads) /\ Count(Total, threads) \in 1..threads
      /\ \A i \in DOMAIN ranges :
            /\ ranges[i] = <<ranges[i][1], ranges[i][2]>>
            /\ ranges[i][1] \in 0..(Total - 1) /\ ranges[i][2] \in 0..(Total - 1)
  BY RangesAre, Constants
<1> HIDE DEF ranges
<1>2. DOMAIN ranges \subseteq Chunks
  BY <1>1, Constants DEF Chunks
<1>3. ASSUME NEW i \in DOMAIN ranges PROVE ranges[i] \in Pairs
  <2>1. ranges[i][1] \in 0..Total /\ ranges[i][2] \in Blocks
    BY <1>1, Constants DEF Blocks
  <2>2. ranges[i] = <<ranges[i][1], ranges[i][2]>>
    BY <1>1
  <2> QED BY <2>1, <2>2 DEF Pairs
<1> QED BY <1>2, <1>3 DEF ranges

\* What the tasks of download e have written is written, and no task is new.
Keeps(e) ==
    /\ chunk[e][1] # "absent"
    /\ \A j \in Chunks : chunk[e][j] # "absent" => chunk'[e][j] # "absent"
    /\ \A j \in Chunks, r \in Pairs : chunk[e][j] # "absent" /\ Covers(e, j, r) => Covers(e, j, r)'

LEMMA CoverKept ==
    ASSUME CoverInv, NEW e \in Downloads, e \notin crowded \cup short, Keeps(e)
    PROVE  IsDivided(e)'
<1>1. PICK threads \in 1..MaxThreads : Divided(e, threads)
  BY DEF CoverInv, IsDivided, Keeps
<1> DEFINE ranges == SplitRanges(Total, threads)
<1>2. DOMAIN ranges \subseteq Chunks /\ \A i \in DOMAIN ranges : ranges[i] \in Pairs
  BY RangesInFile
<1>3. \A i \in DOMAIN ranges : chunk[e][i] # "absent" /\ Covers(e, i, ranges[i])
  BY <1>1 DEF Divided
<1> HIDE DEF ranges
<1>4. \A i \in DOMAIN ranges : chunk'[e][i] # "absent" /\ Covers(e, i, ranges[i])'
  BY <1>2, <1>3 DEF Keeps
<1>5. Divided(e, threads)'
  BY <1>4 DEF Divided, ranges
<1> QED BY <1>5 DEF IsDivided

\* What is left as it is, in a file that only gains blocks of e.
LEMMA SameKeeps ==
    ASSUME NEW e \in Downloads, chunk[e][1] # "absent",
           \A j \in Chunks : UNCHANGED <<chunk[e][j], range[e][j], flight[e][j]>>,
           \A b \in Blocks : file[b] = e => file'[b] = e
    PROVE  Keeps(e)
BY DEF Keeps, Covers

\* One task moves, and what it has covered it covers.
LEMMA TaskKeeps ==
    ASSUME NEW d \in Downloads, NEW i \in Chunks, NEW k, NEW x, NEW f, Touches(d, i, k, x, f),
           k # "absent", chunk[d][1] # "absent",
           \A b \in Blocks : file[b] = d => file'[b] = d,
           \A r \in Pairs : Covers(d, i, r) => Covers(d, i, r)'
    PROVE  Keeps(d)
<1>1. \A j \in Chunks : chunk[d][j] # "absent" => chunk'[d][j] # "absent"
  BY DEF Touches
<1>2. ASSUME NEW j \in Chunks, j # i, NEW r \in Pairs, Covers(d, j, r) PROVE Covers(d, j, r)'
  BY <1>2 DEF Covers, Touches
<1> QED BY <1>1, <1>2 DEF Keeps

LEMMA CoverStep == TypeOK /\ ShapeInv /\ AloneInv /\ CoverInv /\ [Next]_vars => CoverInv'
<1> SUFFICES ASSUME WorkTypes, OtherTypes, ShapeInv, AloneInv, CoverInv, [Next]_vars,
                    NEW e \in Downloads, chunk'[e][1] # "absent", e \notin crowded' \cup short'
             PROVE  IsDivided(e)'
  BY TypesAre DEF CoverInv
<1>k. ASSUME e \notin crowded \cup short, UNCHANGED <<file, chunk, range, flight>>
      PROVE  IsDivided(e)'
  BY <1>k, SameKeeps, CoverKept
<1>1. ASSUME NEW d \in Downloads, Open(d) PROVE IsDivided(e)'
  <2>1. chunk[e][1] # "absent" /\ phase[d] = "probing"
    BY <1>1 DEF Open, work
  <2>2. phase[e] # "probing" /\ e # d
    BY <2>1, Constants DEF ShapeInv, ShapeOf
  <2>3. ~(d < e)
    BY <2>1, <2>2 DEF AloneInv, AloneOf
  <2>4. e \in crowded'
    BY <1>1, <2>2, <2>3 DEF Open, Downloads
  <2> QED BY <2>4
<1>2. ASSUME NEW d \in Downloads, Spawn(d) PROVE IsDivided(e)'
  <2>1. PICK threads \in 1..MaxThreads : Spawns(d, threads)
    BY <1>2, SpawnIs
  <2>2. UNCHANGED <<file, crowded, short>>
    BY <1>2 DEF Spawn, ghosts
  <2>3. CASE e = d
    <3> DEFINE ranges == SplitRanges(Total, threads)
    <3>1. \A i \in DOMAIN ranges : i \in Chunks /\ ranges[i] \in Pairs
      BY RangesInFile
    <3>2. \A i \in Chunks : i \in DOMAIN ranges => chunk'[d][i] = "asked" /\ range'[d][i] = ranges[i]
      BY <2>1 DEF Spawns
    <3> HIDE DEF ranges
    <3>3. ASSUME NEW i \in DOMAIN ranges PROVE chunk'[d][i] # "absent" /\ Covers(d, i, ranges[i])'
      <4>1. ranges[i][1] \in Nat /\ ranges[i][2] \in Nat
        BY <3>1, Constants, Pair DEF Pairs, Blocks
      <4>2. chunk'[d][i] = "asked" /\ range'[d][i] = ranges[i]
        BY <3>1, <3>2
      <4>3. \A b \in Blocks : ~(ranges[i][1] <= b /\ b < ranges[i][1])
        BY <4>1 DEF Blocks
      <4> QED BY <4>1, <4>2, <4>3 DEF Covers
    <3>4. Divided(d, threads)'
      BY <3>3 DEF Divided, ranges
    <3> QED BY <2>3, <3>4 DEF IsDivided
  <2>4. CASE e # d
    <3>1. chunk'[e] = chunk[e] /\ range'[e] = range[e] /\ flight'[e] = flight[e]
      BY <2>1, <2>4 DEF Spawns
    <3> QED BY <2>2, <3>1, SameKeeps, CoverKept
  <2> QED BY <2>3, <2>4
<1>3. ASSUME NEW d \in Downloads, Insert(d) PROVE IsDivided(e)'
  BY <1>3, <1>k DEF Insert, work, ghosts
<1>4. ASSUME NEW d \in Downloads, Drop(d) PROVE IsDivided(e)'
  BY <1>4, <1>k DEF Drop, work, ghosts
<1>5. ASSUME NEW d \in Downloads, Await(d) PROVE IsDivided(e)'
  BY <1>5, <1>k DEF Await, work, ghosts
<1>6. ASSUME NEW d \in Downloads, Review(d) PROVE IsDivided(e)'
  BY <1>6, <1>k DEF Review, work, ghosts
<1>7. ASSUME NEW d \in Downloads, MarkCompleted(d) PROVE IsDivided(e)'
  BY <1>7, <1>k DEF MarkCompleted, work, ghosts
<1>8. ASSUME NEW d \in Downloads, NEW i \in Chunks, Respond(d, i) PROVE IsDivided(e)'
  <2>1. PICK x \in Pairs :
          /\ Touches(d, i, "writing", x, flight[d][i])
          /\ x[1] = range[d][i][1] /\ range[d][i][2] <= x[2]
    BY <1>8, RespondTouches DEF Pairs
  <2>0. e \notin crowded \cup short /\ UNCHANGED <<file, crowded>>
        /\ "writing" # "absent" /\ chunk[e][1] # "absent"
    <3>1. e \notin crowded \cup short /\ UNCHANGED <<file, crowded>>
      BY <1>8 DEF Respond, ghosts
    <3>2. chunk[d][i] # "absent"
      BY <1>8 DEF Respond, Running
    <3>3. chunk[e][1] # "absent"
      BY <2>1, <3>2, Constants DEF Touches
    <3> QED BY <2>1, <3>1, <3>3
  <2>2. CASE e # d
    <3>1. \A j \in Chunks : UNCHANGED <<chunk[e][j], range[e][j], flight[e][j]>>
      BY <2>1, <2>2 DEF Touches
    <3> QED BY <2>0, <2>2, <3>1, SameKeeps, CoverKept, Constants
  <2>3. CASE e = d
    <3>1. ASSUME NEW r \in Pairs, Covers(d, i, r) PROVE Covers(d, i, r)'
      <4>1. r[2] \in Nat /\ range[d][i][2] \in Nat /\ x[2] \in Nat
        BY Constants, Pair DEF Pairs, Blocks, WorkTypes
      <4>2. chunk[d][i] \in Running /\ chunk'[d][i] = "writing"
            /\ range'[d][i] = x /\ flight'[d][i] = flight[d][i]
        BY <1>8, <2>1 DEF Respond, Running, Touches
      <4> QED BY <2>0, <2>1, <3>1, <4>1, <4>2 DEF Covers, Running
    <3>2. chunk[d][1] # "absent"
      BY <2>0, <2>3
    <3> QED BY <2>0, <2>1, <2>3, <3>1, <3>2, TaskKeeps, CoverKept
  <2> QED BY <2>2, <2>3
<1>9. ASSUME NEW d \in Downloads, NEW i \in Chunks, Write(d, i) PROVE IsDivided(e)'
  <2> DEFINE next == range[d][i][1]
             x == <<next + 1, range[d][i][2]>>
  <2>1. Touches(d, i, "writing", x, next)
    BY <1>9, WriteTouches
  <2>4. next \in Blocks /\ flight[d][i] = None
    BY <1>9, WriteTouches
  <2>0. e \notin crowded \cup short /\ UNCHANGED <<file, crowded>>
        /\ "writing" # "absent" /\ chunk[e][1] # "absent"
    <3>1. e \notin crowded \cup short /\ UNCHANGED <<file, crowded>>
      BY <1>9 DEF Write, ghosts
    <3>2. chunk[d][i] # "absent"
      BY <1>9 DEF Write, Running
    <3>3. chunk[e][1] # "absent"
      BY <2>1, <3>2, Constants DEF Touches
    <3> QED BY <2>1, <3>1, <3>3
  <2>5. x[1] = next + 1 /\ x[2] = range[d][i][2]
    OBVIOUS
  <2> HIDE DEF x
  <2>2. CASE e # d
    <3>1. \A j \in Chunks : UNCHANGED <<chunk[e][j], range[e][j], flight[e][j]>>
      BY <2>1, <2>2 DEF Touches
    <3> QED BY <2>0, <2>2, <3>1, SameKeeps, CoverKept, Constants
  <2>3. CASE e = d
    <3>1. ASSUME NEW r \in Pairs, Covers(d, i, r) PROVE Covers(d, i, r)'
      <4>1. chunk[d][i] \in Running /\ chunk'[d][i] = "writing"
            /\ range'[d][i] = x /\ flight'[d][i] = next
        BY <1>9, <2>1 DEF Write, Running, Touches
      <4>2. \A b \in Blocks : r[1] <= b /\ b < next => file[b] = d
        BY <2>4, <3>1, <4>1, Constants DEF Covers, Blocks
      <4>3. \A b \in Blocks : b < next + 1 => b < next \/ b = next
        BY <2>4 DEF Blocks
      <4>4. r[1] <= next + 1 /\ r[2] <= x[2]
        <5>1. r[1] \in Nat /\ next \in Nat /\ r[1] <= next /\ r[2] <= range[d][i][2]
          BY <2>4, <3>1, <4>1, Pair DEF Covers, Pairs, Blocks
        <5> QED BY <2>5, <5>1
      <4> QED BY <2>0, <2>5, <4>1, <4>2, <4>3, <4>4 DEF Covers
    <3>2. chunk[d][1] # "absent"
      BY <2>0, <2>3
    <3> QED BY <2>0, <2>1, <2>3, <3>1, <3>2, TaskKeeps, CoverKept
  <2> QED BY <2>2, <2>3
<1>10. ASSUME NEW d \in Downloads, NEW i \in Chunks, Flush(d, i) PROVE IsDivided(e)'
  <2>1. PICK k \in {"ok", "failed", "crashed"} : Touches(d, i, k, <<0, 0>>, flight[d][i])
    BY <1>10, ChunkEnds
  <2>0. e \notin crowded \cup short /\ UNCHANGED <<file, crowded>>
        /\ k # "absent" /\ chunk[e][1] # "absent"
    <3>1. e \notin crowded \cup short /\ UNCHANGED <<file, crowded>>
      BY <1>10 DEF Flush, ghosts
    <3>2. chunk[d][i] # "absent"
      BY <1>10 DEF Flush, Running
    <3>3. chunk[e][1] # "absent"
      BY <2>1, <3>2, Constants DEF Touches
    <3> QED BY <2>1, <3>1, <3>3
  <2>2. CASE e # d
    <3>1. \A j \in Chunks : UNCHANGED <<chunk[e][j], range[e][j], flight[e][j]>>
      BY <2>1, <2>2 DEF Touches
    <3> QED BY <2>0, <2>2, <3>1, SameKeeps, CoverKept, Constants
  <2>3. CASE e = d
    <3>1. ASSUME NEW r \in Pairs, Covers(d, i, r) PROVE Covers(d, i, r)'
      <4>1. /\ chunk[d][i] \in Running /\ flight[d][i] = None
            /\ range[d][i][1] > range[d][i][2]
        BY <1>10 DEF Flush, Drained, Running
      <4>2. range[d][i][1] \in Nat /\ range[d][i][2] \in Nat /\ r[2] \in Nat
        BY Constants, Pair DEF Pairs, Blocks, WorkTypes
      <4>3. \A b \in Blocks : Within(b, r) => r[1] <= b /\ b < range[d][i][1]
        BY <3>1, <4>1, <4>2 DEF Covers, Within, Blocks
      <4>4. \A b \in Blocks : Within(b, r) => file[b] = d
        BY <3>1, <4>1, <4>3, Constants DEF Covers, Blocks
      <4>5. chunk'[d][i] \notin Running
        BY <2>1 DEF Touches, Running
      <4> QED BY <2>0, <4>4, <4>5 DEF Covers
    <3>2. chunk[d][1] # "absent"
      BY <2>0, <2>3
    <3> QED BY <2>0, <2>1, <2>3, <3>1, <3>2, TaskKeeps, CoverKept
  <2> QED BY <2>2, <2>3
<1>11. ASSUME NEW d \in Downloads, NEW i \in Chunks, EndShort(d, i) PROVE IsDivided(e)'
  <2>1. PICK k \in {"ok", "failed", "crashed"} : Touches(d, i, k, <<0, 0>>, flight[d][i])
    BY <1>11, ChunkEnds
  <2>2. e # d
    BY <1>11 DEF EndShort
  <2>0. e \notin crowded \cup short /\ UNCHANGED <<file, crowded>>
        /\ k # "absent" /\ chunk[e][1] # "absent"
    <3>1. e \notin crowded \cup short /\ UNCHANGED <<file, crowded>>
      BY <1>11 DEF EndShort, ghosts
    <3>2. chunk[d][i] # "absent"
      BY <1>11 DEF EndShort, Running
    <3>3. chunk[e][1] # "absent"
      BY <2>1, <3>2, Constants DEF Touches
    <3> QED BY <2>1, <3>1, <3>3
  <2>3. \A j \in Chunks : UNCHANGED <<chunk[e][j], range[e][j], flight[e][j]>>
    BY <2>1, <2>2 DEF Touches
  <2> QED BY <2>0, <2>3, SameKeeps, CoverKept, Constants
<1>12. ASSUME NEW d \in Downloads, NEW i \in Chunks, Fail(d, i) PROVE IsDivided(e)'
  <2>1. PICK k \in {"ok", "failed", "crashed"} : Touches(d, i, k, <<0, 0>>, flight[d][i])
    BY <1>12, ChunkEnds
  <2>0. e \notin crowded \cup short /\ UNCHANGED <<file, crowded>>
        /\ k # "absent" /\ chunk[e][1] # "absent"
    <3>1. e \notin crowded \cup short /\ UNCHANGED <<file, crowded>>
      BY <1>12 DEF Fail, ghosts
    <3>2. chunk[d][i] # "absent"
      BY <1>12 DEF Fail, Running
    <3>3. chunk[e][1] # "absent"
      BY <2>1, <3>2, Constants DEF Touches
    <3> QED BY <2>1, <3>1, <3>3
  <2>2. CASE e # d
    <3>1. \A j \in Chunks : UNCHANGED <<chunk[e][j], range[e][j], flight[e][j]>>
      BY <2>1, <2>2 DEF Touches
    <3> QED BY <2>0, <2>2, <3>1, SameKeeps, CoverKept, Constants
  <2>3. CASE e = d
    <3>1. ASSUME NEW r \in Pairs, Covers(d, i, r) PROVE Covers(d, i, r)'
      <4>1. chunk'[d][i] \in {"failed", "crashed"}
        BY <1>12 DEF Fail, EndChunk, WorkTypes
      <4> QED BY <4>1 DEF Covers, Running
    <3>2. chunk[d][1] # "absent"
      BY <2>0, <2>3
    <3> QED BY <2>0, <2>1, <2>3, <3>1, <3>2, TaskKeeps, CoverKept
  <2> QED BY <2>2, <2>3
<1>13. ASSUME NEW d \in Downloads, NEW i \in Chunks, Abort(d, i) PROVE IsDivided(e)'
  <2>1. PICK k \in {"ok", "failed", "crashed"} : Touches(d, i, k, <<0, 0>>, flight[d][i])
    BY <1>13, ChunkEnds
  <2>0. e \notin crowded \cup short /\ UNCHANGED <<file, crowded>>
        /\ k # "absent" /\ chunk[e][1] # "absent"
    <3>1. e \notin crowded \cup short /\ UNCHANGED <<file, crowded>>
      BY <1>13 DEF Abort, ghosts
    <3>2. chunk[d][i] # "absent"
      BY <1>13 DEF Abort, Running
    <3>3. chunk[e][1] # "absent"
      BY <2>1, <3>2, Constants DEF Touches
    <3> QED BY <2>1, <3>1, <3>3
  <2>2. CASE e # d
    <3>1. \A j \in Chunks : UNCHANGED <<chunk[e][j], range[e][j], flight[e][j]>>
      BY <2>1, <2>2 DEF Touches
    <3> QED BY <2>0, <2>2, <3>1, SameKeeps, CoverKept, Constants
  <2>3. CASE e = d
    <3>1. ASSUME NEW r \in Pairs, Covers(d, i, r) PROVE Covers(d, i, r)'
      <4>1. chunk'[d][i] \in {"failed", "crashed"}
        BY <1>13 DEF Abort, EndChunk, WorkTypes
      <4> QED BY <4>1 DEF Covers, Running
    <3>2. chunk[d][1] # "absent"
      BY <2>0, <2>3
    <3> QED BY <2>0, <2>1, <2>3, <3>1, <3>2, TaskKeeps, CoverKept
  <2> QED BY <2>2, <2>3
<1>14. ASSUME NEW d \in Downloads, NEW i \in Chunks, Land(d, i) PROVE IsDivided(e)'
  <2>1. Touches(d, i, chunk[d][i], range[d][i], None) /\ flight[d][i] \in Blocks
    BY <1>14, LandTouches
  <2>0. e \notin crowded \cup short /\ chunk[e][1] # "absent" /\ Writes(d)
    BY <1>14 DEF Land, ghosts, Writes
  <2>2. e = d
    BY <2>0, Constants DEF ShapeInv, ShapeOf, AloneInv, AloneOf
  <2>3. \A b \in Blocks : file'[b] = IF b = flight[d][i] THEN d ELSE file[b]
    BY <1>14, <2>1 DEF Land, OtherTypes
  <2>4. CASE chunk[d][i] = "absent"
    <3>1. ASSUME NEW j \in Chunks, chunk[d][j] # "absent", NEW r \in Pairs, Covers(d, j, r)
          PROVE  Covers(d, j, r)'
      BY <2>1, <2>3, <2>4, <3>1 DEF Covers, Touches
    <3>2. Keeps(d)
      BY <2>0, <2>1, <2>2, <3>1 DEF Keeps, Touches
    <3> QED BY <2>0, <2>2, <3>2, CoverKept
  <2>5. CASE chunk[d][i] # "absent"
    <3>1. ASSUME NEW r \in Pairs, Covers(d, i, r) PROVE Covers(d, i, r)'
      BY <2>1, <2>3, <3>1 DEF Covers, Touches
    <3> QED BY <2>0, <2>1, <2>2, <2>3, <2>5, <3>1, TaskKeeps, CoverKept
  <2> QED BY <2>4, <2>5
<1>15. ASSUME NEW c \in Callers, ReadError(c) PROVE IsDivided(e)'
  BY <1>15, <1>k DEF ReadError, work, ghosts
<1>16. ASSUME NEW c \in Callers, ReadMark(c) PROVE IsDivided(e)'
  BY <1>16, <1>k DEF ReadMark, work, ghosts
<1>17. ASSUME NEW c \in Callers, Answer(c) PROVE IsDivided(e)'
  BY <1>17, <1>k DEF Answer, work, ghosts
<1>18. ASSUME NEW c \in Callers, Cancel(c) PROVE IsDivided(e)'
  BY <1>18, <1>k DEF Cancel, work, ghosts
<1>19. ASSUME NEW c \in Callers, Untrack(c) PROVE IsDivided(e)'
  BY <1>19, <1>k DEF Untrack, work, ghosts
<1>20. ASSUME NEW c \in Callers, NEW d \in Downloads, Get(c, d) PROVE IsDivided(e)'
  BY <1>20, <1>k DEF Get, work, ghosts
<1>21. ASSUME UNCHANGED vars PROVE IsDivided(e)'
  BY <1>21, <1>k DEF vars, work, ghosts
<1> QED BY <1>1, <1>2, <1>3, <1>4, <1>5, <1>6, <1>7, <1>8, <1>9, <1>10, <1>11, <1>12, <1>13,
           <1>14, <1>15, <1>16, <1>17, <1>18, <1>19, <1>20, <1>21 DEF Next, Monitor, ChunkStep,
           CallerStep

-----------------------------------------------------------------------------
(* What a caller is told.                                                    *)

LEMMA ToldKept ==
    ASSUME ToldInv, completed \subseteq completed',
           \A c \in Callers : saw'[c].completed => saw[c].completed /\ pc'[c] = pc[c] /\ about'[c] = about[c]
    PROVE  ToldInv'
BY DEF ToldInv

LEMMA ToldStep == TypeOK /\ ToldInv /\ [Next]_vars => ToldInv'
<1> SUFFICES ASSUME OtherTypes, ToldInv, [Next]_vars PROVE ToldInv'
  BY TypesAre
<1>1. ASSUME NEW d \in Downloads, Open(d) PROVE ToldInv'
  BY <1>1, ToldKept DEF Open, status, calls
<1>2. ASSUME NEW d \in Downloads, Spawn(d) PROVE ToldInv'
  BY <1>2, ToldKept DEF Spawn, status, calls
<1>3. ASSUME NEW d \in Downloads, Insert(d) PROVE ToldInv'
  BY <1>3, ToldKept DEF Insert, status, calls
<1>4. ASSUME NEW d \in Downloads, Drop(d) PROVE ToldInv'
  BY <1>4, ToldKept DEF Drop, status, calls
<1>5. ASSUME NEW d \in Downloads, Await(d) PROVE ToldInv'
  BY <1>5, ToldKept DEF Await, status, calls
<1>6. ASSUME NEW d \in Downloads, Review(d) PROVE ToldInv'
  BY <1>6, ToldKept DEF Review, status, calls
<1>7. ASSUME NEW d \in Downloads, MarkCompleted(d) PROVE ToldInv'
  BY <1>7, ToldKept DEF MarkCompleted, status, calls
<1>8. ASSUME NEW d \in Downloads, NEW i \in Chunks, Respond(d, i) PROVE ToldInv'
  BY <1>8, ToldKept DEF Respond, status, calls
<1>9. ASSUME NEW d \in Downloads, NEW i \in Chunks, Write(d, i) PROVE ToldInv'
  BY <1>9, ToldKept DEF Write, status, calls
<1>10. ASSUME NEW d \in Downloads, NEW i \in Chunks, Flush(d, i) PROVE ToldInv'
  BY <1>10, ToldKept DEF Flush, status, calls
<1>11. ASSUME NEW d \in Downloads, NEW i \in Chunks, EndShort(d, i) PROVE ToldInv'
  BY <1>11, ToldKept DEF EndShort, status, calls
<1>12. ASSUME NEW d \in Downloads, NEW i \in Chunks, Fail(d, i) PROVE ToldInv'
  BY <1>12, ToldKept DEF Fail, status, calls
<1>13. ASSUME NEW d \in Downloads, NEW i \in Chunks, Abort(d, i) PROVE ToldInv'
  BY <1>13, ToldKept DEF Abort, status, calls
<1>14. ASSUME NEW d \in Downloads, NEW i \in Chunks, Land(d, i) PROVE ToldInv'
  BY <1>14, ToldKept DEF Land, status, calls
<1>15. ASSUME NEW c \in Callers, ReadError(c) PROVE ToldInv'
  <2>1. ~saw[c].completed
    BY <1>15 DEF ReadError, ToldInv
  <2>2. completed' = completed /\ \A x \in Callers : saw'[x].completed = saw[x].completed
    BY <1>15 DEF ReadError, OtherTypes, status
  <2>3. \A x \in Callers \ {c} : pc'[x] = pc[x] /\ about'[x] = about[x]
    BY <1>15 DEF ReadError, Goto, OtherTypes
  <2> QED BY <2>1, <2>2, <2>3, ToldKept
<1>16. ASSUME NEW c \in Callers, ReadMark(c) PROVE ToldInv'
  <2>1. completed' = completed /\ about' = about /\ pc'[c] = "answer"
    BY <1>16 DEF ReadMark, Goto, OtherTypes, status
  <2>2. saw'[c].completed => about[c] \in completed
    BY <1>16 DEF ReadMark, OtherTypes
  <2>3. \A x \in Callers \ {c} : pc'[x] = pc[x] /\ saw'[x] = saw[x]
    BY <1>16 DEF ReadMark, Goto, OtherTypes
  <2> QED BY <2>1, <2>2, <2>3 DEF ToldInv
<1>17. ASSUME NEW c \in Callers, Answer(c) PROVE ToldInv'
  <2>1. completed' = completed /\ ~saw'[c].completed
    BY <1>17 DEF Answer, Forget, Unread, OtherTypes, status
  <2>2. \A x \in Callers \ {c} : pc'[x] = pc[x] /\ about'[x] = about[x] /\ saw'[x] = saw[x]
    BY <1>17 DEF Answer, Forget, OtherTypes
  <2> QED BY <2>1, <2>2, ToldKept
<1>18. ASSUME NEW c \in Callers, Cancel(c) PROVE ToldInv'
  <2>1. ~saw[c].completed
    BY <1>18 DEF Cancel, ToldInv
  <2>2. completed' = completed /\ \A x \in Callers : saw'[x].completed = saw[x].completed
    BY <1>18 DEF Cancel, OtherTypes, status
  <2>3. \A x \in Callers \ {c} : pc'[x] = pc[x] /\ about'[x] = about[x]
    BY <1>18 DEF Cancel, Goto, OtherTypes
  <2> QED BY <2>1, <2>2, <2>3, ToldKept
<1>19. ASSUME NEW c \in Callers, Untrack(c) PROVE ToldInv'
  <2>1. completed' = completed /\ ~saw'[c].completed
    BY <1>19 DEF Untrack, Forget, Unread, OtherTypes, status
  <2>2. \A x \in Callers \ {c} : pc'[x] = pc[x] /\ about'[x] = about[x] /\ saw'[x] = saw[x]
    BY <1>19 DEF Untrack, Forget, OtherTypes
  <2> QED BY <2>1, <2>2, ToldKept
<1>20. ASSUME NEW c \in Callers, NEW d \in Downloads, Get(c, d) PROVE ToldInv'
  <2>1. ~saw[c].completed /\ saw' = saw /\ completed' = completed
    BY <1>20 DEF Get, ToldInv, status
  <2>2. \A x \in Callers \ {c} : pc'[x] = pc[x] /\ about'[x] = about[x]
    BY <1>20 DEF Get, Goto, OtherTypes
  <2> QED BY <2>1, <2>2, ToldKept
<1>21. ASSUME UNCHANGED vars PROVE ToldInv'
  BY <1>21, ToldKept DEF vars, status, calls
<1> QED BY <1>1, <1>2, <1>3, <1>4, <1>5, <1>6, <1>7, <1>8, <1>9, <1>10, <1>11, <1>12, <1>13,
           <1>14, <1>15, <1>16, <1>17, <1>18, <1>19, <1>20, <1>21 DEF Next, Monitor, ChunkStep,
           CallerStep

LEMMA Wholes == Spec => [](TypeOK /\ ShapeInv /\ VerdictInv /\ AloneInv /\ CoverInv /\ ToldInv)
<1>1. Init => AloneInv /\ CoverInv /\ ToldInv
  BY Constants DEF Init, AloneInv, CoverInv, ToldInv, Unread
<1> QED BY <1>1, TypesStart, TypesStep, Verdicts, AloneStep, CoverStep, ToldStep, PTL DEF Spec

\* What is told to be complete is whole: every block on disk is of that download
\* (tasks.rs, service.rs, status.rs), unless another download saved to the same path
\* or the server sent less than a range.
THEOREM CompletedWhole == Spec => []CompletedIsWhole
<1>1. ShapeInv /\ TypeOK /\ VerdictInv /\ CoverInv /\ ToldInv => CompletedIsWhole
  <2> SUFFICES ASSUME WorkTypes, OtherTypes, ShapeInv, VerdictInv, CoverInv, ToldInv,
                      NEW c \in Callers, pc[c] = "answer", Outcome(saw[c]) = "Completed",
                      about[c] \notin crowded \cup short, NEW b \in Blocks
               PROVE  file[b] = about[c]
    BY TypesAre DEF CompletedIsWhole
  <2> DEFINE d == about[c]
  <2>1. d \in completed /\ d \in Downloads
    BY DEF Outcome, ToldInv, OtherTypes
  <2>2. awaited[d] = Gone /\ ~failed[d]
    BY <2>1 DEF VerdictInv, VerdictOf
  <2>3. \A i \in Chunks : i < awaited[d] /\ awaited[d] >= Past
    BY <2>2, Constants DEF Chunks
  <2>4. chunk[d][1] # "absent" /\ \A i \in Chunks : chunk[d][i] \in {"ok", "absent"}
    <3>1. VerdictOf(d)
      BY <2>1 DEF VerdictInv
    <3>2. chunk[d][1] # "absent" /\ \A i \in Chunks : chunk[d][i] \notin Running \cup {"failed", "crashed"}
      BY <2>2, <2>3, <3>1, Constants DEF VerdictOf
    <3>3. \A i \in Chunks : chunk[d][i] \in Running \cup Ended
      BY <2>1 DEF WorkTypes
    <3> QED BY <3>2, <3>3 DEF Ended
  <2> HIDE DEF d
  <2>5. PICK threads \in 1..MaxThreads : Divided(d, threads)
    BY <2>1, <2>4 DEF CoverInv, IsDivided, d
  <2> DEFINE ranges == SplitRanges(Total, threads)
  <2>6. PICK i \in DOMAIN ranges : Within(b, ranges[i])
    BY RangesPartition, Constants DEF Blocks
  <2>7. i \in Chunks /\ chunk[d][i] # "absent" /\ Covers(d, i, ranges[i])
    BY <2>5, RangesInFile DEF Divided
  <2> QED BY <2>4, <2>6, <2>7 DEF Covers, d
<1> QED BY <1>1, Wholes, PTL

=============================================================================
