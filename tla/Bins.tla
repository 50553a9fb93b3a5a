-------------------------------- MODULE Bins --------------------------------
(***************************************************************************)
(* The bins command (bins.cpp): bins_main reads a CpG index and a          *)
(* methylome, then for each chromosome walks bins [i, min(i+bin_size,      *)
(* chrom_size)) for i = 0, bin_size, 2*bin_size, ..., calling bin_counts   *)
(* to advance the position cursor and the CpG-record cursor in lockstep    *)
(* and sum the records whose position falls before the bin's end.  The     *)
(* loop index, the chromosome sizes, the positions and the sums are        *)
(* uint32_t; the model gives them W bits.                                  *)
(***************************************************************************)
EXTENDS Naturals, Sequences, SequencesExt

CONSTANTS
  W,          \* bits of a uint32_t
  Indexes,    \* cpg_index contents the index file may hold
  CountVals,  \* (n_meth, n_unmeth) values a methylome record may hold
  BinSizes,   \* values the --bin option may be given
  MaxResults  \* bound on the length of the results vector

VARIABLES
  pc,        \* where bins_main is
  index,     \* the cpg_index read from the index file
  cpgs,      \* meth.cpgs, the methylome records
  bin_size,  \* the --bin option
  ch,        \* the chromosome the zip loop is at (1-based)
  i,         \* loop index of the bin loop: start of the current bin
  posn,      \* posn_itr, as an index into index.positions[ch]
  cpg,       \* cpg_itr, as an index into cpgs
  results    \* the results vector

vars == <<pc, index, cpgs, bin_size, ch, i, posn, cpg, results>>

U32(x) == x % (2 ^ W)

NChroms == Len(index.chrom_size)

\* The chosen option and file contents; nothing has been read yet.
Init ==
  /\ pc = "read_index"
  /\ index \in Indexes
  /\ cpgs = <<>>
  /\ bin_size \in BinSizes
  /\ ch = 0
  /\ i = 0
  /\ posn = 0
  /\ cpg = 0
  /\ results = <<>>

----------------------------------------------------------------------------
(* bin_counts: the number of positions the while loop consumes, from       *)
(* posn, before reaching one at or past bin_end; and the sums of the       *)
(* records it passes, in uint32_t.                                         *)

\* Mutation of the while condition: *posn_itr <= bin_end.
RECURSIVE ConsumedThrough(_, _, _)
ConsumedThrough(ps, p, bin_end) ==
  IF p <= Len(ps) /\ ps[p] <= bin_end
    THEN 1 + ConsumedThrough(ps, p + 1, bin_end) ELSE 0

RECURSIVE Consumed(_, _, _)
Consumed(ps, p, bin_end) ==
  IF p <= Len(ps) /\ ps[p] < bin_end THEN 1 + Consumed(ps, p + 1, bin_end)
                                     ELSE 0

AddRecord(acc, r) ==
  <<U32(acc[1] + r[1]), U32(acc[2] + r[2]),
    U32(acc[3] + (IF r[1] + r[2] > 0 THEN 1 ELSE 0))>>

BinCounts(recs) == FoldLeft(AddRecord, <<0, 0, 0>>, recs)

\* const auto bin_end = min(i + bin_size, chrom_size);
BinEnd(x, size) == IF U32(x + bin_size) <= size THEN U32(x + bin_size) ELSE size

\* Mutation of the CpG cursor start: one record past cbegin + offset.
ChromStartSkip(c) == index.chrom_offset[c] + 2

\* auto cpg_itr = cbegin(meth.cpgs) + offset;
ChromStart(c) == index.chrom_offset[c] + 1

\* i += bin_size
NextBin(x) == U32(x + bin_size)

----------------------------------------------------------------------------
(* Actions.                                                                *)

\* index.read(index_file): a failure ends the program.
ReadIndex ==
  /\ pc = "read_index"
  /\ pc' \in {"read_meth", "fail"}
  /\ UNCHANGED <<index, cpgs, bin_size, ch, i, posn, cpg, results>>

\* meth.read(meth_file, index.n_cpgs_total): one record per CpG, or fail.
ReadMethylome ==
  /\ pc = "read_meth"
  /\ \/ /\ cpgs' \in [1..index.n_cpgs_total -> CountVals]
        /\ pc' = "open_out"
     \/ /\ pc' = "fail"
        /\ UNCHANGED cpgs
  /\ UNCHANGED <<index, bin_size, ch, i, posn, cpg, results>>

\* ofstream out(output_file): a failure ends the program; otherwise the
\* zip loop starts at the first chromosome.
OpenOutput ==
  /\ pc = "open_out"
  /\ \/ /\ pc' = "chrom"
        /\ ch' = 1
     \/ /\ pc' = "fail"
        /\ UNCHANGED ch
  /\ UNCHANGED <<index, cpgs, bin_size, i, posn, cpg, results>>

\* Next element of the zip: cursors at the chromosome's first position and
\* at cbegin(meth.cpgs) + offset, i = 0; after the last one, print.
NextChrom ==
  /\ pc = "chrom"
  /\ IF ch <= NChroms
       THEN /\ pc' = "bin"
            /\ posn' = 1
            /\ cpg' = ChromStart(ch)
            /\ i' = 0
       ELSE /\ pc' = "print"
            /\ UNCHANGED <<posn, cpg, i>>
  /\ UNCHANGED <<index, cpgs, bin_size, ch, results>>

\* One iteration of the bin loop: bin_end = min(i + bin_size, chrom_size),
\* results.emplace_back(bin_counts(...)), i += bin_size.  When
\* i >= chrom_size the loop ends and the zip moves on.
BinStep ==
  /\ pc = "bin"
  /\ LET size == index.chrom_size[ch]
     IN IF i < size
          THEN LET bin_end == BinEnd(i, size)
                   k == Consumed(index.positions[ch], posn, bin_end)
               IN /\ Len(results) < MaxResults
                  /\ results' = Append(results,
                                       BinCounts(SubSeq(cpgs, cpg, cpg + k - 1)))
                  /\ posn' = posn + k
                  /\ cpg' = cpg + k
                  /\ i' = NextBin(i)
                  /\ UNCHANGED <<pc, ch>>
          ELSE /\ pc' = "chrom"
               /\ ch' = ch + 1
               /\ UNCHANGED <<results, posn, cpg, i>>
  /\ UNCHANGED <<index, cpgs, bin_size>>

\* println(out, ...) for each result, then return EXIT_SUCCESS.
PrintResults ==
  /\ pc = "print"
  /\ pc' = "done"
  /\ UNCHANGED <<index, cpgs, bin_size, ch, i, posn, cpg, results>>

Next ==
  \/ ReadIndex
  \/ ReadMethylome
  \/ OpenOutput
  \/ NextChrom
  \/ BinStep
  \/ PrintResults

\* The program runs on one thread with nothing to wait for.
Spec == Init /\ [][Next]_vars /\ WF_vars(Next)

----------------------------------------------------------------------------
(* Reference: the bins of spec section 4.2 and property 5.  Bin b (1-based) *)
(* of chromosome c is [(b-1)*B, min(b*B, S)), there are ceil(S/B) of them, *)
(* and each sums, without overflow, the records of the CpGs in it.         *)

CeilDiv(a, b) == (a + b - 1) \div b

InBin(c, b) ==
  LET lo == (b - 1) * bin_size
      hi == IF b * bin_size <= index.chrom_size[c] THEN b * bin_size
                                                  ELSE index.chrom_size[c]
  IN {j \in DOMAIN index.positions[c] :
        lo <= index.positions[c][j] /\ index.positions[c][j] < hi}

RefBin(c, b) ==
  LET rec(j) == cpgs[index.chrom_offset[c] + j]
      J == InBin(c, b)
  IN <<MapThenSumSet(LAMBDA j : rec(j)[1], J),
       MapThenSumSet(LAMBDA j : rec(j)[2], J),
       Cardinality({j \in J : rec(j)[1] + rec(j)[2] > 0})>>

Expected ==
  FlattenSeq([c \in 1..NChroms |->
                [b \in 1..CeilDiv(index.chrom_size[c], bin_size) |-> RefBin(c, b)]])

Walking == {"chrom", "bin", "print", "done"}

TypeOK ==
  /\ pc \in {"read_index", "read_meth", "open_out", "fail"} \cup Walking
  /\ index \in Indexes
  /\ bin_size \in BinSizes
  /\ cpgs \in Seq(CountVals)
  /\ ch \in 0..(NChroms + 1)
  /\ i \in 0..(2 ^ W - 1)
  /\ posn \in Nat
  /\ cpg \in 0..(index.n_cpgs_total + 1)
  /\ results \in Seq((0..(2 ^ W - 1)) \X (0..(2 ^ W - 1)) \X (0..(2 ^ W - 1)))

\* While bins_main walks the chromosomes, the results emitted so far are the
\* first bins of the reference in order, and when it prints them they are
\* all of them: the loop of bins_main and the cursors of bin_counts
\* partition every chromosome into ceil(S/B) bins and attribute each CpG
\* record to the bin holding its position, with exact sums.
BinsCorrect ==
  /\ pc \in Walking => IsPrefix(results, Expected)
  /\ pc \in {"print", "done"} => results = Expected

=============================================================================
