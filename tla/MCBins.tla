------------------------------- MODULE MCBins -------------------------------
(***************************************************************************)
(* Inputs of bins_main for TLC: small CpG indexes that satisfy the index  *)
(* invariants of spec section 4.1 (positions ascending and below the      *)
(* chromosome size, chrom_offset the prefix sums of the position counts). *)
(***************************************************************************)
EXTENDS Bins

Idx(sizes, posns) ==
  [chrom_size   |-> sizes,
   positions    |-> posns,
   chrom_offset |-> [c \in DOMAIN posns |->
                       IF c = 1 THEN 0
                       ELSE Len(FlattenSeq(SubSeq(posns, 1, c - 1)))],
   n_cpgs_total |-> Len(FlattenSeq(posns))]

\* Scenario S1 of the spec: chr1 = ACGTCGCG, chr2 = CG.
S1Index == Idx(<<8, 2>>, << <<2, 4, 6>>, <<0>> >>)

\* A genome with no CpG at all.
NoCpgIndex == Idx(<<3>>, << <<>> >>)

\* CpGs on the first and last base of a chromosome, and a chromosome
\* starting with a CpG-free stretch.
EdgeIndex == Idx(<<5, 4>>, << <<0, 4>>, <<3>> >>)

MCIndexes == {S1Index, NoCpgIndex, EdgeIndex}

\* Records with no coverage, with both kinds of read, with one kind only.
MCCountVals == {<<0, 0>>, <<1, 2>>, <<3, 0>>}

----------------------------------------------------------------------------
(* The results of bins_main handed to write_bins of                         *)
(* genomic_interval_output.hpp, which walks the chromosomes of the index   *)
(* metadata with its own bin loop.                                         *)

Out == INSTANCE GenomicIntervalOutput

ChromNames == <<"chr1", "chr2">>

\* The cpg_index_meta of the index: chromosome sizes and names.
Cim == [chrom_size  |-> index.chrom_size,
        chrom_order |-> [c \in 1..NChroms |-> ChromNames[c]]]

\* Bin b of chromosome c, as spec section 4.2 defines it.
RefBinInterval(c, b) ==
  [ch_id |-> c - 1, start |-> (b - 1) * bin_size,
   stop  |-> IF b * bin_size <= index.chrom_size[c] THEN b * bin_size
                                                   ELSE index.chrom_size[c]]

BinIntervals ==
  FlattenSeq([c \in 1..NChroms |->
                [b \in 1..CeilDiv(index.chrom_size[c], bin_size) |->
                   RefBinInterval(c, b)]])

\* The lines a bins output should hold: each bin's chromosome, bounds and
\* reference counts.
RefLines ==
  [k \in DOMAIN BinIntervals |->
     [chrom |-> ChromNames[BinIntervals[k].ch_id + 1],
      beg |-> BinIntervals[k].start, end |-> BinIntervals[k].stop,
      res |-> Expected[k]]]

\* write_bins, whose bin loop is its own copy of the one in bins_main,
\* reads exactly the results bins_main produced: it never dereferences
\* results_itr at cend(results), and on success its assertion
\* results_itr == cend(results) holds; when the stream fails at the f-th
\* write it returns errno having written the first f-1 lines.
WriteBinsConsumesResults ==
  pc = "done" =>
    \A f \in 0..Len(results) :
      LET w == Out!WriteBins(Cim, bin_size, results, f)
      IN IF f = 0
           THEN ~w.err /\ w.itr = Len(results) + 1 /\ w.lines = RefLines
           ELSE w.err /\ w.lines = SubSeq(RefLines, 1, f - 1)

=============================================================================
