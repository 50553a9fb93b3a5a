------------------------- MODULE GenomicIntervalOutput -------------------------
(***************************************************************************)
(* write_bins of genomic_interval_output.hpp, as an operator from its      *)
(* inputs to what it writes.  A written line is the record               *)
(* [chrom, beg, end, res]: the chromosome name copied to the front of the  *)
(* buffer, the two positions and the counts tuple the results iterator    *)
(* points at; its text layout is left out.  An iterator dereferenced at or *)
(* past cend(results) reads "past_end".                                    *)
(*                                                                         *)
(* The ostream may go bad: fail is the number of the out.write call that   *)
(* first fails (0: none does), after which the writer returns errno.       *)
(***************************************************************************)
EXTENDS Naturals, Sequences, SequencesExt

CONSTANT W  \* bits of a uint32_t

U32(x) == x % (2 ^ W)

\* *results_itr, for an iterator at 1-based position r.
Deref(results, r) == IF r <= Len(results) THEN results[r] ELSE "past_end"

\* The value a writer returns, with the lines it has written.
Written(lines, itr, err) == [lines |-> lines, itr |-> itr, err |-> err]

----------------------------------------------------------------------------
(* write_bins(out, cim, bin_size, results).                                *)

\* Mutation of the loop test: bin_beg <= chrom_size.
BinLoopGoesOnInclusive(beg, size) == beg <= size

\* for (...; bin_beg < chrom_size; ...)
BinLoopGoesOn(beg, size) == beg < size

\* std::min(bin_beg + bin_size, chrom_size), in uint32_t.
BinEnd(beg, bsz, size) == IF U32(beg + bsz) < size THEN U32(beg + bsz) ELSE size

\* The inner loop of write_bins for one chromosome, from bin_beg = beg
\* with the iterator at r: every write so far has advanced it, so the r-th
\* write is the next.
RECURSIVE BinsOfChrom(_, _, _, _, _, _, _)
BinsOfChrom(name, size, bsz, beg, results, r, fail) ==
  IF ~BinLoopGoesOn(beg, size)
    THEN Written(<<>>, r, FALSE)
    ELSE IF r = fail
      THEN Written(<<>>, r, TRUE)
      ELSE LET line == [chrom |-> name, beg |-> beg,
                        end |-> BinEnd(beg, bsz, size),
                        res |-> Deref(results, r)]
               rest == BinsOfChrom(name, size, bsz, U32(beg + bsz), results,
                                   r + 1, fail)
           IN Written(<<line>> \o rest.lines, rest.itr, rest.err)

\* The outer loop over zip(cim.chrom_size, cim.chrom_order), from
\* chromosome c; a failed write returns at once.
RECURSIVE BinsFrom(_, _, _, _, _, _)
BinsFrom(cim, bsz, c, results, r, fail) ==
  IF c > Len(cim.chrom_size)
    THEN Written(<<>>, r, FALSE)
    ELSE LET here == BinsOfChrom(cim.chrom_order[c], cim.chrom_size[c], bsz, 0,
                                 results, r, fail)
             rest == BinsFrom(cim, bsz, c + 1, results, here.itr, fail)
         IN IF here.err THEN here
            ELSE Written(here.lines \o rest.lines, rest.itr, rest.err)

\* write_bins: the lines, where results_itr ends, and whether errno is
\* returned.  On success the code asserts results_itr == cend(results).
WriteBins(cim, bsz, results, fail) == BinsFrom(cim, bsz, 1, results, 1, fail)

=============================================================================
