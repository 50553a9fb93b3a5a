---------------------------- MODULE MCDeployment ----------------------------
(***************************************************************************)
(* Three index files for TLC: hg38.cpg_idx, hg38-.cpg_idx (its name also   *)
(* yields hg38 under ^[_[:alnum:]]+) and a third: mm39.cpg_idx, or         *)
(* h.cpg_idx, which passes the index command's extension check but not    *)
(* the server's filename pattern, whose "." before cpg_idx needs a second  *)
(* character.                                                              *)
(***************************************************************************)
EXTENDS Deployment, TLC

CONSTANTS f1, f2, f3, hg38, mm39

MCFiles == {f1, f2, f3}

MCAssemblies == {hg38, mm39}

\* The file names the server's pattern matches: f3 named mm39.cpg_idx.
MCYieldOfMatched == (f1 :> hg38) @@ (f2 :> hg38) @@ (f3 :> mm39)

\* f3 named h.cpg_idx, a name the index command accepts and the scan skips.
MCYieldOf == (f1 :> hg38) @@ (f2 :> hg38) @@ (f3 :> "unmatched")

=============================================================================
