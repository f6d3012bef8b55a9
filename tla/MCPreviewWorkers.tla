-------------------------- MODULE MCPreviewWorkers --------------------------
(* Instances of PreviewWorkers for TLC: workers are interchangeable, and so  *)
(* are PDFs.                                                                *)
EXTENDS PreviewWorkers, TLC

WorkerSymmetry == Permutations(Workers)
PdfSymmetry == Permutations(Pdfs) \cup Permutations(Workers)
=============================================================================
