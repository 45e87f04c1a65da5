----------------------------- MODULE MCNotebook -----------------------------
(* Notebook on a small instance.                                           *)
EXTENDS Notebook, TLC

(* The incidents share an alert name.                                      *)
AllAlike(i, k) == TRUE

(* All ids are interchangeable: sound for safety.                          *)
NotebookSymmetry ==
  Permutations(Incidents) \cup Permutations(Items) \cup Permutations(Engineers)

(* A page that is shown is checked and left there: nothing reads it.  While *)
(* one is loading no review transaction is open: a page reads only what is *)
(* committed, and a commit between its two statements is not in them.      *)
PagesApart ==
  /\ page.at # "shown"
  /\ page.at = "evidence" => \A g \in Engineers : review[g] = NoReview
=============================================================================
