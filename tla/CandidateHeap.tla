--------------------------- MODULE CandidateHeap ---------------------------
(***************************************************************************)
(* The choice of the places in the spectrum where an FT8 signal is tried   *)
(* (ft8_lib/ft8/decode.c, ftx_find_candidates): of all places whose sync   *)
(* score reaches min_score, at most num_candidates are kept in a min-heap  *)
(* while the spectrum is scanned, and then sorted.                         *)
(*                                                                         *)
(* A candidate is [at, score]: at stands for its time and frequency, in    *)
(* the order in which the four nested loops visit them. The heap's slot i  *)
(* is element i + 1 of the sequence.                                       *)
(***************************************************************************)
EXTENDS Integers, Sequences, FiniteSets

VARIABLE searched   \* [scores, num_candidates, min_score]: the spectra that are searched

Swap(heap, i, j) == [heap EXCEPT ![i] = heap[j], ![j] = heap[i]]

(***************************************************************************)
(* Sift down without looking at the right child.                           *)
(***************************************************************************)
SmallestLeft(heap, heap_size, current) ==
    IF 2 * current <= heap_size /\ heap[2 * current].score < heap[current].score
    THEN 2 * current ELSE current

(***************************************************************************)
(* The weakest of a node and its children.                                 *)
(***************************************************************************)
Smallest(heap, heap_size, current) ==
    LET left  == 2 * current
        right == 2 * current + 1
        a == IF left <= heap_size /\ heap[left].score < heap[current].score
             THEN left ELSE current
    IN IF right <= heap_size /\ heap[right].score < heap[a].score THEN right ELSE a

(***************************************************************************)
(* One round of heapify_down: the node is exchanged with the weakest of    *)
(* the three, or stays where it is.                                        *)
(***************************************************************************)
SiftDown(state, heap_size) ==
    LET smallest == Smallest(state.heap, heap_size, state.current)
    IN [heap |-> Swap(state.heap, state.current, smallest), current |-> smallest]

(***************************************************************************)
(* The loop ends when the node stays; the rounds after that change         *)
(* nothing, and there are never more than heap_size before.                *)
(***************************************************************************)
heapify_down(heap, heap_size) ==
    LET sift[n \in 0 .. heap_size] ==
            IF n = 0 THEN [heap |-> heap, current |-> 1] ELSE SiftDown(sift[n - 1], heap_size)
    IN  sift[heap_size].heap

SiftUp(state) ==
    LET parent == state.current \div 2
    IN IF state.current > 1 /\ state.heap[state.current].score < state.heap[parent].score
       THEN [heap |-> Swap(state.heap, state.current, parent), current |-> parent]
       ELSE state

heapify_up(heap) ==
    LET sift[n \in 0 .. Len(heap)] ==
            IF n = 0 THEN [heap |-> heap, current |-> Len(heap)] ELSE SiftUp(sift[n - 1])
    IN  sift[Len(heap)].heap

(***************************************************************************)
(* A candidate that reaches min_score replaces the weakest of a full heap  *)
(* if it is stronger, and is added to a heap with room.                    *)
(***************************************************************************)
WithoutRoot(heap) ==
    heapify_down(SubSeq([heap EXCEPT ![1] = heap[Len(heap)]], 1, Len(heap) - 1), Len(heap) - 1)

Consider(heap, candidate, num_candidates, min_score) ==
    LET full  == Len(heap) = num_candidates
        room  == IF full /\ candidate.score > heap[1].score THEN WithoutRoot(heap) ELSE heap
    IN IF candidate.score < min_score THEN heap
       ELSE IF Len(room) = num_candidates THEN room
       ELSE heapify_up(Append(room, candidate))

(***************************************************************************)
(* The root, the weakest, goes to the end of ever shorter heaps.           *)
(***************************************************************************)
SortHeap(heap) ==
    LET sorted[n \in 0 .. Len(heap) - 1] ==
            IF n = 0 THEN heap
            ELSE LET len_unsorted == Len(heap) - n
                 IN  heapify_down(Swap(sorted[n - 1], 1, len_unsorted + 1), len_unsorted)
    IN  IF Len(heap) <= 1 THEN heap ELSE sorted[Len(heap) - 1]

ftx_find_candidates(scores, num_candidates, min_score) ==
    LET heap[i \in 0 .. Len(scores)] ==
            IF i = 0 THEN << >>
            ELSE Consider(heap[i - 1], [at |-> i, score |-> scores[i]], num_candidates, min_score)
    IN  SortHeap(heap[Len(scores)])

-----------------------------------------------------------------------------
(***************************************************************************)
(* The list is what sorting all places would give: in order of falling     *)
(* score, each place once, as many as there are room for, and no place     *)
(* left out is stronger than one that is in.                               *)
(***************************************************************************)
StrongestChosen(scores, num_candidates, min_score) ==
    LET found  == ftx_find_candidates(scores, num_candidates, min_score)
        places == {found[i].at : i \in DOMAIN found}
        able   == {i \in DOMAIN scores : scores[i] >= min_score}
    IN /\ Cardinality(places) = Len(found) /\ places \subseteq able
       /\ \A i \in DOMAIN found : found[i].score = scores[found[i].at]
       /\ \A i \in 2 .. Len(found) : found[i - 1].score >= found[i].score
       /\ Len(found) = IF Cardinality(able) < num_candidates
                       THEN Cardinality(able) ELSE num_candidates
       /\ \A i \in places, j \in able \ places : scores[i] >= scores[j]

(***************************************************************************)
(* ftx_find_candidates returns the strongest places of the spectrum.       *)
(***************************************************************************)
CandidatesStrongest ==
    \A s \in searched : StrongestChosen(s.scores, s.num_candidates, s.min_score)
=============================================================================
