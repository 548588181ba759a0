----------------------------- MODULE Detection ------------------------------
(* Detection post-processing, drivers/misc/ameba_npu: the candidates of the  *)
(* output tensors are collected into a fixed array (add_candidate,           *)
(* add_face_box), then non-maximum suppression marks the redundant ones      *)
(* (do_class_aware_diou_nms; do_nms is the same with a single class).        *)
(*                                                                           *)
(* Which boxes overlap too much (box_iou, box_diou against the threshold) is *)
(* a symmetric relation chosen freely; scores are compared only.             *)
EXTENDS Integers, Sequences, FiniteSets

CONSTANTS
  DetClasses,     \* class indices, 1 to DetClasses
  DetScores,      \* the scores, as integers
  MaxCandidates,  \* YOLOV4_TINY_MAX_CANDIDATES, or the size of face_boxes
  DetSeen         \* bound: cells of the tensors above the threshold

ASSUME DetAssumption ==
  DetClasses \in Nat /\ DetScores \subseteq Nat /\ MaxCandidates \in Nat /\ DetSeen \in Nat

VARIABLES
  detNear,   \* pairs of array slots that overlap too much
  detBoxes,  \* the array: [class, score, invalid]
  detFull,   \* yolo_boxes_full
  detSeen,   \* candidates offered so far
  detClass,  \* 0 while decoding, then the class being suppressed
  detOrder,  \* the class's slots as qsort left them
  detTurn    \* the index of the outer loop

detVars == <<detNear, detBoxes, detFull, detSeen, detClass, detOrder, detTurn>>

DetTypeOK ==
  /\ detNear \subseteq (1..MaxCandidates) \X (1..MaxCandidates)
  /\ detBoxes \in Seq([class : 1..DetClasses, score : DetScores, invalid : BOOLEAN])
  /\ Len(detBoxes) <= MaxCandidates
  /\ detFull \in BOOLEAN /\ detSeen \in 0..DetSeen
  /\ detClass \in 0..DetClasses + 1
  /\ detOrder \in Seq(1..Len(detBoxes))
  /\ detTurn \in 1..MaxCandidates + 1

DetInit ==
  /\ \E half \in SUBSET {p \in (1..MaxCandidates) \X (1..MaxCandidates) : p[1] < p[2]} :
       detNear = half \cup {<<p[2], p[1]>> : p \in half}
  /\ detBoxes = <<>> /\ detFull = FALSE /\ detSeen = 0
  /\ detClass = 0 /\ detOrder = <<>> /\ detTurn = 1

\* a cell and a class above the confidence threshold
DetAdd(class, score) ==
  /\ detClass = 0 /\ detSeen < DetSeen
  /\ detSeen' = detSeen + 1
  /\ IF Len(detBoxes) >= MaxCandidates
     THEN detFull' = TRUE /\ UNCHANGED detBoxes
     ELSE /\ detBoxes' = Append(detBoxes, [class |-> class, score |-> score, invalid |-> FALSE])
          /\ UNCHANGED detFull
  /\ UNCHANGED <<detNear, detClass, detOrder, detTurn>>

\* the slots of a class by falling score; equal scores in any order
Sorted(class) ==
  LET mine == {i \in 1..Len(detBoxes) : detBoxes[i].class = class} IN
  {s \in [1..Cardinality(mine) -> mine] :
     \A i, j \in DOMAIN s : i < j => s[i] # s[j] /\ detBoxes[s[i]].score >= detBoxes[s[j]].score}

DetNextClass ==
  /\ detClass <= DetClasses /\ detTurn > Len(detOrder)
  /\ detClass' = detClass + 1
  /\ detOrder' \in Sorted(detClass + 1)
  /\ detTurn' = 1
  /\ UNCHANGED <<detNear, detBoxes, detFull, detSeen>>

\* Mutant of DetSuppress: a suppressed box suppresses others.
DetSuppressByAll ==
  LET a == detOrder[detTurn]
      hit == {detOrder[j] : j \in {j \in detTurn + 1..Len(detOrder) :
                                     <<a, detOrder[j]>> \in detNear}} IN
  /\ detClass > 0 /\ detTurn <= Len(detOrder)
  /\ detBoxes' = [i \in DOMAIN detBoxes |->
                    [detBoxes[i] EXCEPT !.invalid = @ \/ i \in hit]]
  /\ detTurn' = detTurn + 1
  /\ UNCHANGED <<detNear, detFull, detSeen, detClass, detOrder>>

\* one turn of the outer loop: a valid box suppresses the overlapping ones
\* behind it
DetSuppress ==
  LET a == detOrder[detTurn]
      hit == {detOrder[j] : j \in {j \in detTurn + 1..Len(detOrder) :
                                     <<a, detOrder[j]>> \in detNear}} IN
  /\ detClass > 0 /\ detTurn <= Len(detOrder)
  /\ detBoxes' = IF detBoxes[a].invalid THEN detBoxes
                 ELSE [i \in DOMAIN detBoxes |->
                         [detBoxes[i] EXCEPT !.invalid = @ \/ i \in hit]]
  /\ detTurn' = detTurn + 1
  /\ UNCHANGED <<detNear, detFull, detSeen, detClass, detOrder>>

DetNext ==
  \/ DetNextClass \/ DetSuppress
  \/ \E class \in 1..DetClasses, score \in DetScores : DetAdd(class, score)

DetSpec == DetInit /\ [][DetNext]_detVars

-----------------------------------------------------------------------------
(* The reference for the suppression: of the collected candidates exactly    *)
(* those are reported that no reported one of their class with at least      *)
(* their score overlaps.  A box that was itself suppressed suppresses none.  *)
(* And a candidate that found no room is told of.                            *)
Reported == {i \in DOMAIN detBoxes : ~detBoxes[i].invalid}

Rivals(i) ==
  {k \in Reported \ {i} : /\ <<k, i>> \in detNear
                          /\ detBoxes[k].class = detBoxes[i].class
                          /\ detBoxes[k].score >= detBoxes[i].score}

DetReportsTheBest ==
  detClass > DetClasses =>
    /\ \A i \in DOMAIN detBoxes : i \in Reported <=> Rivals(i) = {}
    /\ Len(detBoxes) = detSeen \/ detFull

=============================================================================
