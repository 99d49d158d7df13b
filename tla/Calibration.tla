---------------------------- MODULE Calibration ----------------------------
(***************************************************************************)
(* The four commands of a calibration.  They are run one at a time and     *)
(* hand files to each other: corpus seals sessions, label emits units,     *)
(* annotate labels them and calibrate scores a build against labels.  A    *)
(* behaviour is of one command; calibrate's check of the seal is with the  *)
(* corpus, where the transcripts may change under it.                      *)
(***************************************************************************)
EXTENDS Corpus, Units, Labelling, Scoring

VARIABLE command

calibrationVars == <<command, corpusVars, unitVars, labellingVars, scoringVars>>

CalibrationInit ==
  /\ command \in {"corpus", "label", "annotate", "calibrate"}
  /\ CorpusInit /\ UnitsInit /\ LabellingInit /\ ScoringInit
  /\ command # "label" => family = CHOOSE f \in Families : TRUE
  /\ command # "annotate" => presented = Presented(FALSE)

CalibrationNext ==
  /\ UNCHANGED command
  /\ \/ /\ command = "corpus" /\ CorpusNext
        /\ UNCHANGED <<unitVars, labellingVars, scoringVars>>
     \/ /\ command = "label" /\ UnitsNext
        /\ UNCHANGED <<corpusVars, labellingVars, scoringVars>>
     \/ /\ command = "annotate" /\ LabellingNext
        /\ UNCHANGED <<corpusVars, unitVars, scoringVars>>
     \/ /\ command = "calibrate" /\ ScoringNext
        /\ UNCHANGED <<corpusVars, unitVars, labellingVars>>

CalibrationSpec == CalibrationInit /\ [][CalibrationNext]_calibrationVars
=============================================================================
