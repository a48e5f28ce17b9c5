-------------------------- MODULE CreativeEvaluation --------------------------
(***************************************************************************)
(* A creative task from its recording to its score: the live command       *)
(* leaves a report and a video, the recording is validated, the evaluator  *)
(* cuts it into windows that MineCLIP scores one after another, and the    *)
(* mean is compared with a calibrated threshold. The workflow script may   *)
(* start the local scorer for that and stops it again.                     *)
(*                                                                         *)
(* A frame is its index. Probabilities are parts of Whole. What can be     *)
(* wrong with a recording is a set of names, each for a check of the code. *)
(***************************************************************************)
EXTENDS Integers, SequencesExt, FiniteSetsExt

CONSTANTS
  ClipLength,   \* MINECLIP_CLIP_LENGTH
  Policies,     \* frame sampling: [clip, stride, windows, keys]
  Frames,       \* how many frames ffmpeg extracts
  Thresholds,   \* calibrated thresholds
  Whole,        \* probability one
  Responses,    \* answers of the scorer: [target, logits, probabilities]
  Prompts,      \* the prompt and its contrasts
  MaxWrong      \* bound: things wrong with one recording

VARIABLES
  setup,    \* the arguments and the recording
  phase,    \* where the workflow is
  scorer,   \* "down", "own" (started by the project) or "external"
  started,  \* scorer_started
  windows, trend, result,
  events    \* recorded for the run

vars == <<setup, phase, scorer, started, windows, trend, result, events>>

None == -1
Absent == -2
VideoFaults == {"metadata", "bytes", "duration", "dimensions", "codec"}
SessionFaults == {"started", "returncode", "error"}
Faults == {"file", "probe", "titled", "trusted", "postflight", "identity", "bounds"}
          \cup VideoFaults \cup SessionFaults
NoResult == [success |-> FALSE, inconclusive |-> TRUE, total |-> None, keys |-> <<>>]

Init ==
  /\ setup \in [managed : BOOLEAN, keep : BOOLEAN, skip : BOOLEAN, policy : Policies,
                overlay : {Absent, None} \cup Thresholds, manifest : {None} \cup Thresholds,
                wrong : UNION {kSubset(n, Faults) : n \in 0 .. MaxWrong}, frames : Frames]
  /\ phase = "begin" /\ scorer \in {"down", "own", "external"} /\ started = FALSE
  /\ windows = <<>> /\ trend = <<>> /\ result = NoResult /\ events = <<>>

(* ------------------------------------------------------------------------*)
(* The recording is validated.                                             *)
(* ------------------------------------------------------------------------*)
VideoReasons(wrong) ==
  IF wrong \cap {"file", "probe"} # {} THEN wrong \cap {"file", "probe"}
  ELSE IF "metadata" \in wrong THEN VideoFaults \ ({"bytes"} \ wrong)
  ELSE wrong \cap VideoFaults

Trusted(wrong) == wrong \cap {"titled", "trusted"} = {}
WindowMoved(wrong) == IF "identity" \in wrong THEN {"identity"} ELSE wrong \cap {"bounds"}
WindowReasons(wrong) ==
  IF "titled" \in wrong THEN {}
  ELSE (wrong \cap {"trusted"})
       \cup (IF Trusted(wrong) THEN wrong \cap {"postflight"} ELSE {})
       \cup (IF "postflight" \in wrong THEN {} ELSE WindowMoved(wrong))

Reasons(wrong) == VideoReasons(wrong) \cup (wrong \cap SessionFaults) \cup WindowReasons(wrong)
Acceptable(wrong) == Reasons(wrong) = {} /\ Trusted(wrong)

(* ------------------------------------------------------------------------*)
(* Windows, calibration, scores.                                           *)
(* ------------------------------------------------------------------------*)
(* round(a / b) of Python: a half goes to the even neighbour.              *)
Round(a, b) ==
  LET q == a \div b
      r == 2 * (a % b)
  IN IF r < b \/ (r = b /\ q % 2 = 0) THEN q ELSE q + 1

UniformSelect(values, count) ==
  IF count >= Len(values) THEN values
  ELSE IF count = 1 THEN <<Last(values)>>
  ELSE [i \in 1 .. count |-> values[1 + Round((i - 1) * (Len(values) - 1), count - 1)]]

Strided(n, policy) ==
  [i \in 1 .. ((n - policy.clip) \div policy.stride) + 1 |-> (i - 1) * policy.stride]
Starts(n, policy) ==
  IF n < policy.clip THEN <<>>
  ELSE LET starts == Strided(n, policy)
           final == n - policy.clip
       IN UniformSelect(IF Last(starts) = final THEN starts ELSE Append(starts, final),
                        policy.windows)

(* The overlay's threshold, also when it is null, hides the verifier's;    *)
(* null falls back to calibration data, which the overlay has replaced.    *)
Threshold == IF setup.overlay = Absent THEN setup.manifest ELSE setup.overlay

Total(values) == FoldLeft(LAMBDA a, b : a + b, 0, values)

(* The scorer's answer is checked before it counts.                        *)
IsScore(response) ==
  LET p == response.probabilities
  IN /\ response.target \in 0 .. Whole /\ Len(p) = Prompts /\ response.logits = Prompts
     /\ \A i \in DOMAIN p : p[i] \in 0 .. Whole
     /\ Total(p) = Whole /\ p[1] = response.target

(* Centres of the best windows, best first, the earlier of two equals.     *)
Better(i, j) == trend[i] > trend[j] \/ (trend[i] = trend[j] /\ i < j)
Place(i) == Cardinality({j \in DOMAIN trend : Better(j, i)}) + 1
KeyFrames(count) ==
  LET ranked == [k \in DOMAIN trend |-> CHOOSE i \in DOMAIN trend : Place(i) = k]
  IN SubSeq([k \in DOMAIN ranked |-> windows[ranked[k]] + setup.policy.clip \div 2],
            1, IF Len(ranked) < count THEN Len(ranked) ELSE count)

(* ------------------------------------------------------------------------*)
(* The workflow script.                                                    *)
(* ------------------------------------------------------------------------*)
Fail(next) == phase' = next /\ UNCHANGED <<setup, started, windows, trend, result, events>>
Begin ==
  /\ phase = "begin"
  /\ scorer' = (IF setup.managed /\ scorer = "own" THEN "down" ELSE scorer)
  /\ phase' = (IF setup.managed THEN (IF scorer' = "down" THEN "live" ELSE "failed")
               ELSE IF scorer # "down" \/ setup.skip THEN "live" ELSE "failed")
  /\ UNCHANGED <<setup, started, windows, trend, result, events>>

(* The live command ends; its report may be missing, or its video.         *)
Live ==
  /\ phase = "live"
  /\ \/ Fail("failed")
     \/ /\ setup.wrong \cap {"file", "bytes"} = {}
        /\ Fail(IF setup.managed /\ Acceptable(setup.wrong) THEN "start" ELSE "evaluate")
  /\ UNCHANGED scorer

(* The control script waits until the scorer is ready, or stops it.        *)
StartScorer ==
  /\ phase = "start"
  /\ \/ scorer' = "own" /\ started' = TRUE /\ phase' = "evaluate"
     \/ scorer' = "own" /\ started' = TRUE /\ phase' = "broken"  \* it is not ready after all
     \/ phase' = "broken" /\ UNCHANGED <<scorer, started>>
  /\ UNCHANGED <<setup, windows, trend, result, events>>

(* Mutant: the scorer is stopped only after an evaluation that worked.     *)
LeaveIfDone == IF phase = "judged" /\ started /\ ~setup.keep THEN "down" ELSE scorer

Leave == IF started /\ ~setup.keep THEN "down" ELSE scorer
Finally ==
  /\ phase \in {"judged", "broken"} /\ scorer' = Leave
  /\ phase' = (IF phase = "judged" THEN "done" ELSE "failed")
  /\ UNCHANGED <<setup, started, windows, trend, result, events>>

(* ------------------------------------------------------------------------*)
(* The evaluation script.                                                  *)
(* ------------------------------------------------------------------------*)
Inconclusive == result' = [NoResult EXCEPT !.keys = KeyFrames(3)] /\ phase' = "record"
                /\ events' = Append(events, "creative_evaluation_inconclusive")

(* A recording that is not acceptable is not shown to MineCLIP; one that   *)
(* ffmpeg cannot read ends the script.                                     *)
Evaluate ==
  /\ phase = "evaluate"
  /\ \/ ~Acceptable(setup.wrong) /\ Inconclusive /\ UNCHANGED windows
     \/ Acceptable(setup.wrong) /\ phase' = "broken" /\ UNCHANGED <<windows, result, events>>
     \/ /\ Acceptable(setup.wrong)
        /\ windows' = (IF setup.policy.clip = ClipLength THEN Starts(setup.frames, setup.policy)
                       ELSE <<>>)
        /\ IF windows' = <<>>
           THEN /\ result' = NoResult /\ phase' = "record"
                /\ events' = events \o <<"creative_evaluation_started",
                                         "creative_evaluation_inconclusive">>
           ELSE /\ phase' = "score" /\ UNCHANGED result
                /\ events' = Append(events, "creative_evaluation_started")
  /\ UNCHANGED <<setup, scorer, started, trend>>

Score ==
  /\ phase = "score" /\ Len(trend) < Len(windows)
  /\ \/ \E r \in Responses :
          /\ scorer # "down" /\ IsScore(r) /\ trend' = Append(trend, r.target)
          /\ events' = Append(events, "creative_frame_window_scored") /\ UNCHANGED <<phase, result>>
     \/ Inconclusive /\ UNCHANGED trend
  /\ UNCHANGED <<setup, scorer, started, windows>>

Exceeds == Total(trend) > Threshold * Len(trend)
Judge ==
  /\ phase = "score" /\ Len(trend) = Len(windows) /\ phase' = "record"
  /\ result' = [success |-> Threshold # None /\ Exceeds, inconclusive |-> Threshold = None,
                total |-> Total(trend), keys |-> KeyFrames(setup.policy.keys)]
  /\ events' = Append(events, "creative_evaluation_completed")
  /\ UNCHANGED <<setup, scorer, started, windows, trend>>

(* The verdict, not authoritative, and the report.                         *)
Record ==
  /\ phase = "record" /\ phase' = "judged" /\ events' = Append(events, "verifier_result")
  /\ UNCHANGED <<setup, scorer, started, windows, trend, result>>

Next ==
  Begin \/ Live \/ StartScorer \/ Finally \/ Evaluate \/ Score \/ Judge \/ Record

Spec == Init /\ [][Next]_vars

(* ------------------------------------------------------------------------*)
(* Properties.                                                             *)
(* ------------------------------------------------------------------------*)
TypeOK ==
  /\ scorer \in {"down", "own", "external"} /\ started \in BOOLEAN
  /\ Len(trend) <= Len(windows) /\ result.success \in BOOLEAN /\ result.inconclusive \in BOOLEAN
  /\ \A i \in DOMAIN trend : trend[i] \in 0 .. Whole

(* MineCLIP sees a recording only if nothing was wrong with it.            *)
OnlySoundVideoIsScored == trend # <<>> => setup.wrong = {}

(* The windows go through the recording in order, no more than allowed,    *)
(* up to its last frame; none of its frames is left out when the stride    *)
(* leaves no gaps and no window had to be dropped.                         *)
WindowsCoverTheRecording ==
  windows # <<>> =>
    LET p == setup.policy
        n == setup.frames
    IN /\ \A i \in 1 .. Len(windows) - 1 : windows[i] < windows[i + 1]
       /\ Last(windows) + p.clip = n /\ Len(windows) <= p.windows
       /\ p.windows > 1 => windows[1] = 0
       /\ p.stride <= p.clip /\ p.windows >= n =>
            \A f \in 0 .. n - 1 : \E i \in DOMAIN windows : f - windows[i] \in 0 .. p.clip - 1

(* A success has a threshold and a score for every window, whose sum lies  *)
(* above it; a failure that is conclusive has a threshold too; and the     *)
(* frames shown to the reviewer are from the best windows.                 *)
SuccessIsEarned ==
  /\ result.success \/ ~result.inconclusive =>
       Threshold # None /\ Len(trend) = Len(windows) /\ trend # <<>>
  /\ result.success =>
       Total(trend) > Threshold * Len(trend) /\ ~result.inconclusive
  /\ phase \in {"judged", "done"} /\ trend # <<>> =>
       \E i \in DOMAIN trend :
         /\ windows[i] + setup.policy.clip \div 2 = result.keys[1]
         /\ \A j \in DOMAIN trend : trend[j] <= trend[i]

(* A scorer that the script started is stopped when the script ends,       *)
(* unless it is to be kept.                                                *)
ScorerIsStopped ==
  phase \in {"done", "failed"} /\ setup.managed /\ ~setup.keep => scorer # "own"

(* All of the above: what week 11 records as the MineCLIP result of a      *)
(* creative run (CreativeTaskEvaluator.evaluate and its scorer).           *)
EvaluationIsSound ==
  /\ OnlySoundVideoIsScored /\ WindowsCoverTheRecording
  /\ SuccessIsEarned /\ ScorerIsStopped
=============================================================================
