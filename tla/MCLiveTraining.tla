--------------------------- MODULE MCLiveTraining ---------------------------
(* Instances of LiveTraining for TLC: a wave plan of two waves over three  *)
(* tasks, and endings that exercise each branch of the retry policy.       *)
EXTENDS LiveTraining

CONSTANTS t1, t2, t3

TwoWaves == << <<t1, t2>>, <<t3>> >>
OneWave == << <<t1, t2, t3>> >>

Reversed == [t \in {t1, t2, t3} |-> CASE t = t1 -> 2 [] t = t2 -> 1 [] t = t3 -> 0]

RetryEndings == {"succeeded", "failed", "worker_unresponsive"}
PolicyEndings == {"succeeded", "model_timeout", "worker_unresponsive", "not_retryable"}
=============================================================================
