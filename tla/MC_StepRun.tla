------------------------------ MODULE MC_StepRun ------------------------------
(***************************************************************************)
(* Instances of StepRun for TLC: three steps, one secret name, and step   *)
(* configurations that take every branch of preparation, capture, mask   *)
(* and retry: commands with and without `retries`, providers with the     *)
(* run's --max-retries or `retries: 0`, json with and without              *)
(* allow_parse_error, a step env that overrides a declared secret, a      *)
(* timeout, template errors, and a command that declares a secret.      *)
(***************************************************************************)
EXTENDS StepRun

MCNSteps == 3

Step(k, m, ap, d, ov, r, t, ok) ==
    [kind |-> k, mode |-> m, allowParse |-> ap, declared |-> d,
     override |-> ov, retries |-> r, timeout |-> t, templateOk |-> ok]

MCConfigs ==
    { Step("command",  "text",  FALSE, {},     {},     1,         TRUE,  TRUE),
      Step("command",  "json",  FALSE, {},     {},     NoRetries, FALSE, TRUE),
      Step("command",  "lines", FALSE, {"s1"}, {},     NoRetries, FALSE, TRUE),
      Step("command",  "lines", FALSE, {},     {},     NoRetries, FALSE, FALSE),
      Step("provider", "json",  TRUE,  {"s1"}, {},     NoRetries, FALSE, TRUE),
      Step("provider", "lines", FALSE, {"s1"}, {"s1"}, 0,         TRUE,  TRUE),
      Step("provider", "text",  FALSE, {},     {},     NoRetries, FALSE, FALSE) }

MCWorkflows == [1..MCNSteps -> MCConfigs]

=============================================================================
