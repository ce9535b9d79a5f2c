--------------------------- MODULE ScenarioChain ---------------------------
(***************************************************************************)
(* A Morse scenario as a chain of requests: what a check says of it before *)
(* it runs (dit-model/src/morse.rs, dit-core/src/morse.rs) and what the    *)
(* run does (dit-morse/src/run.rs).                                        *)
(*                                                                         *)
(* A step is a record:                                                     *)
(*   slot      whether the path has a `{name}' segment, and if so whether  *)
(*             `params:' fills it                                          *)
(*   path      the `{{name}}' references in the path itself                *)
(*   target    the references in params and query                          *)
(*   content   the references in headers and body                          *)
(*   expects   the references in `expect:'                                 *)
(*   captures  the names the step binds for the steps after it             *)
(* The server and the machine answer a step with a record:                 *)
(*   gate      "blocked" when this machine does not allow the host         *)
(*   reply     "lost", "refuted" (a status or a value is not the expected) *)
(*             or "held"                                                   *)
(*   blank     the value of the `{name}' segment renders empty             *)
(*   missing   the captures that reach nothing in the response             *)
(***************************************************************************)
EXTENDS Naturals, Sequences, FiniteSets, SequencesExt, Functions

CONSTANT Variables      \* the names a chain may read

Slots == {"none", "filled", "bare"}
Gates == {"open", "blocked"}
Replies == {"lost", "refuted", "held"}

Steps == [slot : Slots, path : SUBSET Variables, target : SUBSET Variables,
          content : SUBSET Variables, expects : SUBSET Variables,
          captures : SUBSET Variables]
Answers == [gate : Gates, reply : Replies, blank : BOOLEAN,
            missing : SUBSET Variables]

-----------------------------------------------------------------------------
(* The check.                                                              *)

(* What a step is said to read: all but the references in its path.        *)
VariablesUsed_NotExpect(step) == step.target \union step.content
VariablesUsed(step) == step.target \union step.content \union step.expects

CapturedIn(chain, I) == UNION {chain[i].captures : i \in I}

(* What is bound when step i runs: `requires:' and the captures of the     *)
(* steps before it, never its own.                                         *)
BoundAt(requires, chain, i) == requires \union CapturedIn(chain, 1..(i - 1))

UnboundVariables(requires, chain) ==
    {[step |-> i, name |-> n, capturedLater |-> n \in CapturedIn(chain, DOMAIN chain)] :
        <<i, n>> \in {<<i, n>> \in (DOMAIN chain) \X Variables :
                         /\ n \in VariablesUsed(chain[i])
                         /\ n \notin BoundAt(requires, chain, i)}}

UnfilledParams(chain) == {i \in DOMAIN chain : chain[i].slot = "bare"}

(* The form's save adds what is missing to `requires:', but not a name     *)
(* that a later step captures.                                             *)
RequireUnbound(requires, chain) ==
    requires \union {u.name : u \in {u \in UnboundVariables(requires, chain) :
                                         ~u.capturedLater}}

-----------------------------------------------------------------------------
(* The run.                                                                *)

(* The URL is built first: a `{name}' segment without a value, or with a   *)
(* blank one, is refused.  The gate comes next, then headers and body.     *)
Sent(step, answer, vars) ==
    CASE step.slot = "bare" -> "unfilled"
      [] step.slot # "bare" /\ ~ (step.path \union step.target \subseteq vars) -> "unbound"
      [] step.slot = "filled" /\ answer.blank -> "unfilled"
      [] OTHER ->
            IF answer.gate = "blocked" THEN "blocked"
            ELSE IF ~ (step.content \subseteq vars) THEN "unbound"
            ELSE IF answer.reply = "lost" THEN "lost" ELSE "answered"

(* check and capture add to one list of failures; both always run.         *)
Failures(step, answer, vars) ==
    (IF answer.reply = "refuted" THEN {"expect"} ELSE {})
      \union (IF step.expects \subseteq vars THEN {} ELSE {"unbound"})
      \union (IF answer.missing \intersect step.captures = {} THEN {} ELSE {"capture"})

StepOutcome(step, answer, vars) ==
    LET sent == Sent(step, answer, vars)
    IN  IF sent # "answered"
        THEN [error |-> sent, failures |-> {}, captured |-> {}]
        ELSE [error |-> "none",
              failures |-> Failures(step, answer, vars),
              captured |-> step.captures \ answer.missing]

Passed(outcome) == outcome.error = "none" /\ outcome.failures = {}

(* One turn of the loop: a refused host ends the run and leaves no         *)
(* outcome of its step, a failed step ends it with one.                    *)
Turn(run, step, answer) ==
    LET outcome == StepOutcome(step, answer, run.vars)
    IN  IF run.stop THEN run
        ELSE IF outcome.error = "blocked" THEN [run EXCEPT !.stop = TRUE, !.refused = TRUE]
        ELSE [run EXCEPT !.steps = Append(@, outcome),
                         !.stop = ~Passed(outcome),
                         !.vars = IF Passed(outcome) THEN @ \union outcome.captured ELSE @]

Run(chain, env, answers) ==
    FoldLeft(LAMBDA run, i : Turn(run, chain[i], answers[i]),
             [vars |-> env, steps |-> <<>>, refused |-> FALSE, stop |-> FALSE],
             [i \in 1..Len(chain) |-> i])

RunPassed(run) ==
    /\ ~run.refused
    /\ run.steps # <<>>
    /\ \A i \in DOMAIN run.steps : Passed(run.steps[i])

-----------------------------------------------------------------------------
(* Properties of one chain, for every environment and every answer.        *)

(* Once the form has saved a chain, whatever it still reads without a      *)
(* binding is captured by a later step, so the message names the order;    *)
(* nothing a step captures has become a name the environment must supply.  *)
SavedChain(requires, chain) ==
    LET saved == RequireUnbound(requires, chain)
    IN  /\ \A u \in UnboundVariables(saved, chain) : u.capturedLater
        /\ (saved \ requires) \intersect CapturedIn(chain, DOMAIN chain) = {}

(* A chain the check finds nothing wrong with never stops on a name that   *)
(* is not bound, in an environment that supplies what it requires,         *)
(* provided that no path holds a reference.                                *)
CheckedChain(requires, chain, env, answers) ==
    (/\ UnboundVariables(requires, chain) = {}
     /\ requires \subseteq env
     /\ \A i \in DOMAIN chain : chain[i].path = {})
    => \A i \in DOMAIN Run(chain, env, answers).steps :
          LET o == Run(chain, env, answers).steps[i]
          IN  o.error # "unbound" /\ "unbound" \notin o.failures

(* A green run is one in which every step of the chain ran and held, so a  *)
(* proof is never recorded for a chain that stopped half-way.              *)
GreenChain(chain, env, answers) ==
    RunPassed(Run(chain, env, answers)) =>
        /\ Len(Run(chain, env, answers).steps) = Len(chain)
        /\ \A i \in DOMAIN chain :
              /\ answers[i].gate = "open" /\ answers[i].reply = "held"
              /\ chain[i].path \union chain[i].target \union chain[i].content
                    \union chain[i].expects
                    \subseteq env \union CapturedIn(chain, 1..(i - 1))
=============================================================================
