---------------------------- MODULE ToolDecision ----------------------------
(***************************************************************************)
(* How a call gets its arguments: decide_tool (app/agent/llm.py) and the   *)
(* guardrails (app/agent/guardrails.py) over everything a model may reply, *)
(* in the loop of the agent's graph (app/agent/graph.py), where what was   *)
(* called and what came back is shown to the model on the next step.       *)
(*                                                                         *)
(* Texts are reduced to what the code tells apart: an identifier (of the   *)
(* shape _ID_TOKEN finds), any other word, blank, zero, another number.    *)
(* Policy, approvals and failures are in AgentRun; here a call is carried  *)
(* out or the run ends.                                                    *)
(***************************************************************************)
EXTENDS Policy, Sequences

CONSTANTS
  Id,            \* texts of the shape of an identifier
  KindOf,        \* KindOf[i]: the argument that i's prefix says it is
  Task,          \* the tasks: the identifiers in order, and the first number
  Offers,        \* the sets of tools that may be offered on a step
  MAX_ASKS, MAX_STEPS

Identifiers == {"customer_id", "order_id", "ticket_id"}
ArgName == Identifiers \cup {"amount", "body"}
Blank == {"none", "empty"}                \* None or absent, ""
Plain == Blank \cup {"zero", "number", "word"}
Args == [ArgName -> Id \cup Plain]
NoArgs == [a \in ArgName |-> "none"]

ASSUME ToolDecisionAssumption ==
  /\ Id \cap Plain = {}
  /\ KindOf \in [Id -> Identifiers]
  /\ Task \subseteq [ids : Seq(Id), amount : {"none", "zero", "number"}]
  /\ Offers \subseteq SUBSET Catalogue
  /\ MAX_ASKS \in Nat /\ MAX_STEPS \in Nat

VARIABLES
  at,             \* the node to run next
  task,           \* state["task"]
  tool, args, missing, asks, more,
  observations,   \* the calls that were made: their arguments, and the
                  \* identifiers of the records they returned
  shown           \* history: what the task, records and people have named

vars == <<at, task, tool, args, missing, asks, more, observations, shown>>

Observation == [tool : Catalogue, args : Args, result : SUBSET Id]

TypeOK ==
  /\ at \in {"plan", "ask", "call", "end"}
  /\ task \in Task
  /\ tool \in IF at \in {"ask", "call"} THEN Catalogue ELSE Catalogue \cup {"none"}
  /\ args \in Args
  /\ missing \subseteq ArgName
  /\ asks \in Nat
  /\ more \in BOOLEAN
  /\ observations \in Seq(Observation)
  /\ shown \subseteq Id \cup Plain

Ids(t) == {t.ids[i] : i \in DOMAIN t.ids}

\* A task that check_task lets through.
Init ==
  /\ task \in Task
  /\ at = "plan" /\ tool = "none" /\ args = NoArgs /\ missing = {}
  /\ asks = 0 /\ more = FALSE
  /\ observations = <<>>
  /\ shown = Ids(task)

-----------------------------------------------------------------------------
(* The catalogue's schemas: every property is required.                    *)
Required(t) ==
  CASE t = "tickets.read"        -> {"ticket_id"}
    [] t = "tickets.reply.draft" -> {"ticket_id", "body"}
    [] t = "refunds.quote"       -> {"order_id"}
    [] t = RefundTool            -> {"order_id", "amount"}
    [] OTHER                     -> {"customer_id"}

\* _extract_args: the first identifier of the task, under the name of its
\* kind, and the first number.
extract_args(t) ==
  [a \in ArgName |->
     IF t.ids # <<>> /\ a = KindOf[Head(t.ids)] THEN Head(t.ids)
     ELSE IF a = "amount" THEN t.amount ELSE "none"]

\* coerce_args: undeclared arguments are dropped, a number must be one, and
\* the text of a number is a word.
coerce(t, a, v) ==
  IF a \notin Required(t) THEN "none"
  ELSE IF a = "amount" THEN IF v \in {"zero", "number"} THEN v ELSE "none"
  ELSE IF v \in {"zero", "number"} THEN "word" ELSE v

\* _fill_gaps.
fill_gaps(t, proposed) ==
  LET said == extract_args(task)
  IN  [a \in ArgName |->
         coerce(t, a, IF proposed[a] \in {"none", "empty", "zero"} /\ said[a] # "none"
                        THEN said[a] ELSE proposed[a])]

\* _seen_identifiers: in the task, or in an observation, which holds a call's
\* result and its arguments.
InResults == UNION {observations[i].result : i \in DOMAIN observations}
InCalls == {v \in Id : \E i \in DOMAIN observations :
                         \E a \in ArgName : observations[i].args[a] = v}
seen_identifiers == Ids(task) \cup InResults \cup InCalls

\* Slip: a guess the task has nothing to put in place of is kept.
resolve_identifiers_Slip(t, given) ==
  [a \in ArgName |->
     IF a \in Required(t) \cap Identifiers /\ given[a] \notin Blank \cup seen_identifiers
       THEN IF extract_args(task)[a] = "none" THEN given[a] ELSE extract_args(task)[a]
       ELSE given[a]]

\* An identifier nobody has shown the model gives way to the task's, or is
\* removed.
resolve_identifiers(t, given) ==
  [a \in ArgName |->
     IF a \in Required(t) \cap Identifiers /\ given[a] \notin Blank \cup seen_identifiers
       THEN extract_args(task)[a]
       ELSE given[a]]

check_decision(t, given) == {a \in Required(t) : given[a] \in Blank}

-----------------------------------------------------------------------------
\* The model chooses an offered tool, with whatever arguments.
Decide(offer, t, proposed, m) ==
  LET given == resolve_identifiers(t, fill_gaps(t, proposed))
      gaps == check_decision(t, given)
  IN  /\ at = "plan"
      /\ t \in offer
      /\ tool' = t
      /\ args' = given
      /\ IF gaps = {}
           THEN at' = "call" /\ more' = m /\ UNCHANGED missing
           ELSE at' = "ask" /\ missing' = gaps /\ UNCHANGED more
      /\ UNCHANGED <<task, asks, observations, shown>>

\* No usable reply: the model is unreachable, revoked, not understood, declines,
\* or names a tool that is not offered or does not exist.
DecideNothing ==
  /\ at = "plan"
  /\ at' = "end"
  /\ UNCHANGED <<task, tool, args, missing, asks, more, observations, shown>>

\* Slip: the answer is taken for complete without looking for what is blank.
AskClarification_Slip(values) ==
  LET given == [a \in ArgName |-> IF values[a] \in Blank THEN args[a] ELSE values[a]]
  IN  /\ at = "ask"
      /\ args' = given
      /\ missing' = {}
      /\ asks' = asks + 1
      /\ at' = "call"
      /\ shown' = shown \cup {values[a] : a \in ArgName}
      /\ UNCHANGED <<task, tool, more, observations>>

\* A person answers with some values; a blank one is no answer.
AskClarification(values) ==
  LET given == [a \in ArgName |-> IF values[a] \in Blank THEN args[a] ELSE values[a]]
      remaining == {a \in missing : given[a] \in Blank}
  IN  /\ at = "ask"
      /\ args' = given
      /\ missing' = remaining
      /\ asks' = asks + 1
      /\ at' = IF remaining = {} THEN "call"
               ELSE IF asks' < MAX_ASKS THEN "ask" ELSE "end"
      /\ shown' = shown \cup {values[a] : a \in ArgName}
      /\ UNCHANGED <<task, tool, more, observations>>

\* The last call again: stop rather than repeat it.
Repeats ==
  LET last == observations[Len(observations)]
  IN  observations # <<>> /\ last.tool = tool /\ last.args = args

\* The call is made and returns records with these identifiers (and may echo
\* its arguments, which are in the observation in any case).
CallTool(result) ==
  /\ at = "call"
  /\ ~Repeats
  /\ observations' = Append(observations, [tool |-> tool, args |-> args, result |-> result])
  /\ shown' = shown \cup result
  /\ at' = IF more /\ Len(observations') < MAX_STEPS THEN "plan" ELSE "end"
  /\ UNCHANGED <<task, tool, args, missing, asks, more>>

\* It is a repeat, it is refused, or it fails.
CallEnds ==
  /\ at = "call"
  /\ at' = "end"
  /\ UNCHANGED <<task, tool, args, missing, asks, more, observations, shown>>

\* What a model may put into a call of t, and a person into an answer.
Proposed(t) ==
  {[a \in ArgName |-> IF a \in Required(t) THEN p[a] ELSE "none"] :
     p \in [Required(t) -> Id \cup Plain]}

Answers(t) == {v \in Proposed(t) : \A a \in ArgName : v[a] \notin {"zero", "number"}}

Next ==
  \/ \E offer \in Offers, m \in BOOLEAN : \E t \in offer :
       \E proposed \in Proposed(t) : Decide(offer, t, proposed, m)
  \/ DecideNothing
  \/ \E values \in Answers(tool) : AskClarification(values)
  \/ \E result \in SUBSET Id : CallTool(result)
  \/ CallEnds

Spec == Init /\ [][Next]_vars

-----------------------------------------------------------------------------
\* What earlier calls sent as free text, which the model wrote.
Drafted == {observations[i].args["body"] : i \in DOMAIN observations}

(* An identifier in a call was in the task, in a record an earlier call    *)
(* returned or in a person's answer, or it was first sent as the free text *)
(* of a draft: whatever the model replied on this step and on the ones     *)
(* before, whose arguments are themselves among what counts as seen, it    *)
(* invents none in any other way.                                          *)
GuessesComeAsDrafts ==
  at = "call" => \A a \in Required(tool) \cap Identifiers : args[a] \in shown \cup Drafted

(* "never let it invent one": no identifier in a call is the model's own.  *)
NoGuessReachesACall ==
  at = "call" => \A a \in Required(tool) \cap Identifiers : args[a] \in shown

(* A call has all its required arguments: none is blank, after as many     *)
(* partial and blank answers as a person may give.                         *)
CallIsComplete ==
  at = "call" => \A a \in Required(tool) : args[a] \notin Blank
=============================================================================
