------------------------- MODULE ToolDecisionProofs -------------------------
(* That a call is complete, and that an identifier in it is a guess only   *)
(* if an earlier draft sent it, for any identifiers, tasks, offers and     *)
(* bounds; and, at the end, the three properties of the policy that such a *)
(* call meets next, for any caller and any arguments (PolicyQuery).        *)
EXTENDS ToolDecision, PolicyQuery, SequenceTheorems, TLAPS

USE DEF Catalogue, RefundTool

LEMMA RequiredType ==
  \A t : Required(t) \subseteq ArgName
BY DEF Required, ArgName, Identifiers

LEMMA ProposedType ==
  ASSUME NEW t, NEW p \in Proposed(t)
  PROVE  /\ p \in Args
         /\ \A a \in ArgName \ Required(t) : p[a] = "none"
<1>1. PICK q \in [Required(t) -> Id \cup Plain] :
        p = [a \in ArgName |-> IF a \in Required(t) THEN q[a] ELSE "none"]
  BY DEF Proposed
<1>2. "none" \in Plain
  BY DEF Plain, Blank
<1> QED BY <1>1, <1>2 DEF Args

LEMMA ExtractType ==
  ASSUME NEW t \in Task
  PROVE  /\ extract_args(t) \in Args
         /\ \A a \in Identifiers : extract_args(t)[a] \in Ids(t) \cup {"none"}
<1>1. t.ids \in Seq(Id) /\ t.amount \in {"none", "zero", "number"}
  BY ToolDecisionAssumption
<1>2. t.ids # <<>> => Head(t.ids) \in Id /\ Head(t.ids) \in Ids(t)
  BY <1>1 DEF Ids
<1>3. {"none", "zero", "number"} \subseteq Plain
  BY DEF Plain, Blank
<1>4. ASSUME NEW a \in ArgName
      PROVE  extract_args(t)[a] \in Id \cup Plain
  BY <1>1, <1>2, <1>3 DEF extract_args
<1>5. extract_args(t) \in Args
  BY <1>4 DEF extract_args, Args
<1>6. ASSUME NEW a \in Identifiers
      PROVE  extract_args(t)[a] \in Ids(t) \cup {"none"}
  BY <1>2 DEF extract_args, ArgName, Identifiers
<1> QED BY <1>5, <1>6

(* What decide_tool makes of a proposal: a value of its argument's kind,   *)
(* none where the schema has no such argument, and only seen identifiers.  *)
LEMMA GivenType ==
  ASSUME task \in Task, NEW t, NEW p \in Args
  PROVE  /\ fill_gaps(t, p) \in Args
         /\ fill_gaps(t, p)["amount"] \notin Id
         /\ \A a \in ArgName \ Required(t) : fill_gaps(t, p)[a] = "none"
<1> DEFINE said == extract_args(task)
           v(a) == IF p[a] \in {"none", "empty", "zero"} /\ said[a] # "none"
                     THEN said[a] ELSE p[a]
<1>1. said \in Args
  BY ExtractType
<1>2. ASSUME NEW a \in ArgName
      PROVE  v(a) \in Id \cup Plain
  BY <1>1 DEF Args
<1>3. fill_gaps(t, p) = [a \in ArgName |-> coerce(t, a, v(a))]
  BY DEF fill_gaps
<1> HIDE DEF v
<1>4. {"none", "zero", "number", "word"} \subseteq Plain /\ Id \cap Plain = {}
  BY ToolDecisionAssumption DEF Plain, Blank
<1>5. ASSUME NEW a \in ArgName
      PROVE  coerce(t, a, v(a)) \in Id \cup Plain
  BY <1>2, <1>4 DEF coerce
<1>6. coerce(t, "amount", v("amount")) \notin Id
  BY <1>4 DEF coerce, Plain
<1>7. ASSUME NEW a \in ArgName \ Required(t)
      PROVE  coerce(t, a, v(a)) = "none"
  BY DEF coerce
<1> QED BY <1>3, <1>5, <1>6, <1>7 DEF Args, ArgName

LEMMA ObservationType ==
  ASSUME TypeOK, NEW i \in DOMAIN observations
  PROVE  observations[i] \in Observation
<1>1. observations \in Seq(Observation)
  BY DEF TypeOK
<1> QED BY <1>1, LenProperties, ElementOfSeq

(* What decide_tool returns: arguments of the schema, and identifiers that *)
(* are blank, seen, or the task's.                                         *)
LEMMA DecisionType ==
  ASSUME TypeOK, NEW t, NEW p \in Args
  PROVE  LET given == resolve_identifiers(t, fill_gaps(t, p))
         IN  /\ given \in Args
             /\ given["amount"] \notin Id
             /\ \A a \in ArgName \ Required(t) : given[a] = "none"
             /\ \A a \in Required(t) \cap Identifiers :
                  given[a] \in Blank \cup seen_identifiers
<1> DEFINE filled == fill_gaps(t, p)
           given == resolve_identifiers(t, filled)
           said == extract_args(task)
<1>1. task \in Task
  BY DEF TypeOK
<1>2. /\ filled \in Args
      /\ filled["amount"] \notin Id
      /\ \A a \in ArgName \ Required(t) : filled[a] = "none"
  BY <1>1, GivenType
<1>3. said \in Args /\ \A a \in Identifiers : said[a] \in Ids(task) \cup {"none"}
  BY <1>1, ExtractType
<1>4. Ids(task) \subseteq seen_identifiers /\ "none" \in Blank
  BY DEF seen_identifiers, Blank
<1> HIDE DEF filled, said
<1>5. given = [a \in ArgName |->
                 IF a \in Required(t) \cap Identifiers
                      /\ filled[a] \notin Blank \cup seen_identifiers
                   THEN said[a] ELSE filled[a]]
  BY DEF resolve_identifiers, said
<1> HIDE DEF given
<1>6. given \in Args
  BY <1>2, <1>3, <1>5 DEF Args
<1>7. "amount" \in ArgName /\ "amount" \notin Identifiers
  BY DEF ArgName, Identifiers
<1>8. given["amount"] \notin Id
  BY <1>2, <1>5, <1>7
<1>9. ASSUME NEW a \in ArgName \ Required(t)
      PROVE  given[a] = "none"
  BY <1>2, <1>5
<1>10. ASSUME NEW a \in Required(t) \cap Identifiers
       PROVE  given[a] \in Blank \cup seen_identifiers
  <2>1. a \in ArgName
    BY DEF ArgName
  <2> QED BY <2>1, <1>3, <1>4, <1>5
<1> QED BY <1>6, <1>8, <1>9, <1>10 DEF given, filled

LEMMA AnswersType ==
  ASSUME NEW t, NEW v \in Answers(t)
  PROVE  v \in Args /\ \A a \in ArgName \ Required(t) : v[a] = "none"
BY ProposedType DEF Answers

-----------------------------------------------------------------------------
(* Type correctness of the decision loop, for any constants.               *)
THEOREM DecisionTypeOK == Spec => []TypeOK
<1>1. Init => TypeOK
  <2> SUFFICES ASSUME Init PROVE TypeOK
    OBVIOUS
  <2>1. NoArgs \in Args
    BY DEF NoArgs, Args, Plain, Blank
  <2>2. task \in Task /\ Ids(task) \subseteq Id
    BY ToolDecisionAssumption DEF Init, Ids
  <2>3. observations \in Seq(Observation)
    BY DEF Init
  <2> QED BY <2>1, <2>2, <2>3 DEF Init, TypeOK
<1>2. TypeOK /\ [Next]_vars => TypeOK'
  <2> SUFFICES ASSUME TypeOK, [Next]_vars PROVE TypeOK'
    OBVIOUS
  <2>1. ASSUME NEW offer \in Offers, NEW m \in BOOLEAN, NEW t \in offer,
               NEW p \in Proposed(t), Decide(offer, t, p, m)
        PROVE  TypeOK'
    <3>1. p \in Args
      BY ProposedType
    <3>2. args' \in Args
      BY <2>1, <3>1, DecisionType DEF Decide
    <3>3. t \in Catalogue
      BY ToolDecisionAssumption
    <3>4. missing' \subseteq ArgName
      BY <2>1, RequiredType DEF Decide, check_decision, TypeOK
    <3> QED BY <2>1, <3>2, <3>3, <3>4 DEF Decide, TypeOK
  <2>2. CASE DecideNothing
    BY <2>2 DEF DecideNothing, TypeOK
  <2>3. ASSUME NEW v \in Answers(tool), AskClarification(v)
        PROVE  TypeOK'
    <3>1. v \in Args
      BY AnswersType
    <3>2. args' \in Args
      BY <2>3, <3>1 DEF AskClarification, TypeOK, Args
    <3>3. shown' \subseteq Id \cup Plain
      BY <2>3, <3>1 DEF AskClarification, TypeOK, Args
    <3>4. missing' \subseteq ArgName /\ asks' \in Nat
      BY <2>3 DEF AskClarification, TypeOK
    <3> QED BY <2>3, <3>2, <3>3, <3>4 DEF AskClarification, TypeOK
  <2>4. ASSUME NEW result \in SUBSET Id, CallTool(result)
        PROVE  TypeOK'
    <3>1. [tool |-> tool, args |-> args, result |-> result] \in Observation
      BY <2>4 DEF CallTool, Observation, TypeOK
    <3>2. observations' \in Seq(Observation)
      BY <2>4, <3>1, AppendProperties DEF CallTool, TypeOK
    <3> QED BY <2>4, <3>2 DEF CallTool, TypeOK
  <2>5. CASE CallEnds
    BY <2>5 DEF CallEnds, TypeOK
  <2>6. CASE UNCHANGED vars
    BY <2>6 DEF vars, TypeOK
  <2> QED BY <2>1, <2>2, <2>3, <2>4, <2>5, <2>6 DEF Next
<1> QED BY <1>1, <1>2, PTL DEF Spec

-----------------------------------------------------------------------------
(* What the question node still has to ask for is in `missing`, so that it *)
(* goes on to the call only when nothing is blank.                         *)
GapsAreAsked ==
  /\ at = "ask" => \A a \in Required(tool) : args[a] \in Blank => a \in missing
  /\ CallIsComplete

(* A call of decide_tool or of a person's answers is complete, for any     *)
(* constants.                                                              *)
THEOREM CallsAreComplete == Spec => []CallIsComplete
<1>1. Init => GapsAreAsked
  BY DEF Init, GapsAreAsked, CallIsComplete
<1>2. TypeOK /\ GapsAreAsked /\ [Next]_vars => GapsAreAsked'
  <2> SUFFICES ASSUME TypeOK, GapsAreAsked, [Next]_vars PROVE GapsAreAsked'
    OBVIOUS
  <2>1. ASSUME NEW offer \in Offers, NEW m \in BOOLEAN, NEW t \in offer,
               NEW p \in Proposed(t), Decide(offer, t, p, m)
        PROVE  GapsAreAsked'
    <3>1. \/ at' = "call" /\ check_decision(t, args') = {}
          \/ at' = "ask" /\ missing' = check_decision(t, args')
      BY <2>1 DEF Decide
    <3>2. tool' = t
      BY <2>1 DEF Decide
    <3> QED BY <3>1, <3>2 DEF check_decision, GapsAreAsked, CallIsComplete
  <2>2. CASE DecideNothing
    BY <2>2 DEF DecideNothing, GapsAreAsked, CallIsComplete
  <2>3. ASSUME NEW v \in Answers(tool), AskClarification(v)
        PROVE  GapsAreAsked'
    <3>1. ASSUME NEW a \in Required(tool), args'[a] \in Blank
          PROVE  a \in missing'
      <4>1. a \in ArgName
        BY RequiredType
      <4>2. args[a] \in Blank
        BY <2>3, <3>1, <4>1 DEF AskClarification
      <4>3. a \in missing
        BY <2>3, <4>2 DEF AskClarification, GapsAreAsked
      <4> QED BY <2>3, <3>1, <4>3 DEF AskClarification
    <3>2. at' = "call" => missing' = {}
      BY <2>3 DEF AskClarification
    <3>3. tool' = tool
      BY <2>3 DEF AskClarification
    <3> QED BY <3>1, <3>2, <3>3 DEF GapsAreAsked, CallIsComplete
  <2>4. ASSUME NEW result \in SUBSET Id, CallTool(result)
        PROVE  GapsAreAsked'
    BY <2>4 DEF CallTool, GapsAreAsked, CallIsComplete
  <2>5. CASE CallEnds
    BY <2>5 DEF CallEnds, GapsAreAsked, CallIsComplete
  <2>6. CASE UNCHANGED vars
    BY <2>6 DEF vars, GapsAreAsked, CallIsComplete
  <2> QED BY <2>1, <2>2, <2>3, <2>4, <2>5, <2>6 DEF Next
<1>3. GapsAreAsked => CallIsComplete
  BY DEF GapsAreAsked
<1> QED BY <1>1, <1>2, <1>3, DecisionTypeOK, PTL DEF Spec

-----------------------------------------------------------------------------
(* Everything the code counts as seen was shown or drafted: the task, the  *)
(* records and the arguments of earlier calls, and, but for the free text, *)
(* the arguments of the one in hand.                                       *)
SeenInCalls ==
  /\ Ids(task) \subseteq shown
  /\ \A i \in DOMAIN observations :
       /\ observations[i].result \subseteq shown
       /\ \A a \in ArgName : observations[i].args[a] \in Id =>
                               observations[i].args[a] \in shown \cup Drafted

SeenInHand ==
  at \in {"ask", "call"} =>
    /\ \A a \in ArgName \ {"body"} : args[a] \in Id => args[a] \in shown \cup Drafted
    /\ \A a \in Required(tool) \cap Identifiers : args[a] \in Blank \cup shown \cup Drafted

Provenance == SeenInCalls /\ SeenInHand

LEMMA SeenIsKnown ==
  ASSUME SeenInCalls
  PROVE  seen_identifiers \subseteq shown \cup Drafted
<1>1. Ids(task) \subseteq shown
  BY DEF SeenInCalls
<1>2. InResults \subseteq shown
  BY DEF SeenInCalls, InResults
<1>3. InCalls \subseteq shown \cup Drafted
  BY DEF SeenInCalls, InCalls
<1> QED BY <1>1, <1>2, <1>3 DEF seen_identifiers

(* For any identifiers, tasks, offers and bounds, an identifier in a call  *)
(* was in the task, in a record or in an answer, or an earlier draft had   *)
(* sent it as free text.                                                   *)
THEOREM OnlyDraftsLetGuessesIn == Spec => []GuessesComeAsDrafts
<1>1. Init => Provenance
  BY DEF Init, Provenance, SeenInCalls, SeenInHand
<1>2. TypeOK /\ Provenance /\ [Next]_vars => Provenance'
  <2> SUFFICES ASSUME TypeOK, Provenance, [Next]_vars PROVE Provenance'
    OBVIOUS
  <2>0. ASSUME observations' = observations PROVE Drafted' = Drafted
    BY <2>0 DEF Drafted
  <2>1. ASSUME NEW offer \in Offers, NEW m \in BOOLEAN, NEW t \in offer,
               NEW p \in Proposed(t), Decide(offer, t, p, m)
        PROVE  Provenance'
    <3>1. p \in Args
      BY ProposedType
    <3>2. /\ args'["amount"] \notin Id
          /\ \A a \in ArgName \ Required(t) : args'[a] = "none"
          /\ \A a \in Required(t) \cap Identifiers : args'[a] \in Blank \cup seen_identifiers
      BY <2>1, <3>1, DecisionType DEF Decide
    <3>3. seen_identifiers \subseteq shown \cup Drafted
      BY SeenIsKnown DEF Provenance
    <3>4. "none" \notin Id /\ Blank \cap Id = {}
      BY ToolDecisionAssumption DEF Plain, Blank
    <3>5. ASSUME NEW a \in ArgName \ {"body"}, args'[a] \in Id
          PROVE  args'[a] \in shown \cup Drafted
      BY <3>2, <3>3, <3>4, <3>5 DEF ArgName
    <3>6. UNCHANGED <<observations, shown, task>> /\ Drafted' = Drafted /\ tool' = t
      BY <2>0, <2>1 DEF Decide
    <3>7. SeenInHand'
      BY <3>2, <3>3, <3>5, <3>6 DEF SeenInHand
    <3>8. SeenInCalls'
      BY <3>6 DEF Provenance, SeenInCalls, Ids
    <3> QED BY <3>7, <3>8 DEF Provenance
  <2>2. CASE DecideNothing
    BY <2>0, <2>2 DEF DecideNothing, Provenance, SeenInCalls, SeenInHand, Ids
  <2>3. ASSUME NEW v \in Answers(tool), AskClarification(v)
        PROVE  Provenance'
    <3>1. \A a \in ArgName : args'[a] = args[a] \/ args'[a] \in shown'
      BY <2>3 DEF AskClarification
    <3>2. shown \subseteq shown' /\ tool' = tool /\ at = "ask" /\ Drafted' = Drafted
      BY <2>0, <2>3 DEF AskClarification
    <3>3. SeenInHand'
      BY <3>1, <3>2, RequiredType DEF Provenance, SeenInHand
    <3>4. SeenInCalls'
      BY <2>3, <3>2 DEF AskClarification, Provenance, SeenInCalls, Ids
    <3> QED BY <3>3, <3>4 DEF Provenance
  <2>4. ASSUME NEW result \in SUBSET Id, CallTool(result)
        PROVE  Provenance'
    <3> DEFINE o == [tool |-> tool, args |-> args, result |-> result]
    <3>1. o \in Observation /\ observations \in Seq(Observation)
      BY <2>4 DEF CallTool, Observation, TypeOK
    <3>2. shown \subseteq shown' /\ o.result \subseteq shown' /\ task' = task
      BY <2>4 DEF CallTool
    <3>3. \A a \in ArgName \ {"body"} : o.args[a] \in Id => o.args[a] \in shown \cup Drafted
      BY <2>4 DEF CallTool, Provenance, SeenInHand
    <3>4. observations' = Append(observations, o)
      BY <2>4 DEF CallTool
    <3> HIDE DEF o
    <3>5. ASSUME NEW i \in DOMAIN observations'
          PROVE  \/ i \in DOMAIN observations /\ observations'[i] = observations[i]
                 \/ observations'[i] = o
      BY <3>1, <3>4, AppendProperties
    <3>6. Drafted \subseteq Drafted' /\ o.args["body"] \in Drafted'
      BY <3>1, <3>4, AppendProperties DEF Drafted
    <3>7. \A a \in ArgName : o.args[a] \in Id => o.args[a] \in shown' \cup Drafted'
      BY <3>2, <3>3, <3>6
    <3>8. SeenInCalls'
      BY <3>2, <3>5, <3>6, <3>7 DEF Provenance, SeenInCalls, Ids
    <3>9. SeenInHand'
      BY <2>4 DEF CallTool, SeenInHand
    <3> QED BY <3>8, <3>9 DEF Provenance
  <2>5. CASE CallEnds
    BY <2>0, <2>5 DEF CallEnds, Provenance, SeenInCalls, SeenInHand, Ids
  <2>6. CASE UNCHANGED vars
    BY <2>0, <2>6 DEF vars, Provenance, SeenInCalls, SeenInHand, Ids
  <2> QED BY <2>1, <2>2, <2>3, <2>4, <2>5, <2>6 DEF Next
<1>3. Provenance /\ CallIsComplete => GuessesComeAsDrafts
  BY DEF Provenance, SeenInHand, CallIsComplete, GuessesComeAsDrafts
<1> QED BY <1>1, <1>2, <1>3, DecisionTypeOK, CallsAreComplete, PTL DEF Spec

-----------------------------------------------------------------------------
(* The policy that decides on such a call, asked by PolicyQuery for any    *)
(* tenants, roles, tools, amounts and workloads. What is enforced is the   *)
(* answer to the last question, or a refusal (EnforcesTheAnswer).          *)

EnforcesTheAnswer ==
  /\ query = NoQuery \/ query.amount \in Amounts
  /\ \/ verdict = "none" /\ query = NoQuery
     \/ verdict \in {"deny", decision(query)}

OffersTheMatrix ==
  offered \subseteq Catalogue \cap tools_for_roles(caller.tenant, caller.roles)

(* Personal data is in nobody's column of the matrix but privacy's.        *)
LEMMA PiiIsPrivacys ==
  ASSUME NEW tenant, NEW role, NEW called \in PiiTools,
         called \in role_tools_for(tenant, role)
  PROVE  role = "privacy"
<1>1. called = "privacy.pii.read"
  BY DEF PiiTools
<1>2. CASE Overridden(tenant, role)
  BY <1>1, <1>2 DEF role_tools_for, Overridden, tenant_role_tools
<1>3. CASE ~Overridden(tenant, role)
  <2>1. role \in DOMAIN default_role_tools /\ called \in default_role_tools[role]
    BY <1>3 DEF role_tools_for
  <2> QED BY <1>1, <2>1 DEF default_role_tools
<1> QED BY <1>2, <1>3

(* What the rules say of a risky call.                                     *)
LEMMA DecisionOnRisk ==
  ASSUME NEW in, in.amount \in Amount
  PROVE  /\ in.tool = RefundTool /\ decision(in) = "allow" =>
              in.amount.kind = "number" /\ in.amount.value \in 1..AutoRefundLimit
         /\ in.tool = RefundTool /\ decision(in) = "require_approval" =>
              /\ in.amount.kind = "number"
              /\ in.amount.value \in (AutoRefundLimit + 1)..ApprovalRefundLimit
         /\ in.tool \in PiiTools /\ decision(in) # "deny" =>
              decision(in) = "require_approval" /\ "privacy" \in in.roles
<1>1. in.amount.value \in Int
  BY DEF Amount
<1>2. CASE in.tool = RefundTool
  BY <1>1, <1>2 DEF decision, deny, needs_approval, allow, RefundTool, PiiTools,
     is_positive_number, GreaterThan, AutoRefundLimit, ApprovalRefundLimit
<1>3. CASE in.tool \in PiiTools
  BY <1>3 DEF decision, deny, needs_approval, allow, RefundTool, PiiTools,
     has_role
<1> QED BY <1>2, <1>3

(* The two chains of the bundle come to the same end, whatever is asked.   *)
LEMMA ReasonIsDecision ==
  ASSUME NEW in
  PROVE  /\ decision(in) \in {"deny", "require_approval", "allow"}
         /\ decision(in) = "deny" => reason(in) = "denied"
         /\ decision(in) = "require_approval" => reason(in) = "requires approval"
         /\ decision(in) = "allow" => reason(in) = "allowed"
  BY DEF decision, reason, deny, needs_approval, allow, Admissible,
         RefundTool, PiiTools

LEMMA OfferedIsNotRefused ==
  ASSUME NEW tenant, NEW roles, NEW called \in Catalogue, NEW amount \in Amount,
         called \in tools_for_roles(tenant, roles),
         NEW in, in = [agent |-> TrustedAgent, tenant |-> tenant, roles |-> roles,
                       tool |-> called, amount |-> amount],
         decision(in) = "deny"
  PROVE  /\ called = RefundTool
         /\ ~(amount.kind = "number" /\ amount.value \in 1..ApprovalRefundLimit)
<1>1. PICK role \in roles : called \in role_tools_for(tenant, role)
  BY DEF tools_for_roles
<1>2. Admissible(in) /\ in.tool = called /\ in.amount = amount
  BY <1>1 DEF Admissible, is_trusted, has_tenant, may_call, role_tools_for
<1>3. called \notin BulkTools
  BY DEF BulkTools
<1>4. called \in PiiTools => has_role(in, "privacy")
  BY <1>1, PiiIsPrivacys DEF has_role
<1>5. called = RefundTool
  BY <1>2, <1>3, <1>4 DEF decision, deny, needs_approval, allow, RefundTool,
     Admissible, Catalogue
<1>6. ASSUME amount.kind = "number", amount.value \in 1..ApprovalRefundLimit
      PROVE  FALSE
  <2>1. amount.value \in Int /\ amount.value > 0 /\ amount.value <= 500
    BY <1>6 DEF ApprovalRefundLimit
  <2>2. ~deny(in)
    BY <1>2, <1>3, <1>6, <2>1 DEF deny, Admissible, is_positive_number, GreaterThan,
       ApprovalRefundLimit, Catalogue
  <2>3. needs_approval(in) \/ allow(in)
    BY <1>2, <1>5, <1>6, <2>1 DEF needs_approval, allow, is_positive_number, GreaterThan,
       ApprovalRefundLimit, AutoRefundLimit, RefundTool
  <2> QED BY <2>2, <2>3 DEF decision
<1> QED BY <1>5, <1>6

QueryInv == EnforcesTheAnswer /\ OffersTheMatrix

LEMMA InitEnforces == QueryInit => QueryInv
  BY DEF QueryInit, QueryInv, EnforcesTheAnswer, OffersTheMatrix

LEMMA NextEnforces == QueryInv /\ [QueryNext]_queryVars => QueryInv'
<1> SUFFICES ASSUME QueryInv, [QueryNext]_queryVars PROVE QueryInv'
  OBVIOUS
<1>1. ASSUME NEW reachable \in BOOLEAN, Offer(reachable)
      PROVE  QueryInv'
  BY <1>1 DEF Offer, OfferedTools, Catalogue, QueryInv, EnforcesTheAnswer, OffersTheMatrix
<1>2. ASSUME NEW agent \in Agents, NEW t \in Tools, NEW amount \in Amounts,
             NEW answered \in BOOLEAN, Enforce(agent, t, amount, answered)
      PROVE  QueryInv'
  <2> DEFINE in == [agent |-> agent, tenant |-> caller.tenant, roles |-> caller.roles,
                    tool |-> t, amount |-> amount]
  <2>1. /\ query' = in /\ UNCHANGED <<caller, offered>>
        /\ verdict' = IF t \notin Catalogue THEN "deny"
                      ELSE PolicyClientDecide(IF answered THEN decision(in)
                                                  ELSE "no answer")
    BY <1>2 DEF Enforce
  <2>2. in.amount \in Amounts
    OBVIOUS
  <2> HIDE DEF in
  <2>3. verdict' \in {"deny", decision(in)}
    BY <2>1 DEF PolicyClientDecide
  <2>4. OffersTheMatrix'
    BY <2>1 DEF QueryInv, OffersTheMatrix
  <2>5. (decision(query))' = decision(in)
    BY <2>1
  <2> QED BY <2>1, <2>2, <2>3, <2>4, <2>5 DEF QueryInv, EnforcesTheAnswer
<1>3. CASE UNCHANGED queryVars
  BY <1>3 DEF queryVars, QueryInv, EnforcesTheAnswer, OffersTheMatrix
<1> QED BY <1>1, <1>2, <1>3 DEF QueryNext

LEMMA QueryAlways == QuerySpec => []QueryInv
  BY InitEnforces, NextEnforces, PTL DEF QuerySpec

(* No refund above the automatic limit goes out on the policy's word, none *)
(* at all above the ceiling, and personal data only as a held call of the  *)
(* privacy role, for all inputs and if OPA is silent (authz.rego, decide). *)
THEOREM RiskIsHeld ==
  QuerySpec => []RiskyCallsAreHeld
<1>1. QueryInv => RiskyCallsAreHeld
  <2> SUFFICES ASSUME QueryInv PROVE RiskyCallsAreHeld
    OBVIOUS
  <2>1. CASE query = NoQuery
    <3>1. query.tool = ""
      BY <2>1 DEF NoQuery
    <3> QED BY <3>1 DEF RiskyCallsAreHeld, RefundTool, PiiTools
  <2>2. CASE query # NoQuery
    <3>1. query.amount \in Amount /\ verdict \in {"deny", decision(query)}
      BY <2>2, PolicyQueryAssumption DEF QueryInv, EnforcesTheAnswer
    <3> QED BY <3>1, DecisionOnRisk DEF RiskyCallsAreHeld, RefundTool
  <2> QED BY <2>1, <2>2
<1> QED BY <1>1, QueryAlways, PTL

(* The wording a person is shown announces the decision, for any question: *)
(* the rules of `decision` and the chain of `reason` have not drifted.     *)
THEOREM ReasonsAreTrue == QuerySpec => []ReasonAgreesWithDecision
<1>1. ReasonAgreesWithDecision
  BY ReasonIsDecision DEF ReasonAgreesWithDecision
<1> QED BY <1>1, PTL

(* What the agent offers the model is not refused but for the refund's     *)
(* amount: the offer and the decision read the same matrix, overrides      *)
(* included (allowed_tools, tools_for_roles).                              *)
THEOREM OffersAreMeant ==
  QuerySpec => []OfferedIsCallable
<1>1. QueryInv => OfferedIsCallable
  <2> SUFFICES ASSUME QueryInv, NEW t \in offered, NEW amount \in Amounts,
                      NEW in, in = [agent |-> TrustedAgent, tenant |-> caller.tenant,
                                    roles |-> caller.roles, tool |-> t, amount |-> amount],
                      decision(in) = "deny"
               PROVE  /\ t = RefundTool
                      /\ ~(amount.kind = "number"
                           /\ amount.value \in 1..ApprovalRefundLimit)
    BY DEF OfferedIsCallable, RefundTool
  <2>1. /\ t \in Catalogue /\ t \in tools_for_roles(caller.tenant, caller.roles)
        /\ amount \in Amount
    BY PolicyQueryAssumption DEF QueryInv, OffersTheMatrix
  <2> QED BY <2>1, OfferedIsNotRefused
<1> QED BY <1>1, QueryAlways, PTL
=============================================================================
