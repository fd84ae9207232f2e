--------------------------- MODULE PolicyValidate ---------------------------
(***************************************************************************)
(* Loading and validation of a policy, pkg/policy/types.go: LoadFromFile,  *)
(* Parse, and the loop of Policy.Validate with its early returns.  A       *)
(* string is abstracted to what the code tells apart: a name, a spelling   *)
(* of a protocol, and CIDR notation as empty, well-formed or malformed.    *)
(***************************************************************************)
EXTENDS Naturals, Sequences

CONSTANTS
  Rules,       \* rules that a policy file may hold
  MaxRules,    \* bound: number of rules in a policy
  Spellings,   \* spellings of protocols, "" among them
  Fold         \* Fold[p] is the spelling p in lower case

Effects   == {"allow", "deny"}
Protocols == {"tcp", "udp", "http", "https", "stcp", "sudp", "xtcp"}

RuleType == [name : STRING, effect : STRING,
             sourceIP : {"", "cidr", "malformed"}, protocol : Spellings]

ASSUME MaxRulesAssumption  == MaxRules \in Nat
ASSUME SpellingsAssumption == Fold \in [Spellings -> STRING]
ASSUME RulesAssumption     == Rules \subseteq RuleType

Policies ==
  [default : Effects \cup {"", "Deny"},
   rules   : UNION {[1..n -> Rules] : n \in 0..MaxRules}]

VARIABLES
  file,     \* the policy as it was written, or built by a caller
  policy,   \* the policy as Validate sees it and as Parse returns it
  pc,       \* LoadFromFile, Parse, Default, Validate, Loop, returned
  parsed,   \* the call is one of LoadFromFile or Parse
  names,    \* the names Validate has seen
  i,        \* index of the next rule, from 1
  err       \* the kind of the error returned

vars == <<file, policy, pc, parsed, names, i, err>>

RuleErrors == {"name", "effect", "source_ip", "protocol"}

TypeOK ==
  /\ file \in Policies /\ policy \in Policies
  /\ pc \in {"LoadFromFile", "Parse", "Default", "Validate", "Loop",
             "returned"}
  /\ parsed \in BOOLEAN
  /\ names \subseteq {r.name : r \in Rules}
  /\ i \in 1..(MaxRules + 1)
  /\ err \in RuleErrors \cup {"nil", "read", "yaml", "default", "duplicate"}

(* A caller loads a file, parses bytes, or validates a policy it has.      *)
Init ==
  /\ file \in Policies /\ policy = file
  /\ pc \in {"LoadFromFile", "Parse", "Validate"}
  /\ parsed = (pc # "Validate")
  /\ names = {} /\ i = 1 /\ err = "nil"

-----------------------------------------------------------------------------
Goto(from, to) == pc = from /\ pc' = to

Proceeds(from, to) ==
  Goto(from, to) /\ UNCHANGED <<file, policy, parsed, names, i, err>>

Returns(from, kind) ==
  /\ Goto(from, "returned")
  /\ err' = kind
  /\ UNCHANGED <<file, policy, parsed, names, i>>

(* os.ReadFile and yaml.Unmarshal succeed, or they do not.                 *)
LoadFromFile ==
  \/ Proceeds("LoadFromFile", "Parse")
  \/ Returns("LoadFromFile", "read")

Unmarshal ==
  \/ Proceeds("Parse", "Default")
  \/ Returns("Parse", "yaml")

(* Parse denies by default.                                                *)
KeepDefault(effect) == effect                                  \* mutant
OrNone(effect)      == IF effect = "" THEN "none" ELSE effect  \* mutant
OrDeny(effect)      == IF effect = "" THEN "deny" ELSE effect

ApplyDefault ==
  /\ Goto("Default", "Validate")
  /\ policy' = [policy EXCEPT !.default = OrDeny(@)]
  /\ UNCHANGED <<file, parsed, names, i, err>>

(* Policy.Validate: the default effect, then the loop.                     *)
ValidateDefault ==
  IF policy.default \in Effects \cup {""}
    THEN Proceeds("Validate", "Loop")
    ELSE Returns("Validate", "default")

(* Rule.Validate and Match.Validate, in their order.                       *)
KnownSpelling(p) == p = "" \/ p \in Protocols                  \* mutant
KnownProtocol(p) == p = "" \/ \E v \in Protocols : Fold[p] = v

RuleError(r) ==
  IF r.name = "" THEN "name"
  ELSE IF r.effect \notin Effects THEN "effect"
  ELSE IF r.sourceIP = "malformed" THEN "source_ip"
  ELSE IF ~KnownProtocol(r.protocol) THEN "protocol"
  ELSE "nil"

(* names[rule.Name] = true                                                 *)
NamesLast(r)  == {r.name}                                      \* mutant
NamesAfter(r) == names \cup {r.name}

ValidateRule ==
  LET r == policy.rules[i]
  IN  /\ i <= Len(policy.rules)
      /\ \/ /\ RuleError(r) # "nil"
            /\ Returns("Loop", RuleError(r))
         \/ /\ RuleError(r) = "nil" /\ r.name \in names
            /\ Returns("Loop", "duplicate")
         \/ /\ RuleError(r) = "nil" /\ r.name \notin names
            /\ Goto("Loop", "Loop")
            /\ names' = NamesAfter(r)
            /\ i' = i + 1
            /\ UNCHANGED <<file, policy, parsed, err>>

ValidateReturns == i > Len(policy.rules) /\ Returns("Loop", "nil")

Next ==
  \/ LoadFromFile \/ Unmarshal \/ ApplyDefault
  \/ ValidateDefault \/ ValidateRule \/ ValidateReturns

Spec == Init /\ [][Next]_vars

-----------------------------------------------------------------------------
(* What a valid policy is, without a loop.                                 *)
GoodRule(r) ==
  /\ r.name # "" /\ r.effect \in Effects
  /\ r.sourceIP # "malformed"
  /\ r.protocol = "" \/ Fold[r.protocol] \in Protocols

GoodRules(s) ==
  /\ \A k \in DOMAIN s : GoodRule(s[k])
  /\ \A j, k \in DOMAIN s : s[j].name = s[k].name => j = k

GoodPolicy(p) == p.default \in Effects \cup {""} /\ GoodRules(p.rules)

(* Validate accepts exactly the valid policies, whichever way the policy   *)
(* came to it and wherever the loop returned; a file that could not be     *)
(* read or decoded aside.                                                  *)
ValidateExact ==
  pc = "returned" /\ err \notin {"read", "yaml"} =>
    (err = "nil" <=> GoodPolicy(file))

(* The error is that of the first rule that is at fault: what comes before *)
(* it is valid, and with it the policy is not.                             *)
FirstFault ==
  pc = "returned" /\ err \in RuleErrors \cup {"duplicate"} =>
    /\ GoodRules(SubSeq(policy.rules, 1, i - 1))
    /\ ~GoodRules(SubSeq(policy.rules, 1, i))

(* A policy that Parse returns is decided where no rule matches, and by    *)
(* "deny" unless its file says otherwise; the rest of it is as written.    *)
DefaultDeny ==
  pc = "returned" /\ parsed /\ err = "nil" =>
    /\ policy.default \in Effects
    /\ policy.default # "deny" => file.default = policy.default
    /\ policy.rules = file.rules
=============================================================================
