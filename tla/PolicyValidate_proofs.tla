------------------------ MODULE PolicyValidate_proofs -----------------------
(***************************************************************************)
(* Proofs about PolicyValidate, for any rules, any number of them and any  *)
(* spellings: its types, that the loop of Validate accepts exactly the     *)
(* valid policies, that its error is that of the first rule at fault, and  *)
(* that Parse denies by default.                                           *)
(***************************************************************************)
EXTENDS PolicyValidate, SequenceTheorems, TLAPS

-----------------------------------------------------------------------------
(***************************************************************************)
(* The inductive invariant, part by part.                                  *)
(***************************************************************************)

(* The call has got past reading and decoding, and past the default.       *)
Decoded == \/ pc \in {"Validate", "Loop"}
           \/ pc = "returned" /\ err \notin {"read", "yaml"}

(* Validate sees the rules as written, and the default as Parse leaves it. *)
PolicyInv ==
  /\ policy.rules = file.rules
  /\ pc \in {"LoadFromFile", "Parse", "Default"} => parsed
  /\ ~Decoded => policy.default = file.default
  /\ Decoded => policy.default = IF parsed THEN OrDeny(file.default)
                                           ELSE file.default

(* The rules before the i-th are valid and have names of their own, which  *)
(* are the ones in names.                                                  *)
PrefixInv ==
  /\ i \in 1..(Len(policy.rules) + 1)
  /\ \A k \in 1..(i - 1) : GoodRule(policy.rules[k])
  /\ names = {policy.rules[k].name : k \in 1..(i - 1)}
  /\ \A j, k \in 1..(i - 1) :
       policy.rules[j].name = policy.rules[k].name => j = k

(* Why the call has returned, or goes on.                                  *)
ResultInv ==
  /\ pc # "returned" => err = "nil"
  /\ pc \notin {"Loop", "returned"} => i = 1
  /\ pc = "Loop" => policy.default \in Effects \cup {""}
  /\ pc = "returned" =>
       /\ err \in RuleErrors \cup {"duplicate", "nil"} =>
            policy.default \in Effects \cup {""}
       /\ err = "default" => policy.default \notin Effects \cup {""}
       /\ err = "nil" => i = Len(policy.rules) + 1
       /\ err \in RuleErrors \cup {"duplicate"} => i <= Len(policy.rules)
       /\ err \in RuleErrors => ~GoodRule(policy.rules[i])
       /\ err = "duplicate" => policy.rules[i].name \in names

IInv == TypeOK /\ PolicyInv /\ PrefixInv /\ ResultInv

-----------------------------------------------------------------------------
(***************************************************************************)
(* Policies and rules.                                                     *)
(***************************************************************************)

(* The rules of a policy are a sequence of at most MaxRules of them.       *)
LEMMA RulesOf ==
  ASSUME NEW p \in Policies
  PROVE  /\ p = [default |-> p.default, rules |-> p.rules]
         /\ p.default \in Effects \cup {"", "Deny"}
         /\ p.rules \in Seq(Rules)
         /\ Len(p.rules) \in Nat /\ Len(p.rules) \in 0..MaxRules
         /\ DOMAIN p.rules = 1..Len(p.rules)
         /\ \A k \in 1..Len(p.rules) : p.rules[k] \in Rules
<1>1. p \in [default : Effects \cup {"", "Deny"},
             rules   : UNION {[1..n -> Rules] : n \in 0..MaxRules}]
  BY DEF Policies
<1>2. PICK n \in 0..MaxRules : p.rules \in [1..n -> Rules]
  BY <1>1
<1>3. n \in Nat
  BY <1>2, MaxRulesAssumption
<1>4. p.rules \in Seq(Rules) /\ Len(p.rules) = n
  BY <1>2, <1>3
<1> QED
  BY <1>1, <1>2, <1>3, <1>4, LenProperties, ElementOfSeq

(* Rule.Validate accepts exactly the valid rules; its errors are of the    *)
(* kinds it names.                                                         *)
LEMMA RuleValidate ==
  ASSUME NEW r \in Rules
  PROVE  /\ RuleError(r) = "nil" <=> GoodRule(r)
         /\ RuleError(r) # "nil" => RuleError(r) \in RuleErrors
BY DEF RuleError, GoodRule, KnownProtocol, RuleErrors

(* Valid rules, counted from the front.                                    *)
LEMMA GoodPrefix ==
  ASSUME NEW s \in Seq(Rules), NEW m \in 0..Len(s)
  PROVE  GoodRules(SubSeq(s, 1, m)) <=>
           /\ \A k \in 1..m : GoodRule(s[k])
           /\ \A j, k \in 1..m : s[j].name = s[k].name => j = k
<1> DEFINE t == SubSeq(s, 1, m)
<1>1. /\ m \in Nat /\ 1 \in 1..(Len(s) + 1)
      /\ m \in (1 - 1)..Len(s)
  BY LenProperties
<1>2. /\ t \in Seq(Rules) /\ Len(t) = m
      /\ \A k \in 1..m : t[k] = s[k]
  BY <1>1, SubSeqProperties
<1>3. DOMAIN t = 1..m
  BY <1>2, LenProperties
<1> HIDE DEF t
<1>4. GoodRules(t) <=> /\ \A k \in 1..m : GoodRule(s[k])
                       /\ \A j, k \in 1..m : s[j].name = s[k].name => j = k
  BY <1>2, <1>3 DEF GoodRules
<1> QED
  BY <1>4 DEF t

-----------------------------------------------------------------------------
(***************************************************************************)
(* The steps.                                                              *)
(***************************************************************************)

(* A call begins in the invariant.                                         *)
LEMMA InitIInv == Init => IInv
<1> SUFFICES ASSUME Init PROVE IInv
  OBVIOUS
<1>1. Len(policy.rules) \in 0..MaxRules
  BY RulesOf DEF Init
<1>2. TypeOK
  <2>1. parsed \in BOOLEAN
    BY DEF Init
  <2>2. i \in 1..(MaxRules + 1)
    BY MaxRulesAssumption DEF Init
  <2> QED
    BY <2>1, <2>2 DEF Init, TypeOK
<1>3. PolicyInv
  BY DEF Init, PolicyInv, Decoded
<1>4. PrefixInv
  <2>1. 1..(i - 1) = {}
    BY DEF Init
  <2> QED
    BY <1>1, <2>1 DEF Init, PrefixInv
<1>5. ResultInv
  BY DEF Init, ResultInv
<1> QED
  BY <1>2, <1>3, <1>4, <1>5 DEF IInv

(* The rule that the loop is at.                                           *)
LEMMA CurrentRule ==
  ASSUME TypeOK, i <= Len(policy.rules)
  PROVE  /\ Len(policy.rules) \in Nat /\ Len(policy.rules) <= MaxRules
         /\ i \in 1..Len(policy.rules)
         /\ policy.rules[i] \in Rules
<1>1. policy \in Policies /\ i \in 1..(MaxRules + 1)
  BY DEF TypeOK
<1>2. /\ Len(policy.rules) \in 0..MaxRules
      /\ \A k \in 1..Len(policy.rules) : policy.rules[k] \in Rules
  BY <1>1, RulesOf
<1>3. i \in 1..Len(policy.rules)
  BY <1>1, <1>2, MaxRulesAssumption
<1> QED
  BY <1>2, <1>3, MaxRulesAssumption

(* What an iteration of the loop does, in terms of valid rules.            *)
LEMMA RuleCases ==
  ASSUME TypeOK, ValidateRule
  PROVE  /\ i <= Len(policy.rules)
         /\ \/ /\ Returns("Loop", RuleError(policy.rules[i]))
               /\ RuleError(policy.rules[i]) \in RuleErrors
               /\ ~GoodRule(policy.rules[i])
            \/ /\ Returns("Loop", "duplicate")
               /\ policy.rules[i].name \in names
            \/ /\ GoodRule(policy.rules[i])
               /\ policy.rules[i].name \notin names
               /\ Goto("Loop", "Loop")
               /\ names' = NamesAfter(policy.rules[i])
               /\ i' = i + 1
               /\ UNCHANGED <<file, policy, parsed, err>>
<1> DEFINE r == policy.rules[i]
<1>1. i <= Len(policy.rules)
  BY DEF ValidateRule
<1>2. r \in Rules
  BY <1>1, CurrentRule
<1>3. /\ RuleError(r) = "nil" <=> GoodRule(r)
      /\ RuleError(r) # "nil" => RuleError(r) \in RuleErrors
  BY <1>2, RuleValidate
<1> QED
  BY <1>1, <1>3, Zenon DEF ValidateRule

(* Every step keeps the types.                                             *)
LEMMA TypeStep == IInv /\ [Next]_vars => TypeOK'
<1> SUFFICES ASSUME IInv, [Next]_vars PROVE TypeOK'
  OBVIOUS
<1>t. TypeOK
  BY DEF IInv
<1> USE DEF Goto, Proceeds, Returns
<1>1. ASSUME NEW from, NEW to \in {"Parse", "Default", "Loop"},
             Proceeds(from, to)
      PROVE  TypeOK'
  BY <1>t, <1>1, Zenon DEF TypeOK
<1>2. ASSUME NEW from,
             NEW kind \in RuleErrors
                          \cup {"nil", "read", "yaml", "default", "duplicate"},
             Returns(from, kind)
      PROVE  TypeOK'
  BY <1>t, <1>2, Zenon DEF TypeOK
<1> HIDE DEF Proceeds, Returns
<1>3. CASE LoadFromFile
  BY <1>1, <1>2, <1>3 DEF LoadFromFile
<1>4. CASE Unmarshal
  BY <1>1, <1>2, <1>4 DEF Unmarshal
<1>5. CASE ApplyDefault
  <2>1. OrDeny(policy.default) \in Effects \cup {"", "Deny"}
    BY <1>t, RulesOf DEF OrDeny, Effects, TypeOK
  <2>2. policy' \in Policies
    BY <1>t, <1>5, <2>1 DEF ApplyDefault, Policies, TypeOK
  <2> QED
    BY <1>t, <1>5, <2>2, Zenon DEF ApplyDefault, TypeOK
<1>6. CASE ValidateDefault
  BY <1>1, <1>2, <1>6 DEF ValidateDefault
<1>7. CASE ValidateRule
  <2> DEFINE r == policy.rules[i]
  <2>1. i <= Len(policy.rules)
    BY <1>t, <1>7, RuleCases
  <2>2. /\ Len(policy.rules) \in Nat /\ Len(policy.rules) <= MaxRules
        /\ i \in 1..Len(policy.rules) /\ r \in Rules
    BY <1>t, <2>1, CurrentRule
  <2> HIDE DEF r
  <2>3. CASE Returns("Loop", RuleError(r)) /\ RuleError(r) \in RuleErrors
    BY <1>2, <2>3
  <2>4. CASE Returns("Loop", "duplicate")
    BY <1>2, <2>4
  <2>5. CASE /\ names' = NamesAfter(r) /\ i' = i + 1 /\ Goto("Loop", "Loop")
             /\ UNCHANGED <<file, policy, parsed, err>>
    <3>1. names' \subseteq {q.name : q \in Rules}
      BY <1>t, <2>2, <2>5 DEF NamesAfter, TypeOK
    <3>2. i' \in 1..(MaxRules + 1)
      BY <2>2, <2>5, MaxRulesAssumption
    <3> QED
      BY <1>t, <2>5, <3>1, <3>2, Zenon DEF TypeOK
  <2> QED
    BY <1>t, <1>7, <2>3, <2>4, <2>5, RuleCases DEF r
<1>8. CASE ValidateReturns
  BY <1>2, <1>8 DEF ValidateReturns
<1>9. CASE UNCHANGED vars
  BY <1>t, <1>9, Zenon DEF TypeOK, vars
<1> QED
  BY <1>3, <1>4, <1>5, <1>6, <1>7, <1>8, <1>9 DEF Next

(* Only the default changes, once, and only for a policy that is parsed.   *)
LEMMA PolicyStep == IInv /\ [Next]_vars => PolicyInv'
<1> SUFFICES ASSUME IInv, [Next]_vars PROVE PolicyInv'
  OBVIOUS
<1>t. TypeOK /\ PolicyInv /\ (pc # "returned" => err = "nil")
  BY DEF IInv, ResultInv
<1> USE DEF PolicyInv, Decoded, Goto, Proceeds, Returns
<1>1. CASE LoadFromFile
  BY <1>t, <1>1 DEF LoadFromFile
<1>2. CASE Unmarshal
  BY <1>t, <1>2 DEF Unmarshal
<1>3. CASE ApplyDefault
  <2>1. policy = [default |-> policy.default, rules |-> policy.rules]
    BY <1>t, RulesOf DEF TypeOK
  <2>2. /\ policy'.rules = policy.rules
        /\ policy'.default = OrDeny(policy.default)
    BY <1>3, <2>1 DEF ApplyDefault
  <2> QED
    BY <1>t, <1>3, <2>2 DEF ApplyDefault
<1>4. CASE ValidateDefault
  BY <1>t, <1>4 DEF ValidateDefault
<1>5. CASE ValidateRule
  <2> DEFINE e == RuleError(policy.rules[i])
  <2>1. \/ Returns("Loop", e) /\ e \in RuleErrors
        \/ Returns("Loop", "duplicate")
        \/ Goto("Loop", "Loop") /\ UNCHANGED <<file, policy, parsed, err>>
    BY <1>t, <1>5, RuleCases
  <2> HIDE DEF e
  <2> QED
    BY <1>t, <2>1 DEF RuleErrors
<1>6. CASE ValidateReturns
  BY <1>t, <1>6 DEF ValidateReturns
<1>7. CASE UNCHANGED vars
  BY <1>t, <1>7 DEF vars
<1> QED
  BY <1>1, <1>2, <1>3, <1>4, <1>5, <1>6, <1>7 DEF Next

(* A rule joins the prefix when it is valid and its name is new.           *)
LEMMA PrefixStep == IInv /\ [Next]_vars => PrefixInv'
<1> SUFFICES ASSUME IInv, [Next]_vars PROVE PrefixInv'
  OBVIOUS
<1>t. TypeOK /\ PrefixInv
  BY DEF IInv
<1>1. ASSUME policy'.rules = policy.rules, UNCHANGED <<names, i>>
      PROVE  PrefixInv'
  BY <1>t, <1>1 DEF PrefixInv
<1> USE DEF Goto, Proceeds, Returns
<1>2. CASE LoadFromFile \/ Unmarshal \/ ValidateDefault
  BY <1>1, <1>2 DEF LoadFromFile, Unmarshal, ValidateDefault
<1>3. CASE ApplyDefault
  <2>1. policy = [default |-> policy.default, rules |-> policy.rules]
    BY <1>t, RulesOf DEF TypeOK
  <2>2. policy'.rules = policy.rules
    BY <1>3, <2>1 DEF ApplyDefault
  <2> QED
    BY <1>1, <1>3, <2>2 DEF ApplyDefault
<1>4. CASE ValidateRule
  <2> DEFINE s == policy.rules
  <2>1. i <= Len(s)
    BY <1>t, <1>4, RuleCases
  <2>2. Len(s) \in Nat /\ i \in 1..Len(s)
    BY <1>t, <2>1, CurrentRule
  <2>3. CASE UNCHANGED <<policy, names, i>>
    BY <1>1, <2>3
  <2>4. CASE /\ GoodRule(s[i]) /\ s[i].name \notin names
             /\ names' = NamesAfter(s[i]) /\ i' = i + 1
             /\ UNCHANGED policy
    <3>p. /\ \A k \in 1..(i - 1) : GoodRule(s[k])
          /\ names = {s[k].name : k \in 1..(i - 1)}
          /\ \A j, k \in 1..(i - 1) : s[j].name = s[k].name => j = k
      BY <1>t DEF PrefixInv
    <3>s. s' = s
      BY <2>4
    <3> HIDE DEF s
    <3>1. 1..(i' - 1) = 1..(i - 1) \cup {i} /\ i \notin 1..(i - 1)
      BY <2>2, <2>4
    <3>2. i' \in 1..(Len(s) + 1)
      BY <2>2, <2>4
    <3>3. \A k \in 1..(i' - 1) : GoodRule(s[k])
      BY <2>4, <3>p, <3>1
    <3>4. names' = {s[k].name : k \in 1..(i' - 1)}
      BY <2>4, <3>p, <3>1 DEF NamesAfter
    <3>5. \A k \in 1..(i - 1) : s[k].name # s[i].name
      BY <2>4, <3>p
    <3>6. \A j, k \in 1..(i' - 1) : s[j].name = s[k].name => j = k
      BY <3>p, <3>1, <3>5
    <3> QED
      BY <3>s, <3>2, <3>3, <3>4, <3>6 DEF PrefixInv, s
  <2> QED
    BY <1>t, <1>4, <2>3, <2>4, RuleCases
<1>5. CASE ValidateReturns
  BY <1>1, <1>5 DEF ValidateReturns
<1>6. CASE UNCHANGED vars
  BY <1>1, <1>6 DEF vars
<1> QED
  BY <1>2, <1>3, <1>4, <1>5, <1>6 DEF Next

(* A return leaves behind the reason for it.                               *)
LEMMA ResultStep == IInv /\ [Next]_vars => ResultInv'
<1> SUFFICES ASSUME IInv, [Next]_vars PROVE ResultInv'
  OBVIOUS
<1>t. TypeOK /\ PrefixInv /\ ResultInv
  BY DEF IInv
<1> USE DEF ResultInv, Goto, Proceeds, Returns
<1>1. CASE LoadFromFile
  BY <1>t, <1>1 DEF LoadFromFile, RuleErrors
<1>2. CASE Unmarshal
  BY <1>t, <1>2 DEF Unmarshal, RuleErrors
<1>3. CASE ApplyDefault
  BY <1>t, <1>3 DEF ApplyDefault
<1>4. CASE ValidateDefault
  BY <1>t, <1>4 DEF ValidateDefault, RuleErrors
<1>5. CASE ValidateRule
  <2> DEFINE r == policy.rules[i]
  <2>1. i <= Len(policy.rules)
    BY <1>t, <1>5, RuleCases
  <2>2. CASE /\ Returns("Loop", RuleError(r)) /\ RuleError(r) \in RuleErrors
             /\ ~GoodRule(r)
    BY <1>t, <2>1, <2>2 DEF RuleErrors
  <2>3. CASE Returns("Loop", "duplicate") /\ r.name \in names
    BY <1>t, <2>1, <2>3 DEF RuleErrors
  <2>4. CASE Goto("Loop", "Loop") /\ UNCHANGED <<policy, err>>
    BY <1>t, <2>4
  <2> QED
    BY <1>t, <1>5, <2>2, <2>3, <2>4, RuleCases
<1>6. CASE ValidateReturns
  <2>1. Len(policy.rules) \in Nat /\ i \in 1..(Len(policy.rules) + 1)
    BY <1>t, RulesOf DEF TypeOK, PrefixInv
  <2>2. i = Len(policy.rules) + 1
    BY <1>6, <2>1 DEF ValidateReturns
  <2> QED
    BY <1>t, <1>6, <2>2 DEF ValidateReturns, RuleErrors
<1>7. CASE UNCHANGED vars
  BY <1>t, <1>7 DEF vars
<1> QED
  BY <1>1, <1>2, <1>3, <1>4, <1>5, <1>6, <1>7 DEF Next

(* The invariant holds throughout.                                         *)
LEMMA SpecIInv == Spec => []IInv
<1>1. IInv /\ [Next]_vars => IInv'
  BY TypeStep, PolicyStep, PrefixStep, ResultStep DEF IInv
<1> QED
  BY InitIInv, <1>1, PTL DEF Spec

-----------------------------------------------------------------------------
(***************************************************************************)
(* The theorems.                                                           *)
(***************************************************************************)

(* The state of a call of LoadFromFile, Parse or Validate has its type; in *)
(* particular the default that Parse fills in is one the policy may hold.  *)
THEOREM PolicyTypeOK == Spec => []TypeOK
<1>1. IInv => TypeOK
  BY DEF IInv
<1> QED
  BY SpecIInv, <1>1, PTL

(* Policy.Validate returns nil for exactly the valid policies, however     *)
(* many rules there are and wherever its loop returns.                     *)
THEOREM PolicyValidateExact == Spec => []ValidateExact
<1>1. IInv => ValidateExact
  <2> SUFFICES ASSUME IInv, pc = "returned", err \notin {"read", "yaml"}
               PROVE  err = "nil" <=> GoodPolicy(file)
    BY DEF ValidateExact
  <2> DEFINE s == policy.rules
  <2>t. TypeOK /\ PolicyInv /\ PrefixInv /\ ResultInv
    BY DEF IInv
  <2>1. /\ s = file.rules
        /\ s \in Seq(Rules) /\ Len(s) \in Nat /\ DOMAIN s = 1..Len(s)
    BY <2>t, RulesOf DEF TypeOK, PolicyInv
  <2>2. policy.default \in Effects \cup {""}
          <=> file.default \in Effects \cup {""}
    BY <2>t DEF PolicyInv, Decoded, OrDeny, Effects
  <2>3. GoodPolicy(file) <=>
          policy.default \in Effects \cup {""} /\ GoodRules(s)
    BY <2>1, <2>2 DEF GoodPolicy
  <2>p. /\ i \in 1..(Len(s) + 1)
        /\ \A k \in 1..(i - 1) : GoodRule(s[k])
        /\ names = {s[k].name : k \in 1..(i - 1)}
        /\ \A j, k \in 1..(i - 1) : s[j].name = s[k].name => j = k
    BY <2>t DEF PrefixInv
  <2>r. /\ err = "nil" => /\ i = Len(s) + 1
                          /\ policy.default \in Effects \cup {""}
        /\ err = "default" => policy.default \notin Effects \cup {""}
        /\ err \in RuleErrors => i <= Len(s) /\ ~GoodRule(s[i])
        /\ err = "duplicate" => i <= Len(s) /\ s[i].name \in names
    BY <2>t DEF ResultInv
  <2>n. Len(s) \in Nat
    BY <2>1
  <2> HIDE DEF s
  <2>4. CASE err = "nil"
    <3>0. i = Len(s) + 1
      BY <2>r, <2>4, Zenon
    <3>1. i - 1 = Len(s)
      BY <2>n, <3>0
    <3>2. 1..(i - 1) = DOMAIN s
      BY <2>1, <3>1, Zenon
    <3> QED
      BY <2>3, <2>4, <2>p, <2>r, <3>2 DEF GoodRules
  <2>5. CASE err = "default"
    BY <2>3, <2>5, <2>r
  <2>6. CASE err \in RuleErrors
    <3>0. i <= Len(s) /\ ~GoodRule(s[i])
      BY <2>6, <2>r, Zenon
    <3>1. i \in 1..Len(s)
      BY <2>n, <2>p, <3>0
    <3> QED
      BY <2>1, <2>3, <2>6, <3>0, <3>1 DEF GoodRules, RuleErrors
  <2>7. CASE err = "duplicate"
    <3>1. PICK k \in 1..(i - 1) : s[i].name = s[k].name
      BY <2>7, <2>p, <2>r
    <3>2. i \in DOMAIN s /\ k \in DOMAIN s /\ i # k
      BY <2>1, <2>7, <2>p, <2>r, <3>1
    <3> QED
      BY <2>3, <2>7, <3>1, <3>2 DEF GoodRules
  <2> QED
    BY <2>t, <2>4, <2>5, <2>6, <2>7 DEF TypeOK
<1> QED
  BY SpecIInv, <1>1, PTL

(* The error that Policy.Validate returns is that of the first rule at     *)
(* fault, in the order of the file.                                        *)
THEOREM PolicyFirstFault == Spec => []FirstFault
<1>1. IInv => FirstFault
  <2> SUFFICES ASSUME IInv, pc = "returned",
                      err \in RuleErrors \cup {"duplicate"}
               PROVE  /\ GoodRules(SubSeq(policy.rules, 1, i - 1))
                      /\ ~GoodRules(SubSeq(policy.rules, 1, i))
    BY DEF FirstFault
  <2> DEFINE s == policy.rules
  <2>t. TypeOK /\ PrefixInv /\ ResultInv
    BY DEF IInv
  <2>1. s \in Seq(Rules) /\ Len(s) \in Nat
    BY <2>t, RulesOf DEF TypeOK
  <2>p. /\ i \in 1..(Len(s) + 1)
        /\ \A k \in 1..(i - 1) : GoodRule(s[k])
        /\ names = {s[k].name : k \in 1..(i - 1)}
        /\ \A j, k \in 1..(i - 1) : s[j].name = s[k].name => j = k
    BY <2>t DEF PrefixInv
  <2>r. /\ i <= Len(s)
        /\ err \in RuleErrors => ~GoodRule(s[i])
        /\ err = "duplicate" => s[i].name \in names
    BY <2>t DEF ResultInv
  <2> HIDE DEF s
  <2>2. i - 1 \in 0..Len(s) /\ i \in 0..Len(s) /\ i \in 1..i
    BY <2>1, <2>p, <2>r
  <2>3. GoodRules(SubSeq(s, 1, i - 1))
    BY <2>1, <2>2, <2>p, GoodPrefix
  <2>4. ~GoodRules(SubSeq(s, 1, i))
    <3>1. GoodRules(SubSeq(s, 1, i)) =>
            /\ \A k \in 1..i : GoodRule(s[k])
            /\ \A j, k \in 1..i : s[j].name = s[k].name => j = k
      BY <2>1, <2>2, GoodPrefix
    <3>2. CASE err \in RuleErrors
      BY <2>2, <2>r, <3>1, <3>2
    <3>3. CASE err = "duplicate"
      <4>1. PICK k \in 1..(i - 1) : s[i].name = s[k].name
        BY <2>p, <2>r, <3>3
      <4>2. k \in 1..i /\ i # k
        BY <2>p, <4>1
      <4> QED
        BY <2>2, <3>1, <4>1, <4>2
    <3> QED
      BY <3>2, <3>3
  <2> QED
    BY <2>3, <2>4 DEF s
<1> QED
  BY SpecIInv, <1>1, PTL

(* A policy that Parse returns has a decisive default, "deny" where the    *)
(* file names none, and the rules of the file.                             *)
THEOREM PolicyDefaultDeny == Spec => []DefaultDeny
<1>1. IInv => DefaultDeny
  <2> SUFFICES ASSUME IInv, pc = "returned", parsed, err = "nil"
               PROVE  /\ policy.default \in Effects
                      /\ policy.default # "deny" =>
                           file.default = policy.default
                      /\ policy.rules = file.rules
    BY DEF DefaultDeny
  <2>1. PolicyInv /\ ResultInv
    BY DEF IInv
  <2>2. policy.default = OrDeny(file.default) /\ policy.rules = file.rules
    BY <2>1 DEF PolicyInv, Decoded
  <2>3. policy.default \in Effects \cup {""}
    BY <2>1 DEF ResultInv
  <2> QED
    BY <2>2, <2>3 DEF OrDeny, Effects
<1> QED
  BY SpecIInv, <1>1, PTL
=============================================================================
