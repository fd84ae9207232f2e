-------------------------- MODULE MCPolicyValidate --------------------------
(* Model values for PolicyValidate: two good names and, of every condition *)
(* on a rule, a value on each side of it.                                  *)
EXTENDS PolicyValidate

SomeRule(name, effect, sourceIP, protocol) ==
  [name |-> name, effect |-> effect, sourceIP |-> sourceIP,
   protocol |-> protocol]

SomeSpellings == {"", "tcp", "TCP", "icmp"}
LowerCase == [p \in SomeSpellings |-> IF p = "TCP" THEN "tcp" ELSE p]

SomeRules ==
  {SomeRule(n, "allow", "cidr", "TCP") : n \in {"", "a", "b"}}
    \cup {SomeRule(n, "deny", "", "") : n \in {"a", "b"}}
    \cup {SomeRule("a", e, "", "tcp") : e \in {"", "Allow"}}
    \cup {SomeRule(n, "deny", "malformed", "icmp") : n \in {"", "b"}}
    \cup {SomeRule("a", "allow", "", "icmp")}
=============================================================================
